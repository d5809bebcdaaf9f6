-------------------------- MODULE FrameReader_proofs --------------------------
(* Theorems about FrameReader, for all frames of the broker whose lengths  *)
(* can be said, and however the bytes are cut.                             *)
EXTENDS FrameReader, Codecs_proofs

-----------------------------------------------------------------------------
(* Frames and their headers.                                               *)

LEMMA EmptySize == SizeOf(<<>>) = 0
<1>1. [i \in 1..Len(<<>>) |-> 1 + <<>>[i].n] = <<>>
  BY SMT
<1> QED
  BY Zenon, <1>1, TotalEmpty DEF SizeOf

LEMMA FrameLengths ==
    ASSUME NEW f \in Frames
    PROVE  RemainingLen(f) \in Nat /\ RemainingLen(f) <= MaxLength
<1>1. CASE f = PingResp
  <2>1. f.head = 0 /\ f.reasons = <<>> /\ f.written = FALSE /\ f.payload = <<>>
    BY SMT, <1>1 DEF PingResp
  <2>2. RemainingLen(f) = 0 + Len(<<>>) + 0 + SizeOf(<<>>)
    BY SMT, <2>1 DEF RemainingLen
  <2> QED
    BY SMT, <2>2, EmptySize DEF MaxLength
<1>2. ASSUME NEW p \in Protocols, f \in FirstFrames[p] \cup LaterFrames[p]
      PROVE  RemainingLen(f) \in Nat /\ RemainingLen(f) <= MaxLength
  <2>1. RemainingLen(f) \in 0..MaxLength
    BY Zenon, <1>2, LengthAssumption
  <2>2. MaxLength \in Int
    BY SMT DEF MaxLength
  <2>3. \A r \in 0..MaxLength : r \in Nat /\ r <= MaxLength
    BY SMT, <2>2
  <2> QED
    BY Zenon, <2>1, <2>3
<1> QED
  BY Zenon, <1>1, <1>2 DEF Frames

\* The header of a frame is its type byte and the length that is written, of as
\* many bytes as len_len says.
LEMMA HeaderSize ==
    ASSUME NEW f \in Frames
    PROVE  /\ LenLen(RemainingLen(f)) \in 1..4
           /\ Len(HeaderOf[f]) = 1 + LenLen(RemainingLen(f))
           /\ HeaderOf[f] \in Seq(Nat \cup {TypeByte(f.ty)})
           /\ Tail(HeaderOf[f]) = WriteRemainingLength(RemainingLen(f))
           /\ LengthOf[f] \in Nat
           /\ LengthOf[f] = 1 + LenLen(RemainingLen(f)) + RemainingLen(f)
<1> DEFINE r == RemainingLen(f)
           w == WriteRemainingLength(r)
           h == HeaderOf[f]
           t == TypeByte(f.ty)
           S == Nat \cup {t}
<1>1. r \in Nat /\ r <= MaxLength
  BY Zenon, FrameLengths
<1>2. w \in Seq(Byte) /\ Len(w) = Count(r)
  BY Zenon, <1>1, Written
<1>3. LenLen(r) \in 1..4 /\ Count(r) = LenLen(r)
  BY SMT, <1>1, Limits
<1>4. h = <<t>> \o w /\ LengthOf[f] = Len(h) + r
  BY Zenon DEF HeaderOf, FixedHeader, LengthOf, FrameLength
<1> HIDE DEF w, r, h, t
<1>5. Len(h) = Len(w) + 1 /\ Tail(h) = w /\ h \in Seq(S)
  <2>1. w \in Seq(S)
    <3>1. Byte \subseteq S
      BY SMT DEF Byte
    <3> QED
      BY Zenon, <1>2, <3>1, SeqMonotonic
  <2>2. <<t>> \in Seq(S)
    BY SMT
  <2> HIDE DEF S
  <2> QED
    BY SMT, <2>1, <2>2, <1>4
<1>6. Len(h) = 1 + LenLen(r)
  BY SMT, <1>2, <1>3, <1>5
<1>7. LengthOf[f] \in Nat /\ LengthOf[f] = 1 + LenLen(r) + r
  BY SMT, <1>1, <1>3, <1>4, <1>6
<1> QED
  BY Zenon, <1>3, <1>5, <1>6, <1>7 DEF h, w, r, t

\* When all of it is in the buffer it is read.
LEMMA WholeHeader ==
    ASSUME NEW f \in Frames, NEW n \in Int, n >= Len(HeaderOf[f])
    PROVE  ParseHeader(f, n) = Decoded(LenLen(RemainingLen(f)), RemainingLen(f))
<1> DEFINE r == RemainingLen(f)
           w == WriteRemainingLength(r)
           h == HeaderOf[f]
<1>1. r \in Nat /\ r <= MaxLength
  BY Zenon, FrameLengths
<1>2. Length(w \o <<>>) = Decoded(LenLen(r), r)
  <2>1. <<>> \in Seq(Byte)
    BY SMT
  <2>2. ReadsBack(r, <<>>)
    BY Zenon, <1>1, <2>1, EveryLengthReadsBack
  <2> QED
    BY Zenon, <1>1, <2>2 DEF ReadsBack
<1>3. w \o <<>> = w
  <2>1. w \in Seq(Byte)
    BY Zenon, <1>1, Written
  <2> HIDE DEF w
  <2> QED
    BY SMT, <2>1
<1>4. ~ (n < 2) /\ ~ (n < Len(h))
  <2>1. Len(h) = 1 + LenLen(r) /\ LenLen(r) \in 1..4
    BY Zenon, HeaderSize
  <2> HIDE DEF r
  <2> QED
    BY SMT, <2>1
<1>5. ParseHeader(f, n) = Length(Tail(h))
  BY Zenon, <1>4 DEF ParseHeader
<1>6. Tail(h) = w
  BY Zenon, HeaderSize
<1> QED
  BY Zenon, <1>2, <1>3, <1>5, <1>6

\* When it is cut, no length is read.
LEMMA CutHeader ==
    ASSUME NEW f \in Frames, NEW n \in Int, n < Len(HeaderOf[f])
    PROVE  ParseHeader(f, n) = Insufficient
<1> DEFINE r == RemainingLen(f)
           w == WriteRemainingLength(r)
           h == HeaderOf[f]
<1>1. r \in Nat /\ r <= MaxLength
  BY Zenon, FrameLengths
<1>2. CASE n < 2
  BY Zenon, <1>2 DEF ParseHeader
<1>3. CASE ~ (n < 2)
  <2>1. ParseHeader(f, n) = Length(Tail(SubSeq(h, 1, n)))
    BY Zenon, <1>3 DEF ParseHeader
  <2>2. n - 1 \in 0..Count(r) - 1 /\ n \in 2..Len(h) /\ Len(h) = 1 + Count(r)
    <3>1. Len(h) = 1 + LenLen(r) /\ LenLen(r) \in 1..4
      BY Zenon, HeaderSize
    <3>2. Count(r) = LenLen(r)
      BY SMT, <1>1, Limits
    <3> HIDE DEF h, r
    <3>3. n < Len(h)
      BY Zenon DEF h
    <3> QED
      BY SMT, <1>3, <3>1, <3>2, <3>3
  <2>3. Tail(SubSeq(h, 1, n)) = SubSeq(w, 1, n - 1)
    <3>1. /\ h \in Seq(Nat \cup {TypeByte(f.ty)}) /\ Tail(h) = w
      BY Zenon, HeaderSize
    <3> DEFINE S == Nat \cup {TypeByte(f.ty)}
    <3> HIDE DEF h, w, S, r
    <3>2. h \in Seq(S)
      BY Zenon, <3>1 DEF S
    <3>3. Tail(SubSeq(h, 1, n)) = SubSeq(h, 2, n)
      BY SMT, <2>2, <3>2
    <3>4. SubSeq(Tail(h), 1, n - 1) = SubSeq(h, 2, n)
      <4>1. /\ Tail(h) \in Seq(S) /\ Len(Tail(h)) = Len(h) - 1
            /\ \A k \in 1..Len(h) - 1 : Tail(h)[k] = h[k + 1]
        BY SMT, <2>2, <3>2
      <4>2. /\ SubSeq(Tail(h), 1, n - 1) \in Seq(S)
            /\ Len(SubSeq(Tail(h), 1, n - 1)) = n - 1
            /\ \A k \in 1..n - 1 : SubSeq(Tail(h), 1, n - 1)[k] = h[k + 1]
        BY SMT, <2>2, <4>1
      <4>3. /\ SubSeq(h, 2, n) \in Seq(S) /\ Len(SubSeq(h, 2, n)) = n - 1
            /\ \A k \in 1..n - 1 : SubSeq(h, 2, n)[k] = h[k + 1]
        BY SMT, <2>2, <3>2
      <4> QED
        BY Zenon, <4>2, <4>3, SeqEqual
    <3> QED
      BY Zenon, <3>1, <3>3, <3>4
  <2>4. Length(SubSeq(w, 1, n - 1)) = Insufficient
    BY Zenon, <1>1, <2>2, EveryPrefixWaits DEF WaitsForTheRest
  <2> QED
    BY Zenon, <2>1, <2>3, <2>4
<1> QED
  BY Zenon, <1>2, <1>3

-----------------------------------------------------------------------------
(* Where the frames begin.                                                 *)

\* Start, of any frames.
StartIn(frames, i) == Total([j \in 1..(i - 1) |-> LengthOf[frames[j]]])

LEMMA FirstStart == Start(1) = 0
<1>1. 1 - 1 = 0
  BY SMT
<1> QED
  BY SMT, <1>1, TotalNone DEF Start

LEMMA StartIsTotal ==
    ASSUME NEW w, NEW n \in Nat
    PROVE  StartIn(w, n + 1) = Total([j \in 1..n |-> LengthOf[w[j]]])
<1>1. n + 1 - 1 = n
  BY SMT
<1> QED
  BY SMT, <1>1 DEF StartIn

\* A frame begins where the one before it ends.
LEMMA NextStart ==
    ASSUME NEW w \in Seq(Frames), NEW i \in 1..Len(w)
    PROVE  /\ StartIn(w, 1) = 0
           /\ StartIn(w, i) \in Nat /\ StartIn(w, i + 1) \in Nat
           /\ StartIn(w, i + 1) = StartIn(w, i) + LengthOf[w[i]]
<1> DEFINE s == [j \in 1..Len(w) |-> LengthOf[w[j]]]
<1>1. /\ Len(w) \in Nat /\ i \in Nat /\ i - 1 \in Nat /\ i - 1 + 1 = i /\ i <= Len(w)
      /\ i + 1 - 1 = i /\ 1 - 1 = 0
  BY SMT
<1>0. 0 \in Nat
  BY SMT
<1>2. \A j \in 1..Len(w) : w[j] \in Frames /\ LengthOf[w[j]] \in Nat
  <2>1. \A j \in 1..Len(w) : w[j] \in Frames
    BY SMT
  <2> QED
    BY Zenon, <2>1, HeaderSize
<1>3. \A n \in 0..Len(w) :
        /\ [j \in 1..n |-> LengthOf[w[j]]] = [j \in 1..n |-> s[j]]
        /\ [j \in 1..n |-> s[j]] \in Seq(Nat)
  BY SMT, <1>1, <1>2
<1>4. \A j \in 1..i - 1 + 1 : s[j] \in Int
  BY SMT, <1>1, <1>2
<1>5. s[i] = LengthOf[w[i]]
  BY Zenon
<1> HIDE DEF s
<1>6. Total([j \in 1..i |-> s[j]]) = Total([j \in 1..i - 1 |-> s[j]]) + s[i]
  <2>1. Total([j \in 1..i - 1 + 1 |-> s[j]]) = Total([j \in 1..i - 1 |-> s[j]]) + s[i - 1 + 1]
    BY Zenon, <1>1, <1>4, TotalStep
  <2> QED
    BY SMT, <1>1, <2>1
<1>7. i \in 0..Len(w) /\ i - 1 \in 0..Len(w) /\ 0 \in 0..Len(w)
  BY SMT, <1>1
<1>8. /\ StartIn(w, i + 1) = Total([j \in 1..i |-> s[j]])
      /\ StartIn(w, i) = Total([j \in 1..i - 1 |-> s[j]])
      /\ StartIn(w, 1) = Total([j \in 1..0 |-> s[j]])
  <2>1. /\ StartIn(w, i + 1) = Total([j \in 1..i |-> LengthOf[w[j]]])
        /\ StartIn(w, i - 1 + 1) = Total([j \in 1..i - 1 |-> LengthOf[w[j]]])
        /\ StartIn(w, 0 + 1) = Total([j \in 1..0 |-> LengthOf[w[j]]])
    BY Zenon, <1>1, <1>0, StartIsTotal
  <2>2. StartIn(w, i - 1 + 1) = StartIn(w, i) /\ StartIn(w, 0 + 1) = StartIn(w, 1)
    BY SMT, <1>1
  <2> QED
    BY Zenon, <1>3, <1>7, <2>1, <2>2
<1>9. Total([j \in 1..i |-> s[j]]) \in Nat /\ Total([j \in 1..i - 1 |-> s[j]]) \in Nat
  BY Zenon, <1>3, <1>7, TotalType
<1> QED
  BY Zenon, <1>5, <1>6, <1>8, <1>9, TotalNone

\* What is left when the first k frames are taken.
LEMMA StartOfRest ==
    ASSUME NEW w \in Seq(Frames), NEW k \in 0..Len(w)
    PROVE  LET rest == SubSeq(w, k + 1, Len(w))
           IN  /\ StartIn(w, k + 1) \in Nat /\ StartIn(w, Len(w) + 1) \in Nat
               /\ StartIn(rest, Len(rest) + 1) \in Nat
               /\ StartIn(w, Len(w) + 1) = StartIn(w, k + 1) + StartIn(rest, Len(rest) + 1)
<1> DEFINE s == [j \in 1..Len(w) |-> LengthOf[w[j]]]
           rest == SubSeq(w, k + 1, Len(w))
           a == SubSeq(s, 1, k)
           b == SubSeq(s, k + 1, Len(s))
           n == Len(w)
<1>1. n \in Nat /\ k \in Nat /\ k <= n /\ k + 1 - 1 = k /\ n + 1 - 1 = n
  BY SMT
<1>2. /\ rest \in Seq(Frames) /\ Len(rest) = n - k /\ Len(rest) + 1 - 1 = n - k
      /\ \A j \in 1..n - k : rest[j] = w[j + k]
  <2>1. /\ rest \in Seq(Frames) /\ Len(rest) = n - k
        /\ \A j \in 1..n - k : rest[j] = w[j + k]
    BY Zenon, SuffixElements
  <2> HIDE DEF rest, n
  <2> QED
    BY SMT, <1>1, <2>1
<1>3. \A j \in 1..n : LengthOf[w[j]] \in Nat
  <2>1. \A j \in 1..n : w[j] \in Frames
    BY SMT
  <2> QED
    BY Zenon, <2>1, HeaderSize
<1>4. s \in Seq(Nat) /\ Len(s) = n /\ \A j \in 1..n : s[j] = LengthOf[w[j]]
  BY SMT, <1>1, <1>3
<1>5. StartIn(w, n + 1) = Total(s)
  BY Zenon, <1>1, StartIsTotal
<1> HIDE DEF s, rest, n
<1>6. k \in 0..Len(s)
  BY SMT, <1>1, <1>4
<1>7. /\ a \in Seq(Nat) /\ b \in Seq(Nat)
      /\ Total(s) = Total(a) + Total(b)
  BY Zenon, <1>4, <1>6, TotalSplit
<1>8. a = [j \in 1..k |-> LengthOf[w[j]]]
  BY SMT, <1>1, <1>4
<1>9. b = [j \in 1..n - k |-> LengthOf[rest[j]]]
  <2>1. /\ b \in Seq(Nat) /\ Len(b) = n - k
        /\ \A j \in 1..n - k : b[j] = s[j + k]
    <3>1. /\ b \in Seq(Nat) /\ Len(b) = Len(s) - k
          /\ \A j \in 1..Len(s) - k : b[j] = s[j + k]
      BY Zenon, <1>4, <1>6, SuffixElements
    <3> HIDE DEF b
    <3> QED
      BY SMT, <1>4, <3>1
  <2>2. \A j \in 1..n - k : j + k \in 1..n
    BY SMT, <1>1
  <2>3. \A j \in 1..n - k : b[j] = LengthOf[rest[j]]
    BY Zenon, <1>2, <1>4, <2>1, <2>2
  <2> HIDE DEF b
  <2> QED
    BY SMT, <1>1, <2>1, <2>3
<1>10. StartIn(w, k + 1) = Total(a) /\ StartIn(rest, Len(rest) + 1) = Total(b)
  <2>1. n - k \in Nat
    BY SMT, <1>1
  <2> QED
    <3>1. /\ StartIn(w, k + 1) = Total([j \in 1..k |-> LengthOf[w[j]]])
          /\ StartIn(rest, n - k + 1) = Total([j \in 1..n - k |-> LengthOf[rest[j]]])
      BY Zenon, <1>1, <2>1, StartIsTotal
    <3> QED
      BY Zenon, <1>2, <1>8, <1>9, <3>1
<1>11. Total(a) \in Nat /\ Total(b) \in Nat /\ Total(s) \in Nat
  BY Zenon, <1>4, <1>7, TotalType
<1> QED
  BY Zenon, <1>5, <1>7, <1>10, <1>11 DEF n, rest

\* A frame is put behind the others.
LEMMA StartAfterAppend ==
    ASSUME NEW w \in Seq(Frames), NEW f \in Frames
    PROVE  /\ StartIn(w, Len(w) + 1) \in Nat
           /\ StartIn(Append(w, f), Len(Append(w, f)) + 1) \in Nat
           /\ StartIn(w, Len(w) + 1) <= StartIn(Append(w, f), Len(Append(w, f)) + 1)
<1> DEFINE v == Append(w, f)
           n == Len(w)
<1>1. /\ n \in Nat /\ v \in Seq(Frames) /\ Len(v) = n + 1 /\ v[n + 1] = f
      /\ n + 1 \in 1..Len(v) /\ n + 1 - 1 = n
      /\ \A j \in 1..n : v[j] = w[j]
  BY SMT
<1> HIDE DEF v
<1>2. /\ StartIn(v, n + 1) \in Nat /\ StartIn(v, Len(v) + 1) \in Nat
      /\ StartIn(v, Len(v) + 1) = StartIn(v, n + 1) + LengthOf[f]
  BY Zenon, <1>1, NextStart
<1>3. StartIn(v, n + 1) = StartIn(w, n + 1)
  <2>1. [j \in 1..n |-> LengthOf[v[j]]] = [j \in 1..n |-> LengthOf[w[j]]]
    BY SMT, <1>1
  <2> QED
    <3>1. /\ StartIn(v, n + 1) = Total([j \in 1..n |-> LengthOf[v[j]]])
          /\ StartIn(w, n + 1) = Total([j \in 1..n |-> LengthOf[w[j]]])
      BY Zenon, <1>1, StartIsTotal
    <3> QED
      BY Zenon, <2>1, <3>1
<1>4. LengthOf[f] \in Nat
  BY Zenon, HeaderSize
<1>5. StartIn(w, n + 1) <= StartIn(v, Len(v) + 1)
  BY SMT, <1>2, <1>3, <1>4
<1> QED
  BY Zenon, <1>2, <1>3, <1>5 DEF v

-----------------------------------------------------------------------------
(* What is on the wire.                                                    *)

\* A read brings something only when there is something on the way.
LEMMA SomethingOnTheWay ==
    ASSUME NEW n \in Arrivals
    PROVE  wire # <<>> /\ n \in Int
<1>1. wire # <<>>
  <2> SUFFICES ASSUME wire = <<>> PROVE FALSE
    BY Zenon
  <2>1. 1..Len(wire) = {}
    BY SMT
  <2>2. CutPoints = {}
    BY Zenon, <2>1 DEF CutPoints
  <2> QED
    BY Zenon, <2>2 DEF Arrivals
<1>2. n \in Int
  <2>1. n \in (buffered + 1)..Start(Len(wire) + 1)
    BY Zenon DEF Arrivals
  <2> QED
    BY SMT, <2>1
<1> QED
  BY Zenon, <1>1, <1>2

\* The frames that can be on the way in one version of the protocol.
FramesOf(version) == FirstFrames[version] \cup LaterFrames[version] \cup {PingResp}

LEMMA FramesOfAreFrames ==
    ASSUME NEW version \in Protocols
    PROVE  FramesOf(version) \subseteq Frames
  BY SMT DEF FramesOf, Frames

WireInv ==
    /\ protocol \in Protocols
    /\ wire \in Seq(FramesOf(protocol))
    /\ phase = "connecting" /\ wire # <<>> => wire[1] \in FirstFrames[protocol]

LEMMA InitWire == Init => WireInv
<1>1. <<>> \in Seq(FramesOf(protocol))
  BY SMT
<1> QED
  BY Zenon, <1>1 DEF Init, WireInv

LEMMA NextWire == WireInv /\ [Next]_vars => WireInv'
<1> SUFFICES ASSUME WireInv, [Next]_vars PROVE WireInv'
  BY Zenon
<1> DEFINE S == FramesOf(protocol)
<1>0. /\ protocol \in Protocols /\ wire \in Seq(S)
      /\ phase = "connecting" /\ wire # <<>> => wire[1] \in FirstFrames[protocol]
  BY Zenon DEF WireInv
<1>1. /\ FirstFrames[protocol] \subseteq S
      /\ LaterFrames[protocol] \subseteq S
      /\ PingResp \in S
  BY SMT DEF FramesOf
<1> HIDE DEF S
<1>2. ASSUME NEW f \in S
      PROVE  /\ Append(wire, f) \in Seq(S)
             /\ wire # <<>> => Append(wire, f)[1] = wire[1]
  BY SMT, <1>0
<1>3. CASE BrokerAnswers
  <2>1. PICK f \in FirstFrames[protocol] : wire' = <<f>>
    BY Zenon, <1>3 DEF BrokerAnswers
  <2>2. <<f>> \in Seq(S) /\ <<f>>[1] = f
    BY SMT, <1>1
  <2>3. UNCHANGED protocol
    BY Zenon, <1>3 DEF BrokerAnswers
  <2> QED
    BY Zenon, <1>0, <2>1, <2>2, <2>3 DEF WireInv, S
<1>4. CASE BrokerSends
  <2>1. PICK f \in LaterFrames[protocol] : wire' = Append(wire, f)
    BY Zenon, <1>4 DEF BrokerSends
  <2>2. UNCHANGED <<protocol, phase>>
    BY Zenon, <1>4 DEF BrokerSends
  <2>3. phase = "connecting" => wire # <<>>
    BY SMT, <1>4 DEF BrokerSends
  <2> QED
    BY SMT, <1>0, <1>1, <1>2, <2>1, <2>2, <2>3 DEF WireInv, S
<1>5. CASE BrokerPings
  <2>1. /\ wire' = Append(wire, PingResp) /\ phase = "connected"
        /\ UNCHANGED <<protocol, phase>>
    BY Zenon, <1>5 DEF BrokerPings
  <2> QED
    BY SMT, <1>0, <1>1, <1>2, <2>1 DEF WireInv, S
<1>6. CASE RunToConnect
  <2>1. UNCHANGED protocol
    BY Zenon, <1>6 DEF RunToConnect
  <2>2. PICK n \in Arrivals : ConnectWaits(n) \/ ConnectSucceeds(n) \/ ConnectFails(n)
    BY Zenon, <1>6 DEF RunToConnect
  <2>3. CASE ConnectWaits(n)
    BY Zenon, <1>0, <2>1, <2>3 DEF ConnectWaits, WireInv, S
  <2>4. CASE ConnectSucceeds(n)
    <3>1. wire' = Tail(wire) /\ phase' = "connected" /\ wire # <<>>
      BY Zenon, <2>4, SomethingOnTheWay DEF ConnectSucceeds
    <3>2. Tail(wire) \in Seq(S)
      BY SMT, <1>0, <3>1
    <3> QED
      BY SMT, <1>0, <2>1, <3>1, <3>2 DEF WireInv, S
  <2>5. CASE ConnectFails(n)
    <3>1. UNCHANGED wire /\ phase' = "failed"
      BY Zenon, <2>5 DEF ConnectFails
    <3> QED
      BY SMT, <1>0, <2>1, <3>1 DEF WireInv, S
  <2> QED
    BY Zenon, <2>2, <2>3, <2>4, <2>5
<1>7. CASE RunConnected
  <2>1. PICK n \in Arrivals, k \in 0..Len(wire) : wire' = SubSeq(wire, k + 1, Len(wire))
    BY Zenon, <1>7 DEF RunConnected
  <2>2. UNCHANGED <<protocol, phase>> /\ phase = "connected"
    BY Zenon, <1>7 DEF RunConnected
  <2>4. SubSeq(wire, k + 1, Len(wire)) \in Seq(S)
    BY SMT, <1>0, <2>1
  <2> QED
    BY SMT, <1>0, <2>1, <2>2, <2>4 DEF WireInv, S
<1>8. CASE Lost
  <2>1. UNCHANGED <<protocol, wire>> /\ phase' = "lost"
    BY Zenon, <1>8 DEF Lost
  <2> QED
    BY SMT, <1>0, <2>1 DEF WireInv, S
<1>9. CASE UNCHANGED vars
  BY Zenon, <1>0, <1>9 DEF vars, WireInv, S
<1> QED
  BY Zenon, <1>3, <1>4, <1>5, <1>6, <1>7, <1>8, <1>9 DEF Next

LEMMA WireIsOfFrames == WireInv => wire \in Seq(Frames)
  BY Zenon, FramesOfAreFrames, SeqMonotonic DEF WireInv

LEMMA WireAlways == Spec => []WireInv
<1> QED
  BY InitWire, NextWire, PTL DEF Spec

-----------------------------------------------------------------------------
(* What is in the buffer.                                                  *)

\* A frame that is taken off the buffer is all there.
LEMMA TakenIsThere ==
    ASSUME WireInv, NEW i \in 1..Len(wire), NEW n \in Int,
           ReadFromNetwork(i, n) \in {"Packet", "Malformed"}
    PROVE  StartIn(wire, i + 1) <= n
<1> DEFINE f == wire[i]
           r == RemainingLen(f)
           header == ParseHeader(f, n - Start(i))
<1>1. wire \in Seq(Frames)
  BY Zenon, WireIsOfFrames
<1>2. f \in Frames
  BY SMT, <1>1
<1>3. /\ StartIn(wire, i) \in Nat
      /\ StartIn(wire, i + 1) = StartIn(wire, i) + LengthOf[f]
  BY Zenon, <1>1, NextStart
<1>4. Start(i) = StartIn(wire, i)
  BY Zenon DEF Start, StartIn
<1>5. /\ LengthOf[f] = 1 + LenLen(r) + r
      /\ LenLen(r) \in 1..4 /\ r \in Nat /\ Len(HeaderOf[f]) = 1 + LenLen(r)
  BY Zenon, <1>2, HeaderSize, FrameLengths
<1>6. header.status = "Ok" /\ ~ (1 + header.len_len + header.len > n - Start(i))
  BY SMT DEF ReadFromNetwork
<1>7. n - Start(i) \in Int
  BY SMT, <1>3, <1>4
<1> HIDE DEF f, r
<1>8. n - Start(i) >= Len(HeaderOf[f])
  <2> SUFFICES ASSUME n - Start(i) < Len(HeaderOf[f]) PROVE FALSE
    BY SMT, <1>5, <1>7
  <2>1. header = Insufficient
    BY Zenon, <1>2, <1>7, CutHeader
  <2>2. Insufficient.status # "Ok"
    BY SMT DEF Insufficient
  <2> QED
    BY Zenon, <1>6, <2>1, <2>2
<1>9. header = Decoded(LenLen(r), r)
  BY Zenon, <1>2, <1>7, <1>8, WholeHeader DEF r
<1>10. header.len_len = LenLen(r) /\ header.len = r
  BY SMT, <1>9 DEF Decoded
<1>11. ~ (1 + LenLen(r) + r > n - Start(i))
  BY Zenon, <1>6, <1>10
<1> QED
  BY SMT, <1>3, <1>4, <1>5, <1>11

BufferInv == buffered \in Nat /\ buffered <= StartIn(wire, Len(wire) + 1)

LEMMA InitBuffer == Init => BufferInv
<1> SUFFICES ASSUME Init PROVE BufferInv
  BY Zenon
<1>1. wire = <<>> /\ buffered = 0
  BY Zenon DEF Init
<1>2. StartIn(wire, 0 + 1) = 0
  <2>1. 0 \in Nat
    BY SMT
  <2>2. StartIn(wire, 0 + 1) = Total([j \in 1..0 |-> LengthOf[wire[j]]])
    BY Zenon, <2>1, StartIsTotal
  <2>3. [j \in 1..0 |-> LengthOf[wire[j]]] = <<>>
    BY SMT
  <2> QED
    BY Zenon, <2>2, <2>3, TotalEmpty
<1>3. Len(wire) = 0
  BY SMT, <1>1
<1>4. 0 \in Nat /\ 0 <= 0
  BY SMT
<1> QED
  BY Zenon, <1>1, <1>2, <1>3, <1>4 DEF BufferInv

\* When the first k frames are taken of n bytes, the others are what is left.
LEMMA BufferAfterSplit ==
    ASSUME WireInv, NEW k \in 0..Len(wire), NEW n \in Nat,
           StartIn(wire, k + 1) <= n, n <= StartIn(wire, Len(wire) + 1),
           buffered' = AfterSplit(n, k), wire' = SubSeq(wire, k + 1, Len(wire))
    PROVE  BufferInv'
<1> DEFINE rest == SubSeq(wire, k + 1, Len(wire))
<1>1. wire \in Seq(Frames)
  BY Zenon, WireIsOfFrames
<1>2. /\ StartIn(wire, k + 1) \in Nat
      /\ StartIn(rest, Len(rest) + 1) \in Nat
      /\ StartIn(wire, Len(wire) + 1) = StartIn(wire, k + 1) + StartIn(rest, Len(rest) + 1)
  BY Zenon, <1>1, StartOfRest
<1>3. buffered' = n - StartIn(wire, k + 1)
  BY Zenon DEF AfterSplit, Start, StartIn
<1>4. wire' = rest
  BY Zenon
<1> HIDE DEF rest
<1>5. buffered' \in Nat /\ buffered' <= StartIn(rest, Len(rest) + 1)
  BY SMT, <1>2, <1>3
<1> QED
  BY Zenon, <1>4, <1>5 DEF BufferInv

LEMMA NextBuffer == WireInv /\ BufferInv /\ [Next]_vars => BufferInv'
<1> SUFFICES ASSUME WireInv, BufferInv, [Next]_vars PROVE BufferInv'
  BY Zenon
<1>0. wire \in Seq(Frames)
  BY Zenon, WireIsOfFrames
<1>1. buffered \in Nat /\ buffered <= StartIn(wire, Len(wire) + 1)
  BY Zenon DEF BufferInv
<1>2. ASSUME NEW f \in Frames, wire' = Append(wire, f), buffered' = buffered PROVE BufferInv'
  <2>1. /\ StartIn(wire, Len(wire) + 1) \in Nat
        /\ StartIn(wire', Len(wire') + 1) \in Nat
        /\ StartIn(wire, Len(wire) + 1) <= StartIn(wire', Len(wire') + 1)
    BY Zenon, <1>0, <1>2, StartAfterAppend
  <2> QED
    BY SMT, <1>1, <1>2, <2>1 DEF BufferInv
<1>3. ASSUME NEW n \in Arrivals
      PROVE  /\ n \in Nat /\ n <= StartIn(wire, Len(wire) + 1)
             /\ wire # <<>> /\ n \in Int
  <2>1. n \in (buffered + 1)..StartIn(wire, Len(wire) + 1)
    BY Zenon DEF Arrivals, Start, StartIn
  <2>2. n \in Nat /\ n <= StartIn(wire, Len(wire) + 1) /\ n \in Int
    BY SMT, <1>1, <2>1
  <2> QED
    BY Zenon, <2>2, SomethingOnTheWay
<1>4. ASSUME UNCHANGED <<wire, buffered>> PROVE BufferInv'
  BY Zenon, <1>1, <1>4 DEF BufferInv
<1>5. CASE BrokerAnswers
  <2>1. PICK f \in FirstFrames[protocol] : wire' = <<f>>
    BY Zenon, <1>5 DEF BrokerAnswers
  <2>2. wire = <<>> /\ buffered' = buffered
    BY Zenon, <1>5 DEF BrokerAnswers
  <2>3. f \in Frames
    BY SMT, FramesOfAreFrames DEF WireInv, FramesOf
  <2>4. wire' = Append(wire, f)
    BY SMT, <2>1, <2>2
  <2> QED
    BY Zenon, <1>2, <2>2, <2>3, <2>4
<1>6. CASE BrokerSends
  <2>1. PICK f \in LaterFrames[protocol] : wire' = Append(wire, f)
    BY Zenon, <1>6 DEF BrokerSends
  <2>2. buffered' = buffered
    BY Zenon, <1>6 DEF BrokerSends
  <2>3. f \in Frames
    BY SMT, FramesOfAreFrames DEF WireInv, FramesOf
  <2> QED
    BY Zenon, <1>2, <2>1, <2>2, <2>3
<1>7. CASE BrokerPings
  <2>1. PingResp \in Frames
    BY Zenon DEF Frames
  <2>2. wire' = Append(wire, PingResp) /\ buffered' = buffered
    BY Zenon, <1>7 DEF BrokerPings
  <2> QED
    BY Zenon, <1>2, <2>1, <2>2
<1>8. CASE RunToConnect
  <2>1. PICK n \in Arrivals : ConnectWaits(n) \/ ConnectSucceeds(n) \/ ConnectFails(n)
    BY Zenon, <1>8 DEF RunToConnect
  <2>2. CASE ConnectWaits(n)
    BY Zenon, <1>3, <2>2 DEF ConnectWaits, BufferInv
  <2>3. CASE ConnectSucceeds(n)
    <3>1. wire # <<>> /\ n \in Nat /\ n \in Int /\ n <= StartIn(wire, Len(wire) + 1)
      BY Zenon, <1>3
    <3>2. 1 \in 1..Len(wire) /\ 1 \in 0..Len(wire) /\ Tail(wire) = SubSeq(wire, 1 + 1, Len(wire))
      BY SMT, <1>0, <3>1
    <3>3. /\ ReadFromNetwork(1, n) \in {"Packet", "Malformed"}
          /\ wire' = Tail(wire) /\ buffered' = AfterSplit(n, 1)
      BY Zenon, <2>3 DEF ConnectSucceeds
    <3>4. StartIn(wire, 1 + 1) <= n
      BY Zenon, <3>1, <3>2, <3>3, TakenIsThere
    <3> QED
      BY Zenon, <3>1, <3>2, <3>3, <3>4, BufferAfterSplit
  <2>4. CASE ConnectFails(n)
    BY Zenon, <1>3, <2>4 DEF ConnectFails, BufferInv
  <2> QED
    BY Zenon, <2>1, <2>2, <2>3, <2>4
<1>9. CASE RunConnected
  <2>1. PICK n \in Arrivals, k \in 0..Len(wire) :
            /\ Taken(n, k)
            /\ wire' = SubSeq(wire, k + 1, Len(wire))
            /\ buffered' = AfterSplit(n, k)
    BY Zenon, <1>9 DEF RunConnected
  <2>2. n \in Nat /\ n \in Int /\ n <= StartIn(wire, Len(wire) + 1) /\ wire # <<>>
    BY Zenon, <1>3
  <2>3. StartIn(wire, k + 1) <= n
    <3>1. CASE k = 0
      <4>1. 1 \in 1..Len(wire)
        BY SMT, <1>0, <2>2
      <4>2. StartIn(wire, 1) = 0
        BY Zenon, <1>0, <4>1, NextStart
      <4>3. k + 1 = 1
        BY SMT, <3>1
      <4> QED
        BY SMT, <2>2, <4>2, <4>3
    <3>2. CASE k # 0
      <4>1. k > 0 /\ k \in 1..Len(wire)
        BY SMT, <1>0, <3>2
      <4>2. ReadFromNetwork(k, n) \in {"Packet", "Malformed"}
        BY SMT, <2>1, <4>1 DEF Taken
      <4> QED
        BY Zenon, <2>2, <4>1, <4>2, TakenIsThere
    <3> QED
      BY Zenon, <3>1, <3>2
  <2> QED
    BY Zenon, <2>1, <2>2, <2>3, BufferAfterSplit
<1>10. CASE Lost
  BY Zenon, <1>4, <1>10 DEF Lost
<1>11. CASE UNCHANGED vars
  BY Zenon, <1>4, <1>11 DEF vars
<1> QED
  BY Zenon, <1>5, <1>6, <1>7, <1>8, <1>9, <1>10, <1>11 DEF Next

LEMMA BufferAlways == Spec => []BufferInv
<1> QED
  BY InitBuffer, NextBuffer, WireAlways, PTL DEF Spec

-----------------------------------------------------------------------------
(* The packets of a number of frames.                                      *)

\* The packets p, and that of one more frame.
With(p, f, version) == IF IsDispatched(f, version) THEN Append(p, ReadPacket(f)) ELSE p

\* g has the packets of the first i of the frames, up to the n-th.
IsPackets(g, frames, version, n) ==
    g = [i \in 0..n |-> IF i = 0 THEN <<>> ELSE With(g[i - 1], frames[i], version)]

LEMMA PacketsExist ==
    ASSUME NEW frames, NEW version
    PROVE  \A n \in Nat : \E g : IsPackets(g, frames, version, n)
<1> DEFINE T == {n \in Nat : \E g : IsPackets(g, frames, version, n)}
<1>1. 0 \in T
  <2>1. IsPackets([i \in 0..0 |-> <<>>], frames, version, 0)
    BY SMT DEF IsPackets
  <2> QED
    BY Zenon, <2>1
<1>2. ASSUME NEW n \in Nat, n \in T PROVE n + 1 \in T
  <2>1. PICK g : IsPackets(g, frames, version, n)
    BY Zenon, <1>2
  <2> DEFINE h == [i \in 0..n + 1 |->
                    IF i = n + 1 THEN With(g[n], frames[n + 1], version) ELSE g[i]]
  <2>2. IsPackets(h, frames, version, n + 1)
    <3>1. ASSUME NEW i \in 0..n + 1
          PROVE  h[i] = IF i = 0 THEN <<>> ELSE With(h[i - 1], frames[i], version)
      <4>1. CASE i = 0
        BY SMT, <2>1, <4>1 DEF IsPackets
      <4>2. CASE i \in 1..n
        BY SMT, <2>1, <4>2 DEF IsPackets
      <4>3. CASE i = n + 1
        BY SMT, <4>3
      <4> QED
        BY SMT, <4>1, <4>2, <4>3
    <3> QED
      BY SMT, <3>1 DEF IsPackets
  <2>3. n + 1 \in Nat
    BY SMT
  <2> HIDE DEF h
  <2> QED
    BY Zenon, <2>2, <2>3
<1> HIDE DEF T
<1>3. \A n \in Nat : n \in T
  BY Zenon, <1>1, <1>2, SetInduction
<1> QED
  BY Zenon, <1>3 DEF T

LEMMA PacketsAgree ==
    ASSUME NEW s, NEW t, NEW version, NEW n \in Nat, Agree(s, t, n),
           NEW f, IsPackets(f, s, version, n), NEW g, IsPackets(g, t, version, n + 1)
    PROVE  f[n] = g[n]
<1> DEFINE T == {i \in Nat : i <= n => f[i] = g[i]}
<1>0. n + 1 \in Nat
  BY SMT
<1>1. 0 \in T
  <2>1. f[0] = g[0]
    BY SMT DEF IsPackets
  <2> QED
    BY SMT, <2>1
<1>2. ASSUME NEW i \in Nat, i \in T PROVE i + 1 \in T
  <2> SUFFICES ASSUME i + 1 <= n PROVE f[i + 1] = g[i + 1]
    BY SMT
  <2>1. f[i] = g[i] /\ s[i + 1] = t[i + 1] /\ i + 1 <= n + 1
    BY SMT, <1>2 DEF Agree
  <2>2. f[i + 1] = With(f[i], s[i + 1], version)
    BY SMT DEF IsPackets
  <2>3. g[i + 1] = With(g[i], t[i + 1], version)
    BY SMT DEF IsPackets
  <2> QED
    BY Zenon, <2>1, <2>2, <2>3
<1> HIDE DEF T
<1>3. n \in T
  BY Zenon, <1>1, <1>2, SetInduction
<1> QED
  BY SMT, <1>3 DEF T

LEMMA PacketsAreLast ==
    ASSUME NEW frames, NEW version, Len(frames) \in Nat
    PROVE  \E g : /\ IsPackets(g, frames, version, Len(frames))
                  /\ PacketsOf(frames, version) = g[Len(frames)]
<1> DEFINE g == CHOOSE g : IsPackets(g, frames, version, Len(frames))
<1>1. IsPackets(g, frames, version, Len(frames))
  BY Zenon, PacketsExist
<1>2. PacketsOf(frames, version) = g[Len(frames)]
  BY Zenon DEF PacketsOf, IsPackets, With
<1> QED
  BY Zenon, <1>1, <1>2

LEMMA NoPackets ==
    ASSUME NEW version
    PROVE  PacketsOf(<<>>, version) = <<>>
<1>1. Len(<<>>) = 0 /\ 0 \in Nat
  BY SMT
<1>2. PICK g : IsPackets(g, <<>>, version, 0) /\ PacketsOf(<<>>, version) = g[0]
  BY SMT, <1>1, PacketsAreLast
<1> QED
  BY SMT, <1>2 DEF IsPackets

LEMMA PacketsAppend ==
    ASSUME NEW S, NEW w \in Seq(S), NEW f \in S, NEW version
    PROVE  PacketsOf(Append(w, f), version) = With(PacketsOf(w, version), f, version)
<1>1. PICK n, t : n \in Nat /\ n = Len(w) /\ t = Append(w, f)
  BY Zenon, LenProperties
<1>2. Len(t) = n + 1 /\ t[n + 1] = f /\ Agree(w, t, n) /\ n + 1 \in Nat /\ n + 1 <= n + 1
  BY SMT, <1>1 DEF Agree
<1>3. PICK g : IsPackets(g, w, version, n) /\ PacketsOf(w, version) = g[n]
  BY Zenon, <1>1, PacketsAreLast
<1>4. PICK h : IsPackets(h, t, version, n + 1) /\ PacketsOf(t, version) = h[n + 1]
  <2>1. Len(t) \in Nat
    BY SMT, <1>2
  <2> QED
    BY Zenon, <1>2, <2>1, PacketsAreLast
<1>5. g[n] = h[n]
  BY SMT, <1>1, <1>2, <1>3, <1>4, PacketsAgree
<1>6. h[n + 1] = With(h[n], t[n + 1], version)
  BY SMT, <1>1, <1>4 DEF IsPackets
<1> QED
  BY Zenon, <1>1, <1>2, <1>3, <1>4, <1>5, <1>6

\* What is read of the frames there can be.
ReadPackets == {ReadPacket(f) : f \in Frames}

LEMMA PacketsType ==
    ASSUME NEW w \in Seq(Frames), NEW version
    PROVE  PacketsOf(w, version) \in Seq(ReadPackets)
<1> DEFINE T == {s \in Seq(Frames) : PacketsOf(s, version) \in Seq(ReadPackets)}
<1>1. <<>> \in T
  <2>1. <<>> \in Seq(Frames) /\ <<>> \in Seq(ReadPackets)
    BY SMT
  <2> QED
    BY Zenon, <2>1, NoPackets
<1>2. ASSUME NEW s \in Seq(Frames), NEW f \in Frames, s \in T PROVE Append(s, f) \in T
  <2>1. Append(s, f) \in Seq(Frames)
    BY SMT
  <2>2. PacketsOf(Append(s, f), version) = With(PacketsOf(s, version), f, version)
    BY Zenon, PacketsAppend
  <2>3. ReadPacket(f) \in ReadPackets
    BY Zenon DEF ReadPackets
  <2>4. \A p \in Seq(ReadPackets) : Append(p, ReadPacket(f)) \in Seq(ReadPackets)
    BY SMT, <2>3
  <2>5. With(PacketsOf(s, version), f, version) \in Seq(ReadPackets)
    BY Zenon, <1>2, <2>4 DEF With
  <2> QED
    BY Zenon, <2>1, <2>2, <2>5
<1> HIDE DEF T
<1>3. w \in T
  BY Zenon, <1>1, <1>2, SeqInduction
<1> QED
  BY Zenon, <1>3 DEF T

\* One more frame adds to what is already there only at its end.
AddsAtEnd(p, q, f, version) == With(p \o q, f, version) = p \o With(q, f, version)

LEMMA WithBehind ==
    ASSUME NEW p \in Seq(ReadPackets), NEW q \in Seq(ReadPackets), NEW f \in Frames,
           NEW version
    PROVE  AddsAtEnd(p, q, f, version)
<1>1. PICK e \in ReadPackets : e = ReadPacket(f)
  BY Zenon DEF ReadPackets
<1>2. Append(p \o q, e) = p \o Append(q, e)
  BY SMT
<1> QED
  BY Zenon, <1>1, <1>2 DEF With, AddsAtEnd

LEMMA PacketsConcat ==
    ASSUME NEW v \in Seq(Frames), NEW w \in Seq(Frames), NEW version
    PROVE  PacketsOf(v \o w, version) = PacketsOf(v, version) \o PacketsOf(w, version)
<1> DEFINE P(s) == PacketsOf(s, version)
           T == {s \in Seq(Frames) : P(v \o s) = P(v) \o P(s)}
<1>0. P(v) \in Seq(ReadPackets)
  BY Zenon, PacketsType
<1>1. <<>> \in T
  <2>1. v \o <<>> = v /\ <<>> \in Seq(Frames) /\ P(v) \o <<>> = P(v)
    BY SMT, <1>0
  <2>2. P(<<>>) = <<>>
    BY Zenon, NoPackets
  <2> QED
    BY Zenon, <2>1, <2>2
<1>2. ASSUME NEW s \in Seq(Frames), NEW f \in Frames, s \in T PROVE Append(s, f) \in T
  <2>1. /\ v \o Append(s, f) = Append(v \o s, f)
        /\ v \o s \in Seq(Frames) /\ Append(s, f) \in Seq(Frames)
    BY SMT
  <2>2. P(Append(v \o s, f)) = With(P(v \o s), f, version)
    BY Zenon, <2>1, PacketsAppend
  <2>3. P(Append(s, f)) = With(P(s), f, version)
    BY Zenon, PacketsAppend
  <2>4. P(s) \in Seq(ReadPackets)
    BY Zenon, PacketsType
  <2>5. P(v \o s) = P(v) \o P(s)
    BY Zenon, <1>2
  <2>7. With(P(v) \o P(s), f, version) = P(v) \o With(P(s), f, version)
    <3>1. AddsAtEnd(P(v), P(s), f, version)
      BY Zenon, <1>0, <2>4, WithBehind
    <3> QED
      BY Zenon, <3>1 DEF AddsAtEnd
  <2>8. P(v \o Append(s, f)) = P(v) \o P(Append(s, f))
    BY Zenon, <2>1, <2>2, <2>3, <2>5, <2>7
  <2> QED
    BY Zenon, <2>1, <2>8
<1> HIDE DEF T
<1>3. w \in T
  BY Zenon, <1>1, <1>2, SeqInduction
<1> QED
  BY Zenon, <1>3 DEF T

\* The frames that one read takes off the buffer, and those that it leaves.
LEMMA PacketsSplit ==
    ASSUME NEW w \in Seq(Frames), NEW k \in 0..Len(w), NEW version
    PROVE  PacketsOf(w, version)
             = PacketsOf(SubSeq(w, 1, k), version)
                 \o PacketsOf(SubSeq(w, k + 1, Len(w)), version)
<1>1. PICK u \in Seq(Frames), v \in Seq(Frames) :
            u = SubSeq(w, 1, k) /\ v = SubSeq(w, k + 1, Len(w)) /\ u \o v = w
  <2>1. SubSeq(w, 1, k) \in Seq(Frames) /\ SubSeq(w, k + 1, Len(w)) \in Seq(Frames)
    BY Zenon, SplitSequence
  <2>2. SubSeq(w, 1, k) \o SubSeq(w, k + 1, Len(w)) = w
    BY Zenon, SplitSequence
  <2> QED
    BY Zenon, <2>1, <2>2
<1>2. PacketsOf(u \o v, version) = PacketsOf(u, version) \o PacketsOf(v, version)
  BY SMT, PacketsConcat
<1> QED
  BY Zenon, <1>1, <1>2

-----------------------------------------------------------------------------
(* Every packet of the broker is dispatched or is still on the way.        *)
StreamInv ==
    /\ phase = "connecting" =>
        /\ dispatched = <<>>
        /\ wire = <<>> => sent = <<>>
        /\ wire # <<>> => sent = PacketsOf(Tail(wire), protocol)
    /\ phase = "connected" => sent = dispatched \o PacketsOf(wire, protocol)
    /\ dispatched \in Seq(ReadPackets)

\* What is read of a frame that the broker sends after CONNACK is what it means.
LEMMA ReadAsMeant ==
    ASSUME NEW version \in Protocols, NEW f \in LaterFrames[version]
    PROVE  ReadPacket(f) = Meaning(f)
<1>1. f.props \in Seq([ty : STRING, n : Nat]) /\ f.payload \in Seq([ty : STRING, n : Nat])
  BY SMT, FramesAssumption
<1>2. /\ \A i \in 1..Len(f.props) : f.props[i].n >= 1
      /\ OneIdentifier(f.props)
  BY Zenon, LaterAssumption DEF OneIdentifier
<1>3. f.props \in Properties
  BY SMT, <1>1, <1>2 DEF Properties
<1> QED
  BY Zenon, <1>1, <1>2, <1>3, PacketIsMeant

LEMMA WithLater ==
    ASSUME NEW version \in Protocols, NEW f \in LaterFrames[version], NEW p
    PROVE  With(p, f, version)
             = IF f \in ReadableIn[version] THEN Append(p, Meaning(f)) ELSE p
<1>1. f.ty \notin {"ConnAck", "PingResp"}
  BY Zenon, LaterAssumption
<1> QED
  BY Zenon, <1>1, ReadAsMeant DEF With, IsDispatched

LEMMA WithPing ==
    ASSUME NEW version, NEW p
    PROVE  With(p, PingResp, version) = p
<1>1. PingResp.ty = "PingResp"
  BY SMT DEF PingResp
<1> QED
  BY SMT, <1>1 DEF With, IsDispatched

LEMMA InitStream == Init => StreamInv
<1>1. <<>> \in Seq(ReadPackets)
  BY SMT
<1>2. "connecting" # "connected"
  BY SMT
<1> QED
  BY Zenon, <1>1, <1>2 DEF Init, StreamInv

\* A step that puts frame f behind the others, and with it what the broker means.
LEMMA MoreOnTheWay ==
    ASSUME WireInv, StreamInv, NEW f \in Frames,
           wire' = Append(wire, f),
           protocol' = protocol, phase' = phase, dispatched' = dispatched,
           phase = "connected" \/ (phase = "connecting" /\ wire # <<>>),
           sent' = With(sent, f, protocol)
    PROVE  StreamInv'
<1>1. wire \in Seq(Frames)
  BY Zenon, WireIsOfFrames
<1>2. Append(wire, f) # <<>>
  BY SMT, <1>1
<1>3. "connecting" # "connected"
  BY SMT
<1>4. CASE phase = "connected"
  <2>1. PacketsOf(Append(wire, f), protocol) = With(PacketsOf(wire, protocol), f, protocol)
    BY Zenon, <1>1, PacketsAppend
  <2>2. PacketsOf(wire, protocol) \in Seq(ReadPackets)
    BY Zenon, <1>1, PacketsType
  <2>3. With(dispatched \o PacketsOf(wire, protocol), f, protocol)
          = dispatched \o With(PacketsOf(wire, protocol), f, protocol)
    <3>1. dispatched \in Seq(ReadPackets)
      BY Zenon DEF StreamInv
    <3>2. AddsAtEnd(dispatched, PacketsOf(wire, protocol), f, protocol)
      BY Zenon, <2>2, <3>1, WithBehind
    <3> QED
      BY Zenon, <3>2 DEF AddsAtEnd
  <2> QED
    BY Zenon, <1>3, <1>4, <2>1, <2>3 DEF StreamInv
<1>5. CASE phase = "connecting" /\ wire # <<>>
  <2>1. Tail(wire) \in Seq(Frames) /\ Tail(Append(wire, f)) = Append(Tail(wire), f)
    BY SMT, <1>1, <1>5
  <2>2. PacketsOf(Append(Tail(wire), f), protocol)
          = With(PacketsOf(Tail(wire), protocol), f, protocol)
    BY Zenon, <2>1, PacketsAppend
  <2> QED
    BY Zenon, <1>2, <1>3, <1>5, <2>1, <2>2 DEF StreamInv
<1> QED
  BY Zenon, <1>4, <1>5

\* Sequence a, to which b is added, is a part of all that there is.
IsLonger(S, a, b, c) ==
    /\ a \o b \in Seq(S)
    /\ a \o (b \o c) = (a \o b) \o c
    /\ b = <<>> => a \o b = a
    /\ b # <<>> => Len(a \o b) \in (Len(a) + 1)..Len(a \o (b \o c))
    /\ a \o b = SubSeq(a \o (b \o c), 1, Len(a \o b))

LEMMA LongerPrefix ==
    ASSUME NEW S, NEW a \in Seq(S), NEW b \in Seq(S), NEW c \in Seq(S)
    PROVE  IsLonger(S, a, b, c)
<1>1. /\ a \o (b \o c) = (a \o b) \o c /\ a \o b \in Seq(S)
      /\ a \o (b \o c) \in Seq(S)
      /\ b = <<>> => a \o b = a
  BY SMT
<1>2. /\ Len(a \o b) = Len(a) + Len(b)
      /\ Len(a \o (b \o c)) = Len(a) + Len(b) + Len(c)
      /\ Len(a) \in Nat /\ Len(b) \in Nat /\ Len(c) \in Nat
      /\ b # <<>> => Len(b) >= 1
  BY SMT
<1>3. a \o b = SubSeq(a \o (b \o c), 1, Len(a \o b))
  BY SMT, <1>1, <1>2
<1>4. b # <<>> => Len(a \o b) \in (Len(a) + 1)..Len(a \o (b \o c))
  BY SMT, <1>2
<1> QED
  BY Zenon, <1>1, <1>3, <1>4 DEF IsLonger

\* One read: the packets of the frames that it completes go to the tasks.
LEMMA ReadDispatches ==
    ASSUME WireInv, StreamInv, RunConnected
    PROVE  /\ StreamInv'
           /\ UNCHANGED <<sent, Open>>
           /\ \/ dispatched' = dispatched
              \/ Open /\ \E n \in (Len(dispatched) + 1)..Len(sent) :
                            dispatched' = SubSeq(sent, 1, n)
<1>1. PICK k \in 0..Len(wire) :
            /\ wire' = SubSeq(wire, k + 1, Len(wire))
            /\ dispatched' = dispatched \o PacketsOf(SubSeq(wire, 1, k), protocol)
  BY Zenon DEF RunConnected
<1>2. phase = "connected" /\ UNCHANGED <<protocol, phase, sent>>
  BY Zenon DEF RunConnected
<1> DEFINE front == SubSeq(wire, 1, k)
           rest == SubSeq(wire, k + 1, Len(wire))
           a == dispatched
           b == PacketsOf(front, protocol)
           c == PacketsOf(rest, protocol)
<1>3. front \in Seq(Frames) /\ rest \in Seq(Frames) /\ front \o rest = wire
  BY Zenon, WireIsOfFrames, SplitSequence
<1>4. a \in Seq(ReadPackets) /\ b \in Seq(ReadPackets) /\ c \in Seq(ReadPackets)
  BY Zenon, <1>3, PacketsType DEF StreamInv
<1>5. sent = a \o PacketsOf(wire, protocol)
  BY Zenon, <1>2 DEF StreamInv
<1>6. PacketsOf(wire, protocol) = b \o c
  BY Zenon, WireIsOfFrames, PacketsSplit
<1>7. dispatched' = a \o b /\ wire' = rest
  BY Zenon, <1>1
<1>8. PacketsOf(wire', protocol') = c
  BY Zenon, <1>2, <1>7
<1> HIDE DEF front, rest, a, b, c
<1>9. /\ a \o (b \o c) = (a \o b) \o c
      /\ a \o b \in Seq(ReadPackets)
      /\ b = <<>> => a \o b = a
      /\ b # <<>> => Len(a \o b) \in (Len(a) + 1)..Len(a \o (b \o c))
      /\ a \o b = SubSeq(a \o (b \o c), 1, Len(a \o b))
  <2>1. IsLonger(ReadPackets, a, b, c)
    BY Zenon, <1>4, LongerPrefix
  <2> QED
    BY Zenon, <2>1 DEF IsLonger
<1>10. sent = a \o (b \o c)
  BY Zenon, <1>5, <1>6
<1>11. StreamInv'
  <2>1. sent' = dispatched' \o PacketsOf(wire', protocol')
    BY Zenon, <1>2, <1>7, <1>8, <1>9, <1>10
  <2>2. phase' # "connecting"
    BY SMT, <1>2
  <2>3. dispatched' \in Seq(ReadPackets)
    BY Zenon, <1>7, <1>9
  <2> QED
    BY Zenon, <2>1, <2>2, <2>3 DEF StreamInv
<1>12. Open /\ UNCHANGED <<sent, Open>>
  BY SMT, <1>2 DEF Open
<1>13. CASE b = <<>>
  <2>1. dispatched' = dispatched
    BY Zenon, <1>7, <1>9, <1>13 DEF a
  <2> QED
    BY Zenon, <1>11, <1>12, <2>1
<1>14. CASE b # <<>>
  <2>1. Len(a \o b) \in (Len(dispatched) + 1)..Len(sent)
    BY Zenon, <1>9, <1>10, <1>14 DEF a
  <2>2. dispatched' = SubSeq(sent, 1, Len(a \o b))
    BY Zenon, <1>7, <1>9, <1>10
  <2> QED
    BY Zenon, <1>11, <1>12, <2>1, <2>2
<1> QED
  BY Zenon, <1>13, <1>14

LEMMA NextStream ==
    ASSUME WireInv, StreamInv, [Next]_vars
    PROVE  StreamInv' /\ [Stream!Next]_<<sent, dispatched, Open>>
<1>1. ASSUME UNCHANGED <<sent, dispatched, phase>>
      PROVE  [Stream!Next]_<<sent, dispatched, Open>>
  BY SMT, <1>1 DEF Open
<1>2. ASSUME UNCHANGED <<sent, dispatched>>, phase' \in {"failed", "lost"}
      PROVE  StreamInv' /\ [Stream!Next]_<<sent, dispatched, Open>>
  <2>1. ~ Open' /\ phase' # "connecting" /\ phase' # "connected"
    BY SMT, <1>2 DEF Open
  <2>2. StreamInv'
    BY Zenon, <1>2, <2>1 DEF StreamInv
  <2>3. Stream!Close
    BY SMT, <1>2, <2>1 DEF Stream!Close
  <2> QED
    BY Zenon, <2>2, <2>3 DEF Stream!Next
<1>3. CASE BrokerAnswers
  <2>1. /\ UNCHANGED <<protocol, phase, sent, dispatched>>
        /\ phase = "connecting" /\ wire = <<>>
    BY Zenon, <1>3 DEF BrokerAnswers
  <2>2. PICK f \in FirstFrames[protocol] : wire' = <<f>>
    BY Zenon, <1>3 DEF BrokerAnswers
  <2>3. wire' # <<>> /\ Tail(wire') = <<>> /\ phase' # "connected"
    BY SMT, <2>1, <2>2
  <2>4. sent' = PacketsOf(Tail(wire'), protocol')
    BY Zenon, <2>1, <2>3, NoPackets DEF StreamInv
  <2> QED
    BY Zenon, <1>1, <2>1, <2>3, <2>4 DEF StreamInv
<1>4. CASE BrokerSends
  <2>1. PICK f \in LaterFrames[protocol] :
            /\ wire' = Append(wire, f)
            /\ sent' = IF f \in ReadableIn[protocol] THEN Append(sent, Meaning(f)) ELSE sent
    BY Zenon, <1>4 DEF BrokerSends
  <2>2. protocol' = protocol /\ phase' = phase /\ dispatched' = dispatched
    BY Zenon, <1>4 DEF BrokerSends
  <2>3. protocol \in Protocols
    BY Zenon DEF WireInv
  <2>4. f \in Frames /\ Meaning(f) \in Messages
    <3>1. f \in FramesOf(protocol)
      BY SMT DEF FramesOf
    <3>2. Meaning(f) \in Messages
      BY SMT, <2>3 DEF Messages
    <3> QED
      BY Zenon, <2>3, <3>1, <3>2, FramesOfAreFrames
  <2>5. sent' = With(sent, f, protocol)
    BY Zenon, <2>1, <2>3, WithLater
  <2>6. phase = "connected" \/ (phase = "connecting" /\ wire # <<>>)
    BY SMT, <1>4 DEF BrokerSends
  <2>7. StreamInv'
    BY Zenon, <2>1, <2>2, <2>4, <2>5, <2>6, MoreOnTheWay
  <2>8. Open /\ UNCHANGED <<dispatched, Open>>
    BY SMT, <2>2, <2>6 DEF Open
  <2>9. CASE f \in ReadableIn[protocol]
    <3>1. Stream!Send(Meaning(f))
      BY Zenon, <2>1, <2>8, <2>9 DEF Stream!Send
    <3> QED
      BY Zenon, <2>4, <2>7, <3>1 DEF Stream!Next
  <2>10. CASE f \notin ReadableIn[protocol]
    BY Zenon, <1>1, <2>1, <2>2, <2>7, <2>10
  <2> QED
    BY Zenon, <2>9, <2>10
<1>5. CASE BrokerPings
  <2>1. /\ phase = "connected" /\ wire' = Append(wire, PingResp)
        /\ UNCHANGED <<protocol, phase, sent, dispatched>>
    BY Zenon, <1>5 DEF BrokerPings
  <2>2. PingResp \in Frames
    BY SMT DEF Frames
  <2>3. sent' = With(sent, PingResp, protocol)
    <3>1. With(sent, PingResp, protocol) = sent
      BY Zenon, WithPing
    <3> QED
      BY Zenon, <2>1, <3>1
  <2>4. protocol' = protocol /\ phase' = phase /\ dispatched' = dispatched
    BY Zenon, <2>1
  <2>5. StreamInv'
    BY Zenon, <2>1, <2>2, <2>3, <2>4, MoreOnTheWay
  <2> QED
    BY Zenon, <1>1, <2>1, <2>5
<1>6. CASE RunToConnect
  <2>1. PICK n \in Arrivals : ConnectWaits(n) \/ ConnectSucceeds(n) \/ ConnectFails(n)
    BY Zenon, <1>6 DEF RunToConnect
  <2>2. phase = "connecting" /\ UNCHANGED <<protocol, sent, dispatched>>
    BY Zenon, <1>6 DEF RunToConnect
  <2>3. CASE ConnectWaits(n)
    <3>1. UNCHANGED <<phase, wire>>
      BY Zenon, <2>3 DEF ConnectWaits
    <3> QED
      BY Zenon, <1>1, <2>2, <3>1 DEF StreamInv
  <2>4. CASE ConnectSucceeds(n)
    <3>1. phase' = "connected" /\ wire' = Tail(wire)
      BY Zenon, <2>4 DEF ConnectSucceeds
    <3>2. wire # <<>> /\ wire \in Seq(Frames)
      BY Zenon, SomethingOnTheWay, WireIsOfFrames
    <3>3. PacketsOf(Tail(wire), protocol) \in Seq(ReadPackets)
      <4>1. Tail(wire) \in Seq(Frames)
        BY SMT, <3>2
      <4> QED
        BY Zenon, <4>1, PacketsType
    <3>4. <<>> \o PacketsOf(Tail(wire), protocol) = PacketsOf(Tail(wire), protocol)
      BY SMT, <3>3
    <3>5. dispatched = <<>> /\ sent = PacketsOf(Tail(wire), protocol)
      BY Zenon, <2>2, <3>2 DEF StreamInv
    <3>6. sent' = dispatched' \o PacketsOf(wire', protocol')
      BY Zenon, <2>2, <3>1, <3>4, <3>5
    <3>7. phase' # "connecting" /\ UNCHANGED Open
      BY SMT, <2>2, <3>1 DEF Open
    <3> QED
      BY Zenon, <2>2, <3>6, <3>7 DEF StreamInv
  <2>5. CASE ConnectFails(n)
    <3>1. phase' \in {"failed", "lost"}
      BY SMT, <2>5 DEF ConnectFails
    <3> QED
      BY Zenon, <1>2, <2>2, <3>1
  <2> QED
    BY Zenon, <2>1, <2>3, <2>4, <2>5
<1>7. CASE RunConnected
  <2>1. /\ StreamInv'
        /\ UNCHANGED <<sent, Open>>
        /\ \/ dispatched' = dispatched
           \/ Open /\ \E n \in (Len(dispatched) + 1)..Len(sent) :
                        dispatched' = SubSeq(sent, 1, n)
    BY Zenon, <1>7, ReadDispatches
  <2> QED
    BY Zenon, <2>1 DEF Stream!Next, Stream!Dispatch
<1>8. CASE Lost
  <2>1. UNCHANGED <<sent, dispatched>> /\ phase' \in {"failed", "lost"}
    BY SMT, <1>8 DEF Lost
  <2> QED
    BY Zenon, <1>2, <2>1
<1>9. CASE UNCHANGED vars
  BY Zenon, <1>1, <1>9 DEF vars, StreamInv
<1> QED
  BY Zenon, <1>3, <1>4, <1>5, <1>6, <1>7, <1>8, <1>9 DEF Next

-----------------------------------------------------------------------------
(* What the broker may still send.                                         *)
SentInv ==
    /\ sent \in Seq(Messages)
    /\ budget \in Nat
    /\ Len(sent) + budget <= MaxFrames

LEMMA InitSent == Init => SentInv
<1>1. <<>> \in Seq(Messages) /\ Len(<<>>) = 0
  BY SMT
<1> QED
  BY SMT, <1>1, BoundAssumption DEF Init, SentInv

LEMMA NextSent == WireInv /\ SentInv /\ [Next]_vars => SentInv'
<1> SUFFICES ASSUME WireInv, SentInv, [Next]_vars PROVE SentInv'
  BY Zenon
<1>1. CASE BrokerSends
  <2>1. PICK f \in LaterFrames[protocol] :
            sent' = IF f \in ReadableIn[protocol] THEN Append(sent, Meaning(f)) ELSE sent
    BY Zenon, <1>1 DEF BrokerSends
  <2>2. Meaning(f) \in Messages
    <3>1. protocol \in Protocols
      BY Zenon DEF WireInv
    <3> QED
      BY SMT, <3>1 DEF Messages
  <2>3. budget > 0 /\ budget' = budget - 1
    BY Zenon, <1>1 DEF BrokerSends
  <2>4. ASSUME NEW e \in Messages
        PROVE  Append(sent, e) \in Seq(Messages) /\ Len(Append(sent, e)) = Len(sent) + 1
    BY SMT DEF SentInv
  <2>5. \/ sent' = sent
        \/ sent' \in Seq(Messages) /\ Len(sent') = Len(sent) + 1
    BY Zenon, <2>1, <2>2, <2>4
  <2>6. Len(sent) \in Nat /\ MaxFrames \in Nat
    BY SMT, BoundAssumption DEF SentInv
  <2> QED
    BY SMT, <2>3, <2>5, <2>6 DEF SentInv
<1>2. ASSUME UNCHANGED <<sent, budget>> PROVE SentInv'
  BY Zenon, <1>2 DEF SentInv
<1> QED
  BY Zenon, <1>1, <1>2 DEF Next, BrokerAnswers, BrokerPings, RunToConnect, RunConnected,
                           Lost, vars

LEMMA SentAlways == Spec => []SentInv
<1> QED
  BY InitSent, NextSent, WireAlways, PTL DEF Spec

PhaseInv == phase \in {"connecting", "connected", "failed", "lost"}

LEMMA PhaseAlways == Spec => []PhaseInv
<1>1. Init => PhaseInv
  BY SMT DEF Init, PhaseInv
<1>2. PhaseInv /\ [Next]_vars => PhaseInv'
  BY SMT DEF PhaseInv, Next, BrokerAnswers, BrokerSends, BrokerPings, RunToConnect,
             ConnectWaits, ConnectSucceeds, ConnectFails, RunConnected, Lost, vars
<1> QED
  BY <1>1, <1>2, PTL DEF Spec

-----------------------------------------------------------------------------
(* The properties.                                                         *)

\* Every variable has its type; above all, however many frames a read takes off the
\* buffer (stream.split_to), what it counts as left is bytes that have been sent.
THEOREM TypeCorrect == Spec => []TypeOK
<1>1. WireInv /\ BufferInv /\ SentInv /\ PhaseInv => TypeOK
  <2> SUFFICES ASSUME WireInv, BufferInv, SentInv, PhaseInv PROVE TypeOK
    BY Zenon
  <2>1. \A i \in 1..Len(wire) :
            wire[i] \in FirstFrames[protocol] \cup LaterFrames[protocol] \cup {PingResp}
    <3> DEFINE S == FramesOf(protocol)
    <3>1. wire \in Seq(S)
      BY Zenon DEF WireInv
    <3> HIDE DEF S
    <3>2. \A i \in 1..Len(wire) : wire[i] \in S
      BY SMT, <3>1
    <3> QED
      BY Zenon, <3>2 DEF S, FramesOf
  <2>2. buffered \in 0..Start(Len(wire) + 1)
    <3>1. wire \in Seq(Frames)
      BY Zenon, WireIsOfFrames
    <3>2. StartIn(wire, Len(wire) + 1) \in Nat
      <4>1. PingResp \in Frames
        BY Zenon DEF Frames
      <4> QED
        BY Zenon, <3>1, <4>1, StartAfterAppend
    <3>3. buffered \in 0..StartIn(wire, Len(wire) + 1)
      BY SMT, <3>2 DEF BufferInv
    <3> QED
      BY Zenon, <3>3 DEF Start, StartIn
  <2>3. budget \in 0..MaxFrames /\ Len(sent) <= MaxFrames
    <3>1. Len(sent) \in Nat
      BY SMT DEF SentInv
    <3> QED
      BY SMT, <3>1, BoundAssumption DEF SentInv
  <2> QED
    BY Zenon, <2>1, <2>2, <2>3 DEF TypeOK, WireInv, PhaseInv
<1> QED
  BY <1>1, WireAlways, BufferAlways, SentAlways, PhaseAlways, PTL

\* However the reads cut the bytes of the broker, on every connection the tasks get
\* the packets that it has sent, as it meant them and in its order, none twice and
\* none left out (deal_connected_network_packet, read_from_network).
THEOREM DispatchesAsSent == Spec => ImplementsPacketStream
<1>1. Init => Stream!Init
  BY SMT DEF Init, Stream!Init, Open
<1>2. ASSUME WireInv, StreamInv, [Next]_vars
      PROVE  [Stream!Next]_<<sent, dispatched, Open>>
  BY Zenon, <1>2, NextStream
<1>3. ASSUME WireInv, StreamInv, [Next]_vars
      PROVE  StreamInv'
  BY Zenon, <1>3, NextStream
<1>4. Spec => []StreamInv
  BY <1>3, InitStream, WireAlways, PTL DEF Spec
<1> QED
  BY <1>1, <1>2, <1>4, WireAlways, PTL DEF Spec, ImplementsPacketStream, Stream!Spec, Stream!vars

LEMMA ShortCount ==
    ASSUME NEW n \in Nat, n <= MaxLength
    PROVE  Count(n) <= 4
  BY SMT DEF Count, MaxLength

\* What the client writes has the length that it says (len of each packet, against
\* what its write puts into the buffer), and the limit of publish keeps an MQTT 3.1.1
\* message within four bytes of length.
THEOREM OutgoingLengths == Spec => []OutgoingLengthsTrue
<1>1. ASSUME protocol \in Protocols PROVE OutgoingLengthsTrue
  <2> SUFFICES ASSUME NEW p \in Outgoing
               PROVE  /\ LenOf(p, protocol) = Total(Pieces(p, protocol))
                      /\ protocol = "V4" /\ p.ty = "Publish" /\ Accepts(p) =>
                            Count(LenOf(p, protocol)) <= 4
    BY Zenon DEF OutgoingLengthsTrue
  <2>1. p.ty \in ClientPackets /\ {p.qos, p.text, p.payload, p.user, p.password} \subseteq Nat
    BY Zenon, OutgoingAssumption
  <2>2. LenOf(p, protocol) = Total(Pieces(p, protocol))
    BY Zenon, <2>1, LengthIsWritten
  <2>3. ASSUME protocol = "V4", p.ty = "Publish", Accepts(p)
        PROVE  Count(LenOf(p, protocol)) <= 4
    <3>1. p.text \in Nat /\ p.payload \in Nat
      BY SMT, <2>1
    <3>2. LenOf(p, protocol) = PublishLen(p, protocol)
      BY SMT, <2>3 DEF LenOf, Acks
    <3>3. NoProperties(protocol) = 0
      BY SMT, <2>3 DEF NoProperties
    <3>4. LenOf(p, protocol) \in Nat /\ LenOf(p, protocol) <= p.payload + 4 + p.text
      BY SMT, <3>1, <3>2, <3>3 DEF PublishLen, StringLen
    <3>5. p.payload + 4 + p.text <= MaxLength
      BY Zenon, <2>3 DEF Accepts
    <3>6. MaxLength \in Nat
      BY SMT DEF MaxLength
    <3>7. LenOf(p, protocol) <= MaxLength
      BY SMT, <3>1, <3>4, <3>5, <3>6
    <3> QED
      BY Zenon, <3>4, <3>7, ShortCount
  <2> QED
    BY Zenon, <2>2, <2>3
<1>2. WireInv => OutgoingLengthsTrue
  BY Zenon, <1>1 DEF WireInv
<1> QED
  BY <1>2, WireAlways, PTL

\* _run_to_connect fails for a good CONNACK only when its fixed header was cut
\* (read_from_network, parse_fixed_header_by_slice).
THEOREM GoodConnAckConnects == Spec => FailsForAReason
<1> DEFINE Reason == \/ ~ Succeeds(wire[1])
                     \/ buffered' < Len(HeaderOf[wire[1]])
<1>1. WireInv /\ [Next]_vars =>
        [phase = "connecting" /\ phase' = "failed" => Reason]_vars
  <2> SUFFICES ASSUME WireInv, Next, phase = "connecting", phase' = "failed"
               PROVE  Reason
    BY Zenon
  <2>1. RunToConnect
    <3>1. CASE BrokerAnswers
      BY SMT, <3>1 DEF BrokerAnswers
    <3>2. CASE BrokerSends
      BY SMT, <3>2 DEF BrokerSends
    <3>3. CASE BrokerPings
      BY SMT, <3>3 DEF BrokerPings
    <3>4. CASE RunConnected
      BY SMT, <3>4 DEF RunConnected
    <3>5. CASE Lost
      BY SMT, <3>5 DEF Lost
    <3> QED
      BY Zenon, <3>1, <3>2, <3>3, <3>4, <3>5 DEF Next
  <2>2. PICK n \in Arrivals : ConnectFails(n)
    <3>1. PICK n \in Arrivals : ConnectWaits(n) \/ ConnectSucceeds(n) \/ ConnectFails(n)
      BY Zenon, <2>1 DEF RunToConnect
    <3>2. ~ ConnectWaits(n)
      BY SMT DEF ConnectWaits
    <3>3. ~ ConnectSucceeds(n)
      BY SMT DEF ConnectSucceeds
    <3> QED
      BY Zenon, <3>1, <3>2, <3>3
  <2> SUFFICES ASSUME Succeeds(wire[1]), ~ (n < Len(HeaderOf[wire[1]])) PROVE FALSE
    BY Zenon, <2>2 DEF ConnectFails
  <2> DEFINE f == wire[1]
  <2>3. f \in FirstFrames[protocol] /\ f \in Frames /\ protocol \in Protocols /\ n \in Int
    <3>1. protocol \in Protocols /\ wire # <<>> /\ n \in Int
      BY Zenon, SomethingOnTheWay DEF WireInv
    <3>2. f \in FirstFrames[protocol]
      BY Zenon, <3>1 DEF WireInv
    <3>3. f \in Frames
      BY SMT, <3>1, <3>2 DEF Frames
    <3> QED
      BY Zenon, <3>1, <3>2, <3>3
  <2>4. f \in ReadableIn[protocol]
    BY Zenon, <2>3, ConnAckAssumption DEF Succeeds, ReadableIn
  <2>5. ParseHeader(f, n - Start(1)).status = "Ok"
    <3>1. Len(HeaderOf[f]) \in Int
      BY SMT, <2>3, HeaderSize
    <3>2. n >= Len(HeaderOf[f]) /\ n - 0 = n
      BY SMT, <2>3, <3>1
    <3>3. ParseHeader(f, n) = Decoded(LenLen(RemainingLen(f)), RemainingLen(f))
      BY Zenon, <2>3, <3>2, WholeHeader
    <3>4. Decoded(LenLen(RemainingLen(f)), RemainingLen(f)).status = "Ok"
      BY SMT DEF Decoded
    <3>5. ParseHeader(f, n - Start(1)) = ParseHeader(f, n)
      BY Zenon, <3>2, FirstStart
    <3> QED
      BY Zenon, <3>3, <3>4, <3>5
  <2>6. ReadFromNetwork(1, n) \in {"None", "Packet"}
    BY SMT, <2>4, <2>5 DEF ReadFromNetwork
  <2>7. ReadFromNetwork(1, n) \notin {"InsufficientBytes", "Malformed"}
    BY SMT, <2>6
  <2> QED
    BY Zenon, <2>2, <2>7 DEF ConnectFails
<1> QED
  BY <1>1, WireAlways, PTL DEF Spec, FailsForAReason

\* Every length on the way is read as it was written, and takes the bytes that
\* len_len says (write_remaining_length, length).
THEOREM HeadersAlwaysReadBack == Spec => []HeadersReadBack
<1>1. WireInv => HeadersReadBack
  <2> SUFFICES ASSUME WireInv, NEW i \in 1..Len(wire)
               PROVE  ReadsBack(RemainingLen(wire[i]), <<>>)
    BY Zenon, LengthsAlwaysReadBack DEF HeadersReadBack
  <2>1. wire[i] \in Frames
    <3>1. wire \in Seq(Frames)
      BY Zenon, WireIsOfFrames
    <3> QED
      BY SMT, <3>1
  <2>2. RemainingLen(wire[i]) \in Nat
    BY Zenon, <2>1, FrameLengths
  <2>3. <<>> \in Seq(Byte)
    BY SMT
  <2> QED
    BY Zenon, <2>2, <2>3, EveryLengthReadsBack
<1> QED
  BY <1>1, WireAlways, PTL
=============================================================================
