----------------------------- MODULE Codecs_proofs -----------------------------
(* What the codecs make of the sizes of a packet's parts: the sums, the    *)
(* reading loop of the properties, and the lengths the client writes.      *)
EXTENDS Codecs, SequenceLemmas

-----------------------------------------------------------------------------
(* The variable byte integer: it is read back as it was written, for       *)
(* every length and whatever bytes follow.                                 *)

\* The digits of n to the base 128, seven bits each.
Digits(n) == [i \in 1..5 |-> (n \div Weight[i]) % 128]

\* s begins with c of the digits d, all but the last with the continuation bit.
BeginsWith(s, d, c) ==
    /\ Len(s) \in Nat /\ Len(s) >= c
    /\ s[c] = d[c]
    /\ \A i \in 1..(c - 1) : s[i] = d[i] + 128

-----------------------------------------------------------------------------
LEMMA DigitsType ==
    ASSUME NEW n \in Nat
    PROVE  Digits(n) \in [1..5 -> 0..127]
<1> SUFFICES ASSUME NEW i \in 1..5
             PROVE  (n \div Weight[i]) % 128 \in 0..127
  BY Zenon DEF Digits
<1>1. Weight[i] \in Nat /\ Weight[i] > 0
  BY SMT DEF Weight
<1>2. n \div Weight[i] \in Int
  BY SMT, <1>1
<1> QED
  BY SMT, <1>2

\* A number is the sum of its digits, each with its weight.
LEMMA SumOfDigits ==
    ASSUME NEW n \in Nat, NEW d, d = Digits(n)
    PROVE  /\ n < 128 => n = d[1]
           /\ n < 16384 => n = d[1] + d[2] * 128
           /\ n < 2097152 => n = d[1] + d[2] * 128 + d[3] * 16384
           /\ n < 268435456 =>
                n = d[1] + d[2] * 128 + d[3] * 16384 + d[4] * 2097152
<1> DEFINE a == n \div 128
           b == n \div 16384
           c == n \div 2097152
<1>1. n = a * 128 + (n % 128) /\ a \in Nat
  BY SMT
<1>2. b \in Nat /\ a = b * 128 + (a % 128)
  BY SMT
<1>3. c \in Nat /\ b = c * 128 + (b % 128)
  BY SMT
<1>4. /\ n < 128 => a = 0
      /\ n < 16384 => b = 0
      /\ n < 2097152 => c = 0
      /\ n < 268435456 => c = c % 128
  BY SMT
<1>5. /\ d[1] = n % 128 /\ d[2] = a % 128 /\ d[3] = b % 128 /\ d[4] = c % 128
  <2>1. n \div 1 = n
    BY SMT
  <2> QED
    BY SMT, <2>1 DEF Digits, Weight
<1>6. n % 128 \in Int /\ a % 128 \in Int /\ b % 128 \in Int /\ c % 128 \in Int
  BY SMT, <1>1, <1>2, <1>3
<1> HIDE DEF a, b, c
<1> QED
  BY SMT, <1>1, <1>2, <1>3, <1>4, <1>5, <1>6

-----------------------------------------------------------------------------
\* What write_remaining_length writes.
LEMMA Written ==
    ASSUME NEW n \in Nat
    PROVE  /\ Count(n) \in 1..5
           /\ WriteRemainingLength(n) \in Seq(Byte)
           /\ Len(WriteRemainingLength(n)) = Count(n)
           /\ BeginsWith(WriteRemainingLength(n), Digits(n), Count(n))
<1> DEFINE c == Count(n)
           d == Digits(n)
           w == WriteRemainingLength(n)
<1>1. c \in 1..5
  BY SMT DEF Count
<1>2. d \in [1..5 -> 0..127]
  BY Zenon, DigitsType
<1>3. w = [i \in 1..c |-> IF i < c THEN d[i] + 128 ELSE d[i]]
  BY SMT, <1>1 DEF WriteRemainingLength, Digits, More
<1> HIDE DEF c, d, w
<1>4. \A i \in 1..c : (IF i < c THEN d[i] + 128 ELSE d[i]) \in Byte
  BY SMT, <1>1, <1>2 DEF Byte
<1>5. w \in Seq(Byte) /\ Len(w) = c
  BY SMT, <1>1, <1>3, <1>4
<1>6. BeginsWith(w, d, c)
  BY SMT, <1>1, <1>3, <1>5 DEF BeginsWith
<1> QED
  BY Zenon, <1>1, <1>5, <1>6 DEF c, d, w

\* The same bytes with others behind them.
LEMMA WrittenThenRest ==
    ASSUME NEW n \in Nat, NEW rest \in Seq(Byte)
    PROVE  BeginsWith(WriteRemainingLength(n) \o rest, Digits(n), Count(n))
<1> DEFINE c == Count(n)
           d == Digits(n)
           w == WriteRemainingLength(n)
<1>1. c \in 1..5 /\ w \in Seq(Byte) /\ Len(w) = c /\ BeginsWith(w, d, c)
  BY Zenon, Written
<1> HIDE DEF c, d, w
<1>2. /\ Len(w \o rest) \in Nat /\ Len(w \o rest) >= c
      /\ \A i \in 1..c : (w \o rest)[i] = w[i]
  BY SMT, <1>1
<1>3. BeginsWith(w \o rest, d, c)
  BY SMT, <1>1, <1>2 DEF BeginsWith
<1> QED
  BY Zenon, <1>3 DEF c, d, w

-----------------------------------------------------------------------------
\* The loop of length stops at the last digit, if it is among the first four.
LEMMA EndsAtLastDigit ==
    ASSUME NEW c \in 1..5, NEW d \in [1..5 -> 0..127], NEW s,
           BeginsWith(s, d, c), NEW k \in 1..4
    PROVE  EndsAt(s, k) <=> k = c
<1>1. \A i \in 1..(c - 1) : s[i] >= 128 /\ ~ (s[i] < 128)
  <2> TAKE i \in 1..(c - 1)
  <2>1. d[i] \in 0..127
    BY SMT
  <2>2. s[i] = d[i] + 128
    BY SMT DEF BeginsWith
  <2> QED
    BY SMT, <2>1, <2>2
<1>2. s[c] < 128 /\ ~ (s[c] >= 128)
  <2>1. d[c] \in 0..127
    BY SMT
  <2>2. s[c] = d[c]
    BY SMT DEF BeginsWith
  <2> QED
    BY SMT, <2>1, <2>2
<1>3. CASE k < c
  BY SMT, <1>1, <1>3 DEF EndsAt, More
<1>4. CASE k = c
  BY SMT, <1>1, <1>2, <1>4 DEF EndsAt, More, BeginsWith
<1>5. CASE k > c
  BY SMT, <1>2, <1>5 DEF EndsAt, More
<1> QED
  BY SMT, <1>3, <1>4, <1>5

\* How many digits there are, by the limits of len_len.
LEMMA Limits ==
    ASSUME NEW n \in Nat
    PROVE  /\ n > MaxLength => Count(n) = 5
           /\ n <= MaxLength =>
                /\ Count(n) \in 1..4 /\ Count(n) = LenLen(n)
                /\ n < 268435456
                /\ Count(n) = 1 => n < 128
                /\ Count(n) = 2 => n < 16384
                /\ Count(n) = 3 => n < 2097152
  BY SMT DEF Count, LenLen, MaxLength

\* What the loop has summed up by then is the number.
LEMMA ValueIsNumber ==
    ASSUME NEW n \in Nat, n <= MaxLength, NEW c, c = Count(n),
           NEW d \in [1..5 -> 0..127], d = Digits(n),
           NEW s, BeginsWith(s, d, c)
    PROVE  Value(s, c) = n
<1>1. /\ c \in 1..4 /\ n < 268435456
      /\ c = 1 => n < 128
      /\ c = 2 => n < 16384
      /\ c = 3 => n < 2097152
  BY SMT, Limits
<1>2. /\ n < 128 => n = d[1]
      /\ n < 16384 => n = d[1] + d[2] * 128
      /\ n < 2097152 => n = d[1] + d[2] * 128 + d[3] * 16384
      /\ n < 268435456 =>
           n = d[1] + d[2] * 128 + d[3] * 16384 + d[4] * 2097152
  BY SMT, SumOfDigits
<1>3. d[1] \in 0..127 /\ d[2] \in 0..127 /\ d[3] \in 0..127 /\ d[4] \in 0..127
  BY SMT
<1>4. \A x \in 0..127 : x % 128 = x /\ (x + 128) % 128 = x
  BY SMT
<1>5. CASE c = 1
  <2>1. s[1] = d[1]
    BY SMT, <1>5 DEF BeginsWith
  <2>2. s[1] % 128 = d[1]
    BY SMT, <2>1, <1>3, <1>4
  <2> QED
    BY SMT, <1>1, <1>2, <1>3, <1>5, <2>2 DEF Value
<1>6. CASE c = 2
  <2>1. s[1] = d[1] + 128 /\ s[2] = d[2]
    BY SMT, <1>6 DEF BeginsWith
  <2>2. s[1] % 128 = d[1] /\ s[2] % 128 = d[2]
    BY SMT, <2>1, <1>3, <1>4
  <2> QED
    BY SMT, <1>1, <1>2, <1>3, <1>6, <2>2 DEF Value
<1>7. CASE c = 3
  <2>1. s[1] = d[1] + 128 /\ s[2] = d[2] + 128 /\ s[3] = d[3]
    BY SMT, <1>7 DEF BeginsWith
  <2>2. s[1] % 128 = d[1] /\ s[2] % 128 = d[2] /\ s[3] % 128 = d[3]
    BY SMT, <2>1, <1>3, <1>4
  <2> QED
    BY SMT, <1>1, <1>2, <1>3, <1>7, <2>2 DEF Value
<1>8. CASE c = 4
  <2>1. s[1] = d[1] + 128 /\ s[2] = d[2] + 128 /\ s[3] = d[3] + 128 /\ s[4] = d[4]
    BY SMT, <1>8 DEF BeginsWith
  <2>2. s[1] % 128 = d[1] /\ s[2] % 128 = d[2] /\ s[3] % 128 = d[3] /\ s[4] % 128 = d[4]
    BY SMT, <2>1, <1>3, <1>4
  <2> QED
    BY SMT, <1>1, <1>2, <1>3, <1>8, <2>2 DEF Value
<1> QED
  BY SMT, <1>1, <1>5, <1>6, <1>7, <1>8

-----------------------------------------------------------------------------
\* What length reads is what write_remaining_length wrote, whatever follows, in
\* as many bytes as len_len says, and a length above 268435455 is malformed.
THEOREM EveryLengthReadsBack ==
    \A n \in Nat : \A rest \in Seq(Byte) : ReadsBack(n, rest)
<1> SUFFICES ASSUME NEW n \in Nat, NEW rest \in Seq(Byte)
             PROVE  ReadsBack(n, rest)
  BY Zenon
<1> DEFINE c == Count(n)
           d == Digits(n)
           s == WriteRemainingLength(n) \o rest
<1>1. c \in 1..5 /\ d \in [1..5 -> 0..127] /\ BeginsWith(s, d, c)
  BY Zenon, Written, DigitsType, WrittenThenRest
<1>0. d \in [1..5 -> 0..127]
  BY Zenon, DigitsType
<1>2. \A k \in 1..4 : EndsAt(s, k) <=> k = c
  BY Zenon, <1>1, EndsAtLastDigit
<1>3. CASE n > MaxLength
  <2>1. c = 5
    BY SMT, <1>3, Limits
  <2> HIDE DEF c, d, s
  <2>2. ~ \E k \in 1..4 : EndsAt(s, k)
    BY SMT, <1>2, <2>1
  <2>3. Len(s) >= 4
    BY SMT, <1>1, <2>1 DEF BeginsWith
  <2>4. Length(s) = Malformed
    BY Zenon, <2>2, <2>3 DEF Length
  <2>5. ~ (n <= MaxLength)
    BY SMT, <1>3 DEF MaxLength
  <2> QED
    BY Zenon, <2>4, <2>5 DEF ReadsBack, s
<1>4. CASE n <= MaxLength
  <2>1. c \in 1..4 /\ c = LenLen(n)
    BY SMT, <1>4, Limits
  <2>2. Value(s, c) = n
    BY Zenon, <1>0, <1>1, <1>4, ValueIsNumber
  <2> HIDE DEF c, d, s
  <2>3. (CHOOSE k \in 1..4 : EndsAt(s, k)) = c /\ \E k \in 1..4 : EndsAt(s, k)
    BY Zenon, <1>2, <2>1
  <2>4. Length(s) = Decoded(c, Value(s, c))
    BY Zenon, <2>3 DEF Length
  <2> QED
    BY Zenon, <1>4, <2>1, <2>2, <2>4 DEF ReadsBack, s
<1> QED
  BY SMT, <1>3, <1>4 DEF MaxLength

\* A length of which bytes are missing is never taken for a shorter one: length says
\* InsufficientBytes, and nothing is taken off the buffer.
THEOREM EveryPrefixWaits == \A n \in Nat : WaitsForTheRest(n)
<1> SUFFICES ASSUME NEW n \in Nat, n <= MaxLength, NEW k \in 0..(Count(n) - 1)
             PROVE  Length(SubSeq(WriteRemainingLength(n), 1, k)) = Insufficient
  BY Zenon DEF WaitsForTheRest
<1> DEFINE c == Count(n)
           d == Digits(n)
           w == WriteRemainingLength(n)
           s == SubSeq(w, 1, k)
<1>1. w \in Seq(Byte) /\ Len(w) = c /\ BeginsWith(w, d, c)
  BY Zenon, Written
<1>2. d \in [1..5 -> 0..127]
  BY Zenon, DigitsType
<1>3. c \in 1..4 /\ k \in 0..(c - 1)
  BY SMT, Limits
<1> HIDE DEF c, d, w
<1>4. Len(s) = k /\ \A i \in 1..k : s[i] = w[i]
  BY SMT, <1>1, <1>3
<1> HIDE DEF s
<1>5. \A i \in 1..k : ~ (s[i] < 128)
  <2>1. \A i \in 1..5 : ~ (d[i] + 128 < 128)
    BY SMT, <1>2
  <2> QED
    BY SMT, <1>1, <1>3, <1>4, <2>1 DEF BeginsWith
<1>6. ~ \E i \in 1..4 : EndsAt(s, i)
  BY SMT, <1>3, <1>4, <1>5 DEF EndsAt, More
<1>7. ~ (Len(s) >= 4)
  BY SMT, <1>3, <1>4
<1>8. Length(s) = Insufficient
  BY Zenon, <1>6, <1>7 DEF Length
<1> QED
  BY Zenon, <1>8 DEF s, w

\* The two together, for every set of lengths.
THEOREM LengthsAlwaysReadBack == LengthsReadBack
<1>1. \A rest \in {<<>>} \cup {<<b>> : b \in Byte} : rest \in Seq(Byte)
  <2>1. \A b \in Byte : <<b>> \in Seq(Byte)
    BY SMT
  <2>2. <<>> \in Seq(Byte)
    BY SMT
  <2> QED
    BY Zenon, <2>1, <2>2
<1> QED
  BY Zenon, <1>1, EveryLengthReadsBack, EveryPrefixWaits, LengthsAssumption
  DEF LengthsReadBack

-----------------------------------------------------------------------------
(* Sums.                                                                   *)

\* f has the sums of the first i numbers of s, up to the n-th.
IsSums(f, s, n) == f = [i \in 0..n |-> IF i = 0 THEN 0 ELSE f[i - 1] + s[i]]

LEMMA SumsExist ==
    ASSUME NEW s
    PROVE  \A n \in Nat : \E f : IsSums(f, s, n)
<1> DEFINE T == {n \in Nat : \E f : IsSums(f, s, n)}
<1>1. 0 \in T
  <2>1. IsSums([i \in 0..0 |-> 0], s, 0)
    BY SMT DEF IsSums
  <2> QED
    BY Zenon, <2>1
<1>2. ASSUME NEW n \in Nat, n \in T PROVE n + 1 \in T
  <2>1. PICK f : IsSums(f, s, n)
    BY Zenon, <1>2
  <2> DEFINE g == [i \in 0..n + 1 |-> IF i = n + 1 THEN f[n] + s[n + 1] ELSE f[i]]
  <2>2. IsSums(g, s, n + 1)
    <3>1. ASSUME NEW i \in 0..n + 1
          PROVE  g[i] = IF i = 0 THEN 0 ELSE g[i - 1] + s[i]
      <4>1. CASE i = 0
        BY SMT, <2>1, <4>1 DEF IsSums
      <4>2. CASE i \in 1..n
        BY SMT, <2>1, <4>2 DEF IsSums
      <4>3. CASE i = n + 1
        BY SMT, <4>3
      <4> QED
        BY SMT, <4>1, <4>2, <4>3
    <3> QED
      BY SMT, <3>1 DEF IsSums
  <2>3. n + 1 \in Nat
    BY SMT
  <2> HIDE DEF g
  <2> QED
    BY Zenon, <2>2, <2>3
<1> HIDE DEF T
<1>3. \A n \in Nat : n \in T
  BY Zenon, <1>1, <1>2, SetInduction
<1> QED
  BY Zenon, <1>3 DEF T

\* The sums of two sequences agree as far as the sequences do.
Agree(s, t, n) == \A i \in 1..n : s[i] = t[i]

LEMMA SumsAgree ==
    ASSUME NEW s, NEW t, NEW n \in Nat, Agree(s, t, n)
    PROVE  \A f, g : IsSums(f, s, n) /\ IsSums(g, t, n + 1) => f[n] = g[n]
<1> SUFFICES ASSUME NEW f, IsSums(f, s, n), NEW g, IsSums(g, t, n + 1)
             PROVE  f[n] = g[n]
  BY Zenon
<1> DEFINE T == {i \in Nat : i <= n => f[i] = g[i]}
<1>1. 0 \in T
  BY SMT DEF IsSums
<1>2. ASSUME NEW i \in Nat, i \in T PROVE i + 1 \in T
  <2> SUFFICES ASSUME i + 1 <= n PROVE f[i + 1] = g[i + 1]
    BY SMT
  <2>1. f[i] = g[i] /\ s[i + 1] = t[i + 1]
    BY SMT, <1>2 DEF Agree
  <2>2. f[i + 1] = f[i] + s[i + 1]
    BY SMT DEF IsSums
  <2>3. g[i + 1] = g[i] + t[i + 1]
    BY SMT DEF IsSums
  <2> QED
    BY SMT, <2>1, <2>2, <2>3
<1> HIDE DEF T
<1>3. n \in T
  BY Zenon, <1>1, <1>2, SetInduction
<1> QED
  BY SMT, <1>3 DEF T

LEMMA TotalIsLastSum ==
    ASSUME NEW s, Len(s) \in Nat
    PROVE  \E f : IsSums(f, s, Len(s)) /\ Total(s) = f[Len(s)]
<1> DEFINE sum == CHOOSE f : IsSums(f, s, Len(s))
<1>1. IsSums(sum, s, Len(s))
  BY Zenon, SumsExist
<1>2. Total(s) = sum[Len(s)]
  BY Zenon DEF Total, IsSums
<1> QED
  BY Zenon, <1>1, <1>2

LEMMA TotalEmpty == Total(<<>>) = 0
<1>1. Len(<<>>) = 0
  BY SMT
<1>2. PICK f : IsSums(f, <<>>, 0) /\ Total(<<>>) = f[0]
  BY SMT, <1>1, TotalIsLastSum
<1> QED
  BY SMT, <1>2 DEF IsSums

LEMMA TotalAppend ==
    ASSUME NEW s \in Seq(Int), NEW x \in Int
    PROVE  Total(Append(s, x)) = Total(s) + x
<1>1. PICK n, t : n \in Nat /\ n = Len(s) /\ t = Append(s, x)
  BY Zenon, LenProperties
<1>2. /\ Len(t) = n + 1 /\ t[n + 1] = x /\ Agree(s, t, n)
  BY SMT, <1>1 DEF Agree
<1>3. PICK f : IsSums(f, s, n) /\ Total(s) = f[n]
  BY Zenon, <1>1, TotalIsLastSum
<1>4. PICK g : IsSums(g, t, n + 1) /\ Total(t) = g[n + 1]
  <2>1. Len(t) \in Nat
    BY SMT, <1>2
  <2> QED
    BY Zenon, <1>2, <2>1, TotalIsLastSum
<1>5. f[n] = g[n]
  <2>1. Agree(s, t, n)
    BY Zenon, <1>2
  <2>2. IsSums(f, s, n)
    BY Zenon, <1>3
  <2>3. IsSums(g, t, n + 1)
    BY Zenon, <1>4
  <2> QED
    BY SMT, <1>1, <2>1, <2>2, <2>3, SumsAgree
<1>6. g[n + 1] = g[n] + t[n + 1]
  BY SMT, <1>1, <1>4 DEF IsSums
<1> QED
  BY Zenon, <1>1, <1>2, <1>3, <1>4, <1>5, <1>6

LEMMA TotalType ==
    /\ \A s \in Seq(Int) : Total(s) \in Int
    /\ \A s \in Seq(Nat) : Total(s) \in Nat
<1>1. ASSUME NEW s \in Seq(Int) PROVE Total(s) \in Int
  <2> DEFINE T == {r \in Seq(Int) : Total(r) \in Int}
  <2>1. <<>> \in T
    BY SMT, TotalEmpty
  <2>2. ASSUME NEW r \in Seq(Int), NEW x \in Int, r \in T PROVE Append(r, x) \in T
    BY SMT, <2>2, TotalAppend
  <2> HIDE DEF T
  <2>3. s \in T
    BY Zenon, <2>1, <2>2, SeqInduction
  <2> QED
    BY Zenon, <2>3 DEF T
<1>2. ASSUME NEW s \in Seq(Nat) PROVE Total(s) \in Nat
  <2> DEFINE T == {r \in Seq(Nat) : Total(r) \in Nat}
  <2>1. <<>> \in T
    BY SMT, TotalEmpty
  <2>2. ASSUME NEW r \in Seq(Nat), NEW x \in Nat, r \in T PROVE Append(r, x) \in T
    <3>1. Append(r, x) \in Seq(Nat) /\ r \in Seq(Int) /\ x \in Int
      BY SMT
    <3>2. Total(Append(r, x)) = Total(r) + x
      BY Zenon, <3>1, TotalAppend
    <3> QED
      BY SMT, <2>2, <3>1, <3>2
  <2> HIDE DEF T
  <2>3. s \in T
    BY Zenon, <2>1, <2>2, SeqInduction
  <2> QED
    BY Zenon, <2>3 DEF T
<1> QED
  BY Zenon, <1>1, <1>2

LEMMA TotalConcat ==
    ASSUME NEW s \in Seq(Int), NEW t \in Seq(Int)
    PROVE  Total(s \o t) = Total(s) + Total(t)
<1> DEFINE T == {r \in Seq(Int) : Total(s \o r) = Total(s) + Total(r)}
<1>1. <<>> \in T
  <2>1. s \o <<>> = s /\ <<>> \in Seq(Int)
    BY SMT
  <2> QED
    BY SMT, <2>1, TotalEmpty, TotalType
<1>2. ASSUME NEW r \in Seq(Int), NEW x \in Int, r \in T PROVE Append(r, x) \in T
  <2>1. s \o Append(r, x) = Append(s \o r, x) /\ s \o r \in Seq(Int)
    BY SMT
  <2>2. Append(r, x) \in Seq(Int)
    BY SMT
  <2>3. Total(s) \in Int /\ Total(r) \in Int
    BY Zenon, TotalType
  <2>4. Total(s \o r) = Total(s) + Total(r)
    BY Zenon, <1>2
  <2>5. Total(s \o Append(r, x)) = Total(s) + Total(r) + x
    BY Zenon, <2>1, <2>4, TotalAppend
  <2>6. Total(Append(r, x)) = Total(r) + x
    BY Zenon, TotalAppend
  <2>7. Total(s \o Append(r, x)) = Total(s) + Total(Append(r, x))
    BY SMT, <2>3, <2>5, <2>6
  <2> QED
    BY Zenon, <2>2, <2>7
<1> HIDE DEF T
<1>3. t \in T
  BY Zenon, <1>1, <1>2, SeqInduction
<1> QED
  BY Zenon, <1>3 DEF T

\* The sum of the first n + 1 numbers of s, from that of the first n.
LEMMA TotalStep ==
    ASSUME NEW s, NEW n \in Nat, \A i \in 1..n + 1 : s[i] \in Int
    PROVE  Total([i \in 1..n + 1 |-> s[i]]) = Total([i \in 1..n |-> s[i]]) + s[n + 1]
<1>1. /\ [i \in 1..n |-> s[i]] \in Seq(Int)
      /\ s[n + 1] \in Int
      /\ [i \in 1..n + 1 |-> s[i]] = Append([i \in 1..n |-> s[i]], s[n + 1])
  BY SMT
<1> QED
  BY Zenon, <1>1, TotalAppend

LEMMA TotalNone ==
    ASSUME NEW s
    PROVE  Total([i \in 1..0 |-> s[i]]) = 0
<1>1. [i \in 1..0 |-> s[i]] = <<>>
  BY SMT
<1> QED
  BY Zenon, <1>1, TotalEmpty

\* Of numbers that are not negative, the first n sum up to no more than all m, and
\* what is behind the first n is the difference.
LEMMA TotalSplit ==
    ASSUME NEW s \in Seq(Nat), NEW n \in 0..Len(s)
    PROVE  /\ SubSeq(s, 1, n) \in Seq(Nat) /\ SubSeq(s, n + 1, Len(s)) \in Seq(Nat)
           /\ Total(s) = Total(SubSeq(s, 1, n)) + Total(SubSeq(s, n + 1, Len(s)))
           /\ Total(SubSeq(s, 1, n)) <= Total(s)
<1> DEFINE a == SubSeq(s, 1, n)
           b == SubSeq(s, n + 1, Len(s))
<1>1. a \in Seq(Nat) /\ b \in Seq(Nat) /\ a \o b = s
  BY Zenon, SplitSequence
<1> HIDE DEF a, b
<1>2. a \in Seq(Int) /\ b \in Seq(Int)
  BY SMT, <1>1
<1>3. Total(s) = Total(a) + Total(b)
  BY Zenon, <1>1, <1>2, TotalConcat
<1>4. Total(a) \in Nat /\ Total(b) \in Nat
  BY Zenon, <1>1, TotalType
<1>5. Total(a) <= Total(s)
  BY SMT, <1>3, <1>4
<1> QED
  BY Zenon, <1>1, <1>3, <1>5 DEF a, b

-----------------------------------------------------------------------------
(* The reading loop of the properties.                                     *)

Properties == Seq([ty : STRING, n : Nat])

\* What a frame that can be sent looks like: see LaterAssumption of FrameReader.
OneIdentifier(props) ==
    /\ \A i \in 1..Len(props) : props[i].n >= 1
    /\ \A i, j \in 1..Len(props) :
        props[i].ty = "SubscriptionIdentifier"
          /\ props[j].ty = "SubscriptionIdentifier" => i = j

LEMMA PropertySizes ==
    ASSUME NEW props \in Properties
    PROVE  Len(props) \in Nat /\ \A i \in 1..Len(props) : props[i].n \in Nat
<1> DEFINE P == [ty : STRING, n : Nat]
<1>1. \A p \in P : p.n \in Nat
  BY SMT
<1> HIDE DEF P
<1>2. props \in Seq(P)
  BY Zenon DEF Properties, P
<1>3. Len(props) \in Nat /\ \A i \in 1..Len(props) : props[i] \in P
  BY SMT, <1>2
<1> QED
  BY Zenon, <1>1, <1>3

\* How far the cursor is from where the properties end that have been read: at
\* most one byte, and only behind the subscription identifier.
LEMMA CursorIsClose ==
    ASSUME NEW ty, NEW props \in Properties,
           ty = "Publish" => OneIdentifier(props)
    PROVE  \A j \in 0..Len(props) :
            LET exact == Total([i \in 1..j |-> 1 + props[i].n])
            IN  /\ exact \in Nat /\ Cursor(ty, props, j) \in Nat
                /\ Cursor(ty, props, j) >= exact
                /\ Cursor(ty, props, j) <= exact + 1
                /\ ty # "Publish" => Cursor(ty, props, j) = exact
                /\ (\A i \in 1..j : props[i].ty # "SubscriptionIdentifier") =>
                        Cursor(ty, props, j) = exact
<1> DEFINE size == [i \in 1..Len(props) |-> 1 + props[i].n]
           step == [i \in 1..Len(props) |-> CursorStep(ty, props[i])]
           E(j) == Total([i \in 1..j |-> 1 + props[i].n])
           C(j) == Cursor(ty, props, j)
           Close(j) == /\ E(j) \in Nat /\ C(j) \in Nat
                       /\ C(j) >= E(j) /\ C(j) <= E(j) + 1
                       /\ ty # "Publish" => C(j) = E(j)
                       /\ (\A i \in 1..j : props[i].ty # "SubscriptionIdentifier") => C(j) = E(j)
           T == {j \in Nat : j <= Len(props) => Close(j)}
<1>0. Len(props) \in Nat /\ \A i \in 1..Len(props) : props[i].n \in Nat
  BY Zenon, PropertySizes
<1>1. ASSUME NEW j \in Nat, j <= Len(props)
      PROVE  /\ E(j) = Total([i \in 1..j |-> size[i]])
             /\ C(j) = Total([i \in 1..j |-> step[i]])
  <2>1. [i \in 1..j |-> 1 + props[i].n] = [i \in 1..j |-> size[i]]
    BY SMT, <1>0, <1>1
  <2>2. [i \in 1..j |-> CursorStep(ty, props[i])] = [i \in 1..j |-> step[i]]
    BY SMT, <1>0, <1>1
  <2> QED
    BY Zenon, <2>1, <2>2 DEF Cursor
<1>2. ASSUME NEW i \in 1..Len(props)
      PROVE  /\ size[i] \in Nat /\ size[i] = 1 + props[i].n
             /\ step[i] \in Nat /\ step[i] >= size[i] /\ step[i] <= size[i] + 1
             /\ ty # "Publish" => step[i] = size[i]
             /\ props[i].ty # "SubscriptionIdentifier" => step[i] = size[i]
  BY SMT, <1>0 DEF CursorStep
<1> HIDE DEF size, step, E, C
<1>3. 0 \in T
  <2>1. E(0) = 0 /\ C(0) = 0
    <3>1. 0 \in Nat /\ 0 <= Len(props)
      BY SMT, <1>0
    <3> QED
      BY Zenon, <3>1, <1>1, TotalNone
  <2> QED
    BY SMT, <2>1
<1>4. ASSUME NEW j \in Nat, j \in T PROVE j + 1 \in T
  <2> SUFFICES ASSUME j + 1 <= Len(props) PROVE Close(j + 1)
    BY SMT
  <2>1. j <= Len(props) /\ j + 1 \in 1..Len(props) /\ j + 1 \in Nat
    BY SMT, <1>0
  <2>2. Close(j)
    BY Zenon, <1>4, <2>1
  <2>3. /\ E(j + 1) = E(j) + size[j + 1]
        /\ C(j + 1) = C(j) + step[j + 1]
    <3>1. \A i \in 1..j + 1 : size[i] \in Int /\ step[i] \in Int
      BY SMT, <1>0, <1>2
    <3>2. /\ Total([i \in 1..j + 1 |-> size[i]]) = Total([i \in 1..j |-> size[i]]) + size[j + 1]
          /\ Total([i \in 1..j + 1 |-> step[i]]) = Total([i \in 1..j |-> step[i]]) + step[j + 1]
      BY Zenon, <3>1, TotalStep
    <3> QED
      BY Zenon, <1>1, <2>1, <3>2
  <2>4. CASE ty # "Publish" \/ props[j + 1].ty # "SubscriptionIdentifier"
    BY SMT, <1>2, <2>1, <2>2, <2>3, <2>4
  <2>5. CASE ty = "Publish" /\ props[j + 1].ty = "SubscriptionIdentifier"
    <3>1. \A i \in 1..j : props[i].ty # "SubscriptionIdentifier"
      BY SMT, <1>0, <2>1, <2>5 DEF OneIdentifier
    <3>2. C(j) = E(j)
      BY Zenon, <2>2, <3>1
    <3> QED
      BY SMT, <1>2, <2>1, <2>2, <2>3, <2>5, <3>2
  <2> QED
    BY Zenon, <2>4, <2>5
<1> HIDE DEF T
<1>5. \A j \in Nat : j \in T
  BY Zenon, <1>3, <1>4, SetInduction
<1>6. ASSUME NEW j \in 0..Len(props) PROVE Close(j)
  <2>1. j \in Nat /\ j <= Len(props)
    BY SMT, <1>0
  <2> QED
    BY Zenon, <1>5, <2>1 DEF T
<1> QED
  BY Zenon, <1>6 DEF E, C

\* With no more than one subscription identifier all of the properties are read.
LEMMA AllPropertiesRead ==
    ASSUME NEW ty, NEW props \in Properties,
           ty = "Publish" => OneIdentifier(props)
    PROVE  PropertiesRead(ty, props) = Len(props)
<1> DEFINE E(j) == Total([i \in 1..j |-> 1 + props[i].n])
           C(j) == Cursor(ty, props, j)
           n == Len(props)
           size == [i \in 1..n |-> 1 + props[i].n]
<1>1. n \in Nat /\ \A i \in 1..n : props[i].n \in Nat
  BY Zenon, PropertySizes
<1>2. \A j \in 0..n :
        /\ E(j) \in Nat /\ C(j) \in Nat
        /\ C(j) >= E(j) /\ C(j) <= E(j) + 1
        /\ ty # "Publish" => C(j) = E(j)
  BY Zenon, CursorIsClose
<1>3. SizeOf(props) = E(n)
  BY Zenon DEF SizeOf
<1>4. ASSUME NEW j \in 0..n - 1
      PROVE  /\ E(j) + 1 <= E(n)
             /\ ty = "Publish" => E(j) + 2 <= E(n)
  <2>1. size \in Seq(Nat) /\ Len(size) = n /\ j + 1 \in 0..n /\ j + 1 \in 1..n /\ j \in Nat
    BY SMT, <1>1
  <2>2. [i \in 1..j + 1 |-> size[i]] = [i \in 1..j + 1 |-> 1 + props[i].n]
    BY SMT, <1>1, <2>1
  <2>3. [i \in 1..j |-> size[i]] = [i \in 1..j |-> 1 + props[i].n]
    BY SMT, <1>1, <2>1
  <2>4. size[j + 1] = 1 + props[j + 1].n
    BY SMT, <2>1
  <2>5. \A i \in 1..j + 1 : size[i] \in Int
    BY SMT, <1>1
  <2>6. [i \in 1..j + 1 |-> size[i]] = SubSeq(size, 1, j + 1)
    BY SMT, <2>1
  <2>7. size = [i \in 1..n |-> 1 + props[i].n]
    BY Zenon
  <2> HIDE DEF size, n
  <2>8. E(j + 1) = E(j) + size[j + 1]
    BY Zenon, <2>1, <2>2, <2>3, <2>5, TotalStep
  <2>9. E(j + 1) <= E(n)
    <3>1. Total(SubSeq(size, 1, j + 1)) <= Total(size)
      BY Zenon, <2>1, TotalSplit
    <3> QED
      BY Zenon, <2>2, <2>6, <2>7, <3>1
  <2>10. E(j) \in Nat /\ E(n) \in Nat /\ E(j + 1) \in Nat
    <3>1. j \in 0..n /\ n \in 0..n
      BY SMT, <1>1
    <3> QED
      BY Zenon, <1>2, <2>1, <3>1
  <2>11. props[j + 1].n \in Nat
    BY Zenon, <1>1, <2>1
  <2>12. ty = "Publish" => props[j + 1].n >= 1
    BY Zenon, <2>1 DEF OneIdentifier, n
  <2> HIDE DEF E
  <2> QED
    BY SMT, <2>4, <2>8, <2>9, <2>10, <2>11, <2>12
<1>5. \A j \in 0..n - 1 : C(j) < E(n)
  <2> TAKE j \in 0..n - 1
  <2>1. j \in 0..n /\ n \in 0..n
    BY SMT, <1>1
  <2>2. /\ E(j) \in Nat /\ C(j) \in Nat /\ E(n) \in Nat
        /\ C(j) <= E(j) + 1
        /\ ty # "Publish" => C(j) = E(j)
    BY Zenon, <1>2, <2>1
  <2>3. /\ E(j) + 1 <= E(n)
        /\ ty = "Publish" => E(j) + 2 <= E(n)
    BY Zenon, <1>4
  <2> HIDE DEF E, C, n
  <2> QED
    BY SMT, <2>2, <2>3
<1>6. n \in 0..n /\ C(n) >= E(n)
  <2>1. n \in 0..n
    BY SMT, <1>1
  <2> QED
    BY Zenon, <1>2, <2>1
<1>7. ASSUME NEW j \in 0..n, C(j) >= E(n) PROVE j = n
  <2> SUFFICES ASSUME j # n PROVE FALSE
    BY Zenon
  <2>1. j \in 0..n - 1
    BY SMT, <1>1
  <2>2. C(j) < E(n) /\ C(j) \in Nat /\ E(n) \in Nat
    BY Zenon, <1>2, <1>5, <1>6, <2>1
  <2> HIDE DEF C, E
  <2> QED
    BY SMT, <1>7, <2>2
<1> DEFINE Stops(j) == C(j) >= E(n) /\ \A i \in 0..(j - 1) : C(i) < E(n)
<1>8. PropertiesRead(ty, props) = CHOOSE j \in 0..n : Stops(j)
  BY Zenon, <1>3 DEF PropertiesRead
<1>9. Stops(n) /\ \A j \in 0..n : Stops(j) => j = n
  BY Zenon, <1>5, <1>6, <1>7
<1> HIDE DEF Stops
<1> QED
  BY Zenon, <1>6, <1>8, <1>9

\* A packet is then what the broker means by its frame.
LEMMA PacketIsMeant ==
    ASSUME NEW f, f.props \in Properties, f.payload \in Seq([ty : STRING, n : Nat]),
           f.ty = "Publish" => OneIdentifier(f.props)
    PROVE  ReadPacket(f) = Meaning(f)
<1>1. PropertiesRead(f.ty, f.props) = Len(f.props)
  BY Zenon, AllPropertiesRead
<1>2. PropertiesOf(f) = f.props
  <2>1. SubSeq(f.props, 1, Len(f.props)) = f.props
    BY Zenon, SubSeqFull DEF Properties
  <2> QED
    BY Zenon, <1>1, <2>1 DEF PropertiesOf
<1>3. LeftOver(f) \o f.payload = f.payload
  <2>1. Len(f.props) \in Nat
    BY Zenon, PropertySizes
  <2>2. SubSeq(f.props, Len(f.props) + 1, Len(f.props)) = <<>>
    <3> DEFINE n == Len(f.props)
    <3>1. n + 1 \in Int /\ n \in Int /\ n + 1 > n
      BY SMT, <2>1
    <3> QED
      BY SMT, <2>1 DEF Properties
  <2>3. LeftOver(f) = <<>>
    BY Zenon, <1>1, <2>2 DEF LeftOver
  <2>4. <<>> \o f.payload = f.payload
    BY Zenon, ConcatEmptySeq
  <2> QED
    BY Zenon, <2>3, <2>4
<1> QED
  BY Zenon, <1>2, <1>3 DEF ReadPacket, Meaning

-----------------------------------------------------------------------------
(* The packets of the client.                                              *)

HasTotal(s, n) == s \in Seq(Nat) /\ n \in Nat /\ Total(s) = n

LEMMA TotalOne ==
    ASSUME NEW n \in Nat
    PROVE  HasTotal(<<n>>, n)
<1>1. <<n>> \in Seq(Nat) /\ <<n>> = Append(<<>>, n) /\ <<>> \in Seq(Int) /\ n \in Int
  BY SMT
<1>2. Total(<<n>>) = Total(<<>>) + n
  BY Zenon, <1>1, TotalAppend
<1> QED
  BY SMT, <1>1, <1>2, TotalEmpty DEF HasTotal

LEMMA TotalOfNone == HasTotal(<<>>, 0)
  BY SMT, TotalEmpty DEF HasTotal

\* The total of pieces that follow each other.
LEMMA TotalPieces ==
    ASSUME NEW s, NEW t, NEW m, NEW n, HasTotal(s, m), HasTotal(t, n)
    PROVE  HasTotal(s \o t, m + n)
<1>1. /\ s \o t \in Seq(Nat) /\ s \in Seq(Int) /\ t \in Seq(Int)
      /\ m + n \in Nat
  BY SMT DEF HasTotal
<1>2. Total(s \o t) = Total(s) + Total(t)
  BY Zenon, <1>1, TotalConcat
<1> QED
  BY Zenon, <1>1, <1>2 DEF HasTotal

LEMMA WrittenString ==
    ASSUME NEW n \in Nat
    PROVE  WrittenStrings(<<n>>) = <<2 + n>>
  BY SMT DEF WrittenStrings

LEMMA WrittenPropertyLength ==
    ASSUME NEW protocol
    PROVE  HasTotal(WrittenProperties(protocol), NoProperties(protocol))
<1>1. Count(0) = 1 /\ 1 \in Nat
  BY SMT DEF Count
<1>2. CASE protocol = "V5"
  <2>1. WrittenProperties(protocol) = <<1>> /\ NoProperties(protocol) = 1
    BY Zenon, <1>1, <1>2 DEF WrittenProperties, NoProperties
  <2> QED
    BY Zenon, <1>1, <2>1, TotalOne
<1>3. CASE protocol # "V5"
  <2>1. WrittenProperties(protocol) = <<>> /\ NoProperties(protocol) = 0
    BY Zenon, <1>3 DEF WrittenProperties, NoProperties
  <2> QED
    BY Zenon, <2>1, TotalOfNone
<1> QED
  BY Zenon, <1>2, <1>3

LEMMA LoginIsWritten ==
    ASSUME NEW p, p.user \in Nat, p.password \in Nat
    PROVE  HasTotal(LoginPieces(p), LoginLen(p))
<1> DEFINE u == p.user
           w == p.password
           L(a, b) == (IF a > 0 THEN 2 + a ELSE 0) + (IF b > 0 THEN 2 + b ELSE 0)
<1>1. LoginLen(p) = L(u, w)
  BY Zenon DEF LoginLen, StringLen
<1>2. u \in Nat /\ w \in Nat /\ 2 + u \in Nat /\ 2 + w \in Nat
  BY SMT
<1>3. LoginPieces(p) = WrittenStrings((IF u > 0 THEN <<u>> ELSE <<>>)
                                        \o (IF w > 0 THEN <<w>> ELSE <<>>))
  BY Zenon DEF LoginPieces
<1> HIDE DEF u, w
<1>4. CASE u > 0 /\ w > 0
  <2>1. WrittenStrings(<<u>> \o <<w>>) = <<2 + u>> \o <<2 + w>>
    BY SMT, <1>2 DEF WrittenStrings
  <2>2. L(u, w) = (2 + u) + (2 + w)
    BY Zenon, <1>4
  <2>3. LoginPieces(p) = <<2 + u>> \o <<2 + w>>
    BY Zenon, <1>3, <1>4, <2>1
  <2>4. HasTotal(<<2 + u>> \o <<2 + w>>, (2 + u) + (2 + w))
    BY Zenon, <1>2, TotalOne, TotalPieces
  <2> QED
    BY Zenon, <1>1, <2>2, <2>3, <2>4
<1>5. CASE u > 0 /\ ~ (w > 0)
  <2>1. WrittenStrings(<<u>> \o <<>>) = <<2 + u>>
    BY SMT, <1>2 DEF WrittenStrings
  <2>2. L(u, w) = 2 + u
    BY SMT, <1>2, <1>5
  <2>3. LoginPieces(p) = <<2 + u>>
    BY Zenon, <1>3, <1>5, <2>1
  <2> QED
    BY Zenon, <1>1, <1>2, <2>2, <2>3, TotalOne
<1>6. CASE ~ (u > 0) /\ w > 0
  <2>1. WrittenStrings(<<>> \o <<w>>) = <<2 + w>>
    BY SMT, <1>2 DEF WrittenStrings
  <2>2. L(u, w) = 2 + w
    BY SMT, <1>2, <1>6
  <2>3. LoginPieces(p) = <<2 + w>>
    BY Zenon, <1>3, <1>6, <2>1
  <2> QED
    BY Zenon, <1>1, <1>2, <2>2, <2>3, TotalOne
<1>7. CASE ~ (u > 0) /\ ~ (w > 0)
  <2>1. WrittenStrings(<<>> \o <<>>) = <<>>
    BY SMT DEF WrittenStrings
  <2>2. L(u, w) = 0
    BY SMT, <1>2, <1>7
  <2>3. LoginPieces(p) = <<>>
    BY Zenon, <1>3, <1>7, <2>1
  <2> QED
    BY Zenon, <1>1, <2>2, <2>3, TotalOfNone
<1> QED
  BY Zenon, <1>4, <1>5, <1>6, <1>7

\* Every packet puts as many bytes into the buffer as its len says.
LEMMA LengthIsWritten ==
    ASSUME NEW p, NEW protocol, p.ty \in ClientPackets,
           {p.qos, p.text, p.payload, p.user, p.password} \subseteq Nat
    PROVE  LenOf(p, protocol) = Total(Pieces(p, protocol))
<1> DEFINE props == WrittenProperties(protocol)
           np == NoProperties(protocol)
           text == WrittenStrings(<<p.text>>)
<1>1. p.qos \in Nat /\ p.text \in Nat /\ p.payload \in Nat /\ p.user \in Nat
      /\ p.password \in Nat
  BY Zenon
<1>2. HasTotal(props, np)
  BY Zenon, WrittenPropertyLength
<1>3. HasTotal(text, 2 + p.text)
  <2>1. 2 + p.text \in Nat
    BY SMT, <1>1
  <2> QED
    BY Zenon, <1>1, <2>1, WrittenString, TotalOne
<1>4. HasTotal(<<1>>, 1) /\ HasTotal(<<2>>, 2) /\ HasTotal(<<6>>, 6)
  <2>1. 1 \in Nat /\ 2 \in Nat /\ 6 \in Nat
    BY SMT
  <2> QED
    BY Zenon, <2>1, TotalOne
<1>5. CASE p.ty = "Connect"
  <2>1. /\ Pieces(p, protocol) = ConnectPieces(p, protocol)
        /\ LenOf(p, protocol) = ConnectLen(p, protocol)
    BY SMT, <1>5 DEF Pieces, LenOf, Acks
  <2>2. /\ ConnectPieces(p, protocol) =
            WrittenStrings(<<4>>) \o <<1, 1, 2>> \o props \o text \o LoginPieces(p)
        /\ ConnectLen(p, protocol) =
            StringLen(4) + 1 + 1 + 2 + np + StringLen(p.text) + LoginLen(p)
    BY Zenon DEF ConnectPieces, ConnectLen
  <2> HIDE DEF props, np, text
  <2>3. WrittenStrings(<<4>>) = <<6>> /\ <<1, 1, 2>> = (<<1>> \o <<1>>) \o <<2>>
    BY SMT DEF WrittenStrings
  <2>4. HasTotal(LoginPieces(p), LoginLen(p))
    BY Zenon, <1>1, LoginIsWritten
  <2>5. HasTotal(<<6>> \o ((<<1>> \o <<1>>) \o <<2>>), 6 + ((1 + 1) + 2))
    BY Zenon, <1>4, TotalPieces
  <2>6. HasTotal(<<6>> \o ((<<1>> \o <<1>>) \o <<2>>) \o props \o text \o LoginPieces(p),
                 (((6 + ((1 + 1) + 2)) + np) + (2 + p.text)) + LoginLen(p))
    BY Zenon, <1>2, <1>3, <2>4, <2>5, TotalPieces
  <2>7. Total(Pieces(p, protocol)) =
            (((6 + ((1 + 1) + 2)) + np) + (2 + p.text)) + LoginLen(p)
    BY Zenon, <2>1, <2>2, <2>3, <2>6 DEF HasTotal
  <2>8. np \in Nat /\ LoginLen(p) \in Nat
    BY Zenon, <1>2, <2>4 DEF HasTotal
  <2> QED
    BY SMT, <1>1, <2>1, <2>2, <2>7, <2>8 DEF StringLen
<1>6. CASE p.ty = "Publish"
  <2> DEFINE id == IF p.qos = 0 THEN <<>> ELSE <<2>>
             il == IF p.qos > 0 THEN 2 ELSE 0
  <2>1. /\ Pieces(p, protocol) = PublishPieces(p, protocol)
        /\ LenOf(p, protocol) = PublishLen(p, protocol)
    BY SMT, <1>6 DEF Pieces, LenOf, Acks
  <2>2. /\ PublishPieces(p, protocol) = text \o id \o props \o <<p.payload>>
        /\ PublishLen(p, protocol) = StringLen(p.text) + p.payload + il + np
    BY Zenon DEF PublishPieces, PublishLen
  <2>3. HasTotal(id, il) /\ il \in Nat
    <3>1. CASE p.qos = 0
      <4>1. id = <<>> /\ il = 0
        BY SMT, <3>1
      <4> QED
        BY SMT, <4>1, TotalOfNone
    <3>2. CASE p.qos # 0
      <4>1. id = <<2>> /\ il = 2
        BY SMT, <1>1, <3>2
      <4> QED
        BY SMT, <4>1, <1>4
    <3> QED
      BY Zenon, <3>1, <3>2
  <2> HIDE DEF props, np, text, id, il
  <2>4. HasTotal(text \o id \o props \o <<p.payload>>, (((2 + p.text) + il) + np) + p.payload)
    BY Zenon, <1>1, <1>2, <1>3, <2>3, TotalOne, TotalPieces
  <2>5. Total(Pieces(p, protocol)) = (((2 + p.text) + il) + np) + p.payload
    BY Zenon, <2>1, <2>2, <2>4 DEF HasTotal
  <2>6. np \in Nat
    BY Zenon, <1>2 DEF HasTotal
  <2> QED
    <3>1. LenOf(p, protocol) = 2 + p.text + p.payload + il + np
      BY Zenon, <2>1, <2>2 DEF StringLen
    <3>2. p.text \in Nat /\ p.payload \in Nat /\ il \in Nat /\ np \in Nat
      BY Zenon, <1>1, <2>3, <2>6
    <3>3. 2 + p.text + p.payload + il + np = (((2 + p.text) + il) + np) + p.payload
      BY SMT, <3>2
    <3> QED
      BY Zenon, <2>5, <3>1, <3>3
<1>7. CASE p.ty = "Subscribe"
  <2>1. /\ Pieces(p, protocol) = SubscribePieces(p, protocol)
        /\ LenOf(p, protocol) = SubscribeLen(p, protocol)
    BY SMT, <1>7 DEF Pieces, LenOf, Acks
  <2>2. /\ SubscribePieces(p, protocol) = <<2>> \o props \o text \o <<1>>
        /\ SubscribeLen(p, protocol) = 2 + np + (StringLen(p.text) + 1)
    BY Zenon DEF SubscribePieces, SubscribeLen, FilterLen
  <2> HIDE DEF props, np, text
  <2>3. HasTotal(<<2>> \o props \o text \o <<1>>, ((2 + np) + (2 + p.text)) + 1)
    BY Zenon, <1>2, <1>3, <1>4, TotalPieces
  <2>4. Total(Pieces(p, protocol)) = ((2 + np) + (2 + p.text)) + 1
    BY Zenon, <2>1, <2>2, <2>3 DEF HasTotal
  <2>5. np \in Nat
    BY Zenon, <1>2 DEF HasTotal
  <2> QED
    BY SMT, <1>1, <2>1, <2>2, <2>4, <2>5 DEF StringLen
<1>8. CASE p.ty = "Unsubscribe"
  <2>1. /\ Pieces(p, protocol) = UnsubscribePieces(p, protocol)
        /\ LenOf(p, protocol) = UnsubscribeLen(p, protocol)
    BY SMT, <1>8 DEF Pieces, LenOf, Acks
  <2>2. /\ UnsubscribePieces(p, protocol) = <<2>> \o props \o text
        /\ UnsubscribeLen(p, protocol) = 2 + np + StringLen(p.text)
    BY Zenon DEF UnsubscribePieces, UnsubscribeLen, PathLen
  <2> HIDE DEF props, np, text
  <2>3. HasTotal(<<2>> \o props \o text, (2 + np) + (2 + p.text))
    BY Zenon, <1>2, <1>3, <1>4, TotalPieces
  <2>4. Total(Pieces(p, protocol)) = (2 + np) + (2 + p.text)
    BY Zenon, <2>1, <2>2, <2>3 DEF HasTotal
  <2>5. np \in Nat
    BY Zenon, <1>2 DEF HasTotal
  <2> QED
    BY SMT, <1>1, <2>1, <2>2, <2>4, <2>5 DEF StringLen
<1>9. CASE p.ty \in Acks
  <2>1. Pieces(p, protocol) = <<2>> /\ LenOf(p, protocol) = 2
    BY SMT, <1>9 DEF Pieces, LenOf, AckLen, Acks
  <2> QED
    BY Zenon, <1>4, <2>1 DEF HasTotal
<1>10. CASE p.ty \in {"PingReq", "Disconnect"}
  <2>1. Pieces(p, protocol) = <<>> /\ LenOf(p, protocol) = 0
    BY SMT, <1>10 DEF Pieces, LenOf, Acks
  <2> QED
    BY Zenon, <2>1, TotalOfNone DEF HasTotal
<1> QED
  BY Zenon, <1>5, <1>6, <1>7, <1>8, <1>9, <1>10 DEF ClientPackets
=============================================================================
