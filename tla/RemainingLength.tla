-------------------------- MODULE RemainingLength --------------------------
(***************************************************************************)
(* The variable byte integer of MQTT, with which a packet says how long it *)
(* is: seven bits to a byte, the least significant first, and in the       *)
(* eighth bit whether another byte follows.                                *)
(***************************************************************************)
EXTENDS Integers, Sequences

CONSTANT Lengths    \* the lengths whose coding is looked at

ASSUME LengthsAssumption == Lengths \subseteq Nat

Byte == 0..255

\* The values of the continuation bit and of the positions of the seven bits.
More == 128
Weight == <<1, 128, 16384, 2097152, 268435456>>

\* The longest length that four bytes can say.
MaxLength == 268435455

----------------------------------------------------------------------------
\* len_len(len): how many bytes the code thinks len takes.
LenLenOffByOne(len) ==                                   \* mutant
    IF len > 2097152 THEN 4
    ELSE IF len > 16384 THEN 3
    ELSE IF len > 128 THEN 2
    ELSE 1
LenLen(len) ==
    IF len >= 2097152 THEN 4
    ELSE IF len >= 16384 THEN 3
    ELSE IF len >= 128 THEN 2
    ELSE 1

\* write_remaining_length(stream, len): the loop divides by 128 until nothing
\* is left, Count(len) times; it has no limit (five is enough for 2^35).
Count(len) ==
    IF len < 128 THEN 1
    ELSE IF len < 16384 THEN 2
    ELSE IF len < 2097152 THEN 3
    ELSE IF len < 268435456 THEN 4
    ELSE 5

WriteRemainingLength(len) ==
    [i \in 1..Count(len) |->
        LET digit == (len \div Weight[i]) % 128
        IN  IF i < Count(len) THEN digit + More ELSE digit]

----------------------------------------------------------------------------
Insufficient == [status |-> "InsufficientBytes", len_len |-> 0, len |-> 0]
Malformed == [status |-> "MalformedRemainingLength", len_len |-> 0, len |-> 0]
Decoded(len_len, len) == [status |-> "Ok", len_len |-> len_len, len |-> len]

\* The bytes of s from the first one end with the k-th.
EndsAt(s, k) ==
    /\ k <= Len(s)
    /\ s[k] < More
    /\ \A i \in 1..(k - 1) : s[i] >= More

\* The sum of the seven bits of the first k bytes, each at its position.
Value(s, k) ==
      (s[1] % 128)
    + (IF k >= 2 THEN (s[2] % 128) * 128 ELSE 0)
    + (IF k >= 3 THEN (s[3] % 128) * 16384 ELSE 0)
    + (IF k >= 4 THEN (s[4] % 128) * 2097152 ELSE 0)

\* length(stream): the loop ends with a byte that has no continuation bit, fails
\* after four that have it, and lacks bytes when the stream ends before that.
Length(s) ==
    IF \E k \in 1..4 : EndsAt(s, k)
    THEN LET k == CHOOSE k \in 1..4 : EndsAt(s, k) IN Decoded(k, Value(s, k))
    ELSE IF Len(s) >= 4 THEN Malformed ELSE Insufficient

----------------------------------------------------------------------------
(***************************************************************************)
(* Properties.                                                             *)
(***************************************************************************)

\* What write_remaining_length has written for n is read back as n, whatever
\* bytes follow, and takes the bytes that len_len says; a length that is too
\* long is written without complaint, but read as malformed.
ReadsBack(n, rest) ==
    Length(WriteRemainingLength(n) \o rest)
        = IF n <= MaxLength THEN Decoded(LenLen(n), n) ELSE Malformed

\* A length of which bytes are missing is not taken for another one.
WaitsForTheRest(n) ==
    n <= MaxLength =>
        \A k \in 0..(Count(n) - 1) :
            Length(SubSeq(WriteRemainingLength(n), 1, k)) = Insufficient

\* Both, for all lengths that are looked at.
LengthsReadBack ==
    \A n \in Lengths :
        /\ \A rest \in {<<>>} \cup {<<b>> : b \in Byte} : ReadsBack(n, rest)
        /\ WaitsForTheRest(n)

============================================================================
