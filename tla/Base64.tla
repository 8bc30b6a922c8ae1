------------------------------- MODULE Base64 -------------------------------
(***************************************************************************)
(* base64.c, the base64 of binary-loader-c.  A letter of the alphabet is   *)
(* its value, 0 to 63; Pad is '='; every other character is no letter.     *)
(* The bytes are 0 to 255.                                                 *)
(***************************************************************************)
EXTENDS Integers, Sequences

CONSTANT Pad

\* base64_maps_rfc4648: the characters that stand for six bits.
Alphabet == 0..63

ASSUME PadAssumption == Pad \notin Alphabet

\* The answer of a decoding that fails, -1.
Failed == << -1 >>

\* base64_encode_triplet_using_maps.
Triplet(a, b, c) ==
    << a \div 4, ((a % 4) * 16) + (b \div 16), (c \div 64) + ((b % 16) * 4), c % 64 >>

\* base64_encode_using_maps: the last triplet is filled up with zeros, and the
\* letters that hold nothing but these are replaced by '='.
Encode(src) ==
    LET Byte(n)  == IF n <= Len(src) THEN src[n] ELSE 0
        blocks   == (Len(src) + 2) \div 3
        Letter(b, p) == Triplet(Byte((3 * b) + 1), Byte((3 * b) + 2), Byte((3 * b) + 3))[p]
    IN  [i \in 1..(4 * blocks) |->
            LET b == (i - 1) \div 4
                p == ((i - 1) % 4) + 1
            IN  IF (3 * b) + p - 1 > Len(src) THEN Pad ELSE Letter(b, p)]

\* base64_decode_quartet_using_maps.
Quartet(q) ==
    IF \E p \in 1..4 : q[p] \notin Alphabet THEN Failed
    ELSE << ((q[1] * 4) % 256) + (q[2] \div 16), ((q[2] % 16) * 16) + (q[3] \div 4),
            ((q[3] % 4) * 64) + q[4] >>

\* base64_decode_tail_using_maps: padding is dropped, the rest filled up with
\* 'A'; one letter alone is an error, none at all is not.
Tail4(src) ==
    LET kept  == CHOOSE n \in 0..Len(src) :
                    /\ n > 0 => src[n] # Pad
                    /\ \A m \in (n + 1)..Len(src) : src[m] = Pad
        three == Quartet([p \in 1..4 |-> IF p <= kept THEN src[p] ELSE 0])
    IN  IF kept = 0 THEN <<>>
        ELSE IF kept = 1 \/ three = Failed THEN Failed
        ELSE SubSeq(three, 1, kept - 1)

\* Mutant: the last four letters are not left to the tail.
EagerDecode(src, destlen) ==
    LET full == Len(src) \div 4
        Part(b) == Quartet(SubSeq(src, (4 * b) + 1, (4 * b) + 4))
        tail == Tail4(SubSeq(src, (4 * full) + 1, Len(src)))
    IN  IF \/ destlen < ((Len(src) + 3) \div 4) * 3 \/ tail = Failed
           \/ \E b \in 0..(full - 1) : Part(b) = Failed
        THEN Failed
        ELSE [n \in 1..(3 * full) |-> Part((n - 1) \div 3)[((n - 1) % 3) + 1]] \o tail

\* base64_decode_using_maps: quartets while more than four characters are left,
\* then the tail.
Decode(src, destlen) ==
    LET full == IF src = <<>> THEN 0 ELSE (Len(src) - 1) \div 4
        Part(b) == Quartet(SubSeq(src, (4 * b) + 1, (4 * b) + 4))
        tail == Tail4(SubSeq(src, (4 * full) + 1, Len(src)))
    IN  IF \/ destlen < ((Len(src) + 3) \div 4) * 3 \/ tail = Failed
           \/ \E b \in 0..(full - 1) : Part(b) = Failed
        THEN Failed
        ELSE [n \in 1..(3 * full) |-> Part((n - 1) \div 3)[((n - 1) % 3) + 1]] \o tail
=============================================================================
