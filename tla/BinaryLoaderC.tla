--------------------------- MODULE BinaryLoaderC ---------------------------
(***************************************************************************)
(* binary-loader-c: reads entries line by line from its standard input,    *)
(* decodes the key of each, gives every segment a code of two bytes and    *)
(* counts the entries per code.                                            *)
(*                                                                         *)
(* A line is a sequence of symbols: the letters of base64 and the other    *)
(* symbols a line is parsed by; NewLine is '\n' or '\r'.  A letter of 52    *)
(* to 61 is a digit.  All lines are read into one buffer that getline      *)
(* never clears: behind the end of a line, after its terminating Nul,      *)
(* stands what the longer lines before it left there, and behind that what *)
(* the memory held when it was allocated.  The parser goes through the     *)
(* whole buffer until it finds a line end.                                 *)
(*                                                                         *)
(* The two tables are maps: no key is ever deleted from them (KHash has    *)
(* the tables themselves).  An insertion may fail for want of memory.      *)
(***************************************************************************)
EXTENDS Base64, FiniteSets

CONSTANTS
    Tab, Space, Slash, NewLine, Nul,
    Files,        \* the inputs: sequences of lines
    Capacity,     \* the size getline gives the buffer: no line here exceeds it
    Leftovers,    \* what the memory of the buffer may hold at first
    KeySpace,     \* sizeof(d) in decodeKey
    ShortSpace,    \* the number of values of an unsigned short
    MaxSegs,      \* MAX_SEGS_PER_ENTRY
    KeyBytes,     \* the keys the producers of the files encode
    MaxFailures   \* bound: the insertions that fail

ASSUME SizesAssumption == /\ {Capacity, KeySpace, ShortSpace, MaxSegs} \subseteq Nat \ {0}
                          /\ ShortSpace > 1 /\ MaxFailures \in Nat
ASSUME FilesAssumption ==
    \A f \in Files :
        /\ f \in Seq({f[l] : l \in DOMAIN f})
        /\ \A l \in DOMAIN f : /\ f[l] \in Seq({f[l][n] : n \in DOMAIN f[l]})
                              /\ Len(f[l]) < Capacity /\ \A n \in DOMAIN f[l] : f[l][n] # Nul
\* The keys are short enough for d; longer ones base64_decode refuses.
ASSUME KeysAssumption ==
    \A k \in KeyBytes : k \in Seq(0..255) /\ ((Len(k) + 2) \div 3) * 3 <= KeySpace
ASSUME LeftoversAssumption == Leftovers \subseteq [1..Capacity -> Alphabet \cup {Tab, Space, Slash, NewLine, Nul}]

VARIABLES
    file,        \* the input
    next,        \* the line getline reads next
    buffer,      \* line, all size characters of it
    key,         \* the key decoded last, d of decodeKey
    segs,        \* the segments of the entry at hand still to be counted
    seg_index,   \* from segments to codes
    last_index,  \* the code of the next new segment
    seg_counter, \* from codes to numbers of entries
    dead,        \* segs of decodeVal has been written past its end
    failures     \* the insertions that failed

mainVars == <<file, next, buffer, key, segs, seg_index, last_index, seg_counter, dead, failures>>
-----------------------------------------------------------------------------
(* parseEntry. *)
LastOf(S)   == IF S = {} THEN 0 ELSE CHOOSE n \in S : \A m \in S : m <= n

\* The first line end in the buffer, 0 when there is none.
LineEnd(b) ==
    IF \E n \in DOMAIN b : b[n] = NewLine
    THEN CHOOSE n \in DOMAIN b : b[n] = NewLine /\ \A m \in 1..(n - 1) : b[m] # NewLine
    ELSE 0

\* The last tab and the last space before it, 0 when there is none.
LastTab(b)   == LastOf({n \in 1..(LineEnd(b) - 1) : b[n] = Tab})
LastSpace(b) == LastOf({n \in 1..(LineEnd(b) - 1) : b[n] = Space})

WellFormed(b) == LineEnd(b) > 0 /\ LastTab(b) > 0 /\ LastSpace(b) > 0

\* strndup: n characters from the first on, or those up to a Nul.
Dup(b, first, n) ==
    LET s == SubSeq(b, first, first + n - 1)
    IN  IF \E m \in DOMAIN s : s[m] = Nul
        THEN SubSeq(s, 1, (CHOOSE m \in DOMAIN s : s[m] = Nul /\ \A l \in 1..(m - 1) : s[l] # Nul) - 1)
        ELSE s

KeyOf(b) == Dup(b, 1, LastTab(b) - 1)
ValOf(b) == Dup(b, LastSpace(b) + 1, LineEnd(b) - LastSpace(b) - 1)
-----------------------------------------------------------------------------
(* decodeVal. *)

\* atoi: the digits a piece starts with, after white space.
IsDigit(x) == x \in 52..61
Number(s, n) ==
    LET Value[m \in 0..n] == IF m = 0 THEN 0 ELSE (10 * Value[m - 1]) + s[m] - 52 IN Value[n]
Atoi(s) ==
    LET skip == CHOOSE n \in 0..Len(s) :
                   /\ \A m \in 1..n : s[m] \in {Space, Tab}
                   /\ n < Len(s) => s[n + 1] \notin {Space, Tab}
        rest == SubSeq(s, skip + 1, Len(s))
    IN  Number(rest, CHOOSE n \in 0..Len(rest) :
                   /\ \A m \in 1..n : IsDigit(rest[m])
                   /\ n < Len(rest) => ~IsDigit(rest[n + 1]))

\* Where the pieces of a value start, the first with it and the others behind a
\* slash, and the segments the pieces stand for.
Slashes(v) == {n \in DOMAIN v : v[n] = Slash}
Piece(v, n) == LET after == {m \in Slashes(v) : m >= n}
                   last  == IF after = {} THEN Len(v)
                            ELSE (CHOOSE m \in after : \A l \in after : m <= l) - 1
               IN  SubSeq(v, n, last)
Starts(v)   == {1} \cup {n + 1 : n \in Slashes(v)}
SegmentsIn(v) ==
    LET Nth(i) == CHOOSE n \in Starts(v) : Cardinality({m \in Starts(v) : m < n}) = i - 1
    IN  [i \in 1..Cardinality(Starts(v)) |-> Atoi(Piece(v, Nth(i)))]
-----------------------------------------------------------------------------
MainInit ==
    /\ file \in Files /\ next = 1
    /\ buffer \in Leftovers
    /\ key = <<>> /\ segs = <<>>
    /\ seg_index = [s \in {} |-> 0] /\ last_index = 1
    /\ seg_counter = [c \in {} |-> 0]
    /\ dead = FALSE /\ failures = 0

\* getline: the line and a Nul, before what was there.
Filled(b, l) == [n \in 1..Capacity |-> IF n <= Len(l) THEN l[n]
                                       ELSE IF n = Len(l) + 1 THEN Nul ELSE b[n]]

\* main: one line.  Without a tab, a space and a line end it is skipped.
ReadLine ==
    LET b == Filled(buffer, file[next])
        s == SegmentsIn(ValOf(b))
    IN  /\ ~dead /\ segs = <<>> /\ next <= Len(file)
        /\ buffer' = b /\ next' = next + 1
        /\ IF WellFormed(b)
           THEN /\ key' = Decode(KeyOf(b), KeySpace)
                /\ dead' = (Len(s) > MaxSegs)
                /\ segs' = IF dead' THEN <<>> ELSE s
           ELSE UNCHANGED <<key, dead, segs>>
        /\ UNCHANGED <<file, seg_index, last_index, seg_counter, failures>>

\* Mutant: the code is taken again although the segment has one.
Reindexed(s) == [code |-> last_index, index |-> [x \in DOMAIN seg_index \cup {s} |->
                    IF x = s THEN last_index ELSE seg_index[x]],
                 last |-> (last_index + 1) % ShortSpace]

\* segIndexation, when the insertion does not fail.
Indexed(s) ==
    IF s \in DOMAIN seg_index
    THEN [code |-> seg_index[s], index |-> seg_index, last |-> last_index]
    ELSE [code |-> last_index, index |-> [x \in DOMAIN seg_index \cup {s} |->
             IF x = s THEN last_index ELSE seg_index[x]],
          last |-> (last_index + 1) % ShortSpace]

\* segIndexation, when it does: 0 is the code, and nothing is kept.
NotIndexed == [code |-> 0, index |-> seg_index, last |-> last_index]

\* segCount, when the insertion does not fail.
Counted(code) == [c \in DOMAIN seg_counter \cup {code} |->
    IF c # code THEN seg_counter[c]
    ELSE IF code \in DOMAIN seg_counter THEN seg_counter[code] + 1 ELSE 1]

\* A table may have to grow for any key, new or not: kh_put makes room before
\* it looks for the key.
CountSegment ==
    /\ segs # <<>> /\ segs' = Tail(segs)
    /\ \E fails \in SUBSET {"index", "count"} :
          LET id == IF "index" \in fails THEN NotIndexed ELSE Indexed(Head(segs)) IN
          /\ failures + Cardinality(fails) <= MaxFailures
          /\ failures' = failures + Cardinality(fails)
          /\ seg_index' = id.index /\ last_index' = id.last
          /\ seg_counter' = IF "count" \in fails THEN seg_counter ELSE Counted(id.code)
    /\ UNCHANGED <<file, next, buffer, key, dead>>

MainNext == ReadLine \/ CountSegment

MainSpec == MainInit /\ [][MainNext]_mainVars
-----------------------------------------------------------------------------
(* What the lines say, one by one and whatever was in the buffer before.   *)
CleanSegments(l) == IF WellFormed(l) THEN SegmentsIn(ValOf(l)) ELSE <<>>
Occurrences(s) ==
    Cardinality({p \in (1..(next - 1)) \X (1..MaxSegs) :
        p[2] <= Len(CleanSegments(file[p[1]])) /\ CleanSegments(file[p[1]])[p[2]] = s})
Pending(s) == Cardinality({n \in DOMAIN segs : segs[n] = s})
CountOf(s) == IF s \in DOMAIN seg_index /\ seg_index[s] \in DOMAIN seg_counter
              THEN seg_counter[seg_index[s]] ELSE 0

Terminated == \A n \in 1..(next - 1) : NewLine \in {file[n][m] : m \in DOMAIN file[n]}

(* The counter under the code of a segment says in how many places of the  *)
(* lines read so far the segment stands, less one for each insertion that  *)
(* failed: as long as every line had an end, none too many segments, and   *)
(* the codes have not wrapped round.  A last line without an end is parsed *)
(* on into what older lines left in the buffer.                            *)
CountsExact ==
    (~dead /\ Terminated /\ (Cardinality(DOMAIN seg_index) < ShortSpace
                            \/ (failures = 0 /\ Cardinality(DOMAIN seg_index) = ShortSpace)))
    => \A s \in DOMAIN seg_index \cup {segs[n] : n \in DOMAIN segs} :
          (Occurrences(s) - Pending(s)) - CountOf(s) \in 0..failures

\* The letters of n bytes: six bits each.
Unpadded(k) == SubSeq(Encode(k), 1, ((4 * Len(k)) + 2) \div 3)

(* A key that was encoded, with or without its padding, is decoded to the  *)
(* same bytes, whatever lengths and letters it has.                        *)
KeysDecoded ==
    next > 1 /\ Terminated /\ WellFormed(file[next - 1]) =>
        \A k \in KeyBytes :
            KeyOf(file[next - 1]) \in {Encode(k), Unpadded(k)}
            => key = k
=============================================================================
