------------------------------ MODULE SubBlock ------------------------------
(***************************************************************************)
(* getSubBlock of pack.c: how a text is split into p parts along its line  *)
(* ends.  The text is what loadFile leaves in memory: lines, each closed   *)
(* by '\n', and a '\0' behind the last.  Only the positions of the '\n'    *)
(* matter to the split, so a text is the sequence of its lines' lengths.   *)
(* Positions count from 0, as the C pointers do from blk->start.           *)
(***************************************************************************)
EXTENDS Integers, Sequences, FiniteSetsExt

CONSTANTS UIntSpace,  \* how many values an unsigned int has, 2^32 in the program
          MostParts   \* more parts than these are none at all, 128 in the program

ASSUME SplitAssumption == {UIntSpace, MostParts} \subseteq Nat \ {0}

\* Where line i of the text starts; Len(lines) + 1 stands for the '\0'.
LineStart(lines, i) ==
    LET Start[k \in 1..(Len(lines) + 1)] ==
            IF k = 1 THEN 0 ELSE Start[k - 1] + lines[k - 1] + 1
    IN  Start[i]

\* blk->length
Length(lines) == LineStart(lines, Len(lines) + 1) + 1

NewlineOf(lines, i) == LineStart(lines, i) + lines[i]
Newlines(lines) == {NewlineOf(lines, i) : i \in DOMAIN lines}

\* The positions at which a line, or the final '\0', starts.
Starts(lines) == {LineStart(lines, i) : i \in 1..(Len(lines) + 1)}

\* unsigned int l = blk->length / p, a quotient of unsigned longs.
PartLength(lines, p) == (Length(lines) \div p) % UIntSpace

\* Where the search for part n begins: n*l is an unsigned int, too, while l is then
\* added to a pointer.
PartStart(lines, n, p) == (n * PartLength(lines, p)) % UIntSpace

NoBlock == [start |-> 0, length |-> 0]

\* while (pos < E && pos[-1] != '\n') pos++; the byte before the text is no '\n'.
Advance(newlines, pos, E) ==
    LET ahead == {q \in newlines : q >= pos - 1 /\ q + 1 < E}
    IN  IF ahead = {} THEN E ELSE Min(ahead) + 1

\* Mutant: the last part ends like the others.
BlockOfNoTail(s, e, E, last) ==
    IF s = e THEN NoBlock ELSE [start |-> s, length |-> e - s]

\* The block from s; the last part takes everything up to the end.  A part whose
\* start and end coincide is left as it was: no block.
BlockOf(s, e, E, last) ==
    IF s = e THEN NoBlock
    ELSE [start |-> s, length |-> (IF last THEN E ELSE e) - s]

\* Mutant: the start of a part is not moved to the next line.
GetSubBlockUnsearched(lines, n, p) ==
    LET E == Length(lines)
        l == PartLength(lines, p)
        s == PartStart(lines, n, p)
        e == Advance(Newlines(lines), s + l, E)
    IN  IF n > p - 1 \/ p > MostParts THEN NoBlock ELSE BlockOf(s, e, E, n = p - 1)

\* getSubBlock(blk, sub, n, p) on a text nobody else touches.
GetSubBlock(lines, n, p) ==
    LET E == Length(lines)
        l == PartLength(lines, p)
        from == PartStart(lines, n, p)
        s == IF n > 0 THEN Advance(Newlines(lines), from, E) ELSE from
        e == Advance(Newlines(lines), from + l, E)
    IN  IF n > p - 1 \/ p > MostParts THEN NoBlock ELSE BlockOf(s, e, E, n = p - 1)
=============================================================================
