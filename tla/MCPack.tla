------------------------------- MODULE MCPack -------------------------------
(***************************************************************************)
(* Small files for pack: the text as loadFile leaves it, the last line     *)
(* being the empty one it adds.                                            *)
(***************************************************************************)
EXTENDS Pack, TLC

CONSTANTS k1, k2, k3, k4, gA, gB,
          MaxLines,      \* bound: lines of a text the split is tried on
          MaxLineLength  \* bound: characters of such a line

Entry(len, k, segs) == [len |-> len, form |-> "entry", key |-> k, segs |-> segs]
Plain(len, form) == [len |-> len, form |-> form, key |-> k1, segs |-> <<gA>>]

\* Three entries of about the same length and a line without a tab.
Mixed == << Entry(4, k1, <<gA, gB>>), Entry(4, k2, <<gB>>),
            Plain(2, "no_tab"), Entry(3, k3, <<gB>>), Plain(0, "no_tab") >>

\* An entry that fills more than one part.
Skewed == << Entry(7, k1, <<gA, gB>>), Entry(3, k2, <<gA>>), Plain(0, "no_tab") >>

\* Three entries of one length.
Even == << Entry(4, k1, <<gA>>), Entry(4, k2, <<gA>>), Entry(4, k3, <<gB>>),
           Plain(0, "no_tab") >>

Bare == << Entry(4, k1, <<gA>>), Plain(3, "bare"), Plain(0, "no_tab") >>

\* A key longer than the buffer for keys.
LongKey == << Entry(9, k4, <<gA>>), Entry(4, k1, <<gA>>), Plain(0, "no_tab") >>

\* Too long for the places of three parts: the third part begins in the first line.
Long == << Entry(6, k1, <<gA>>), Entry(6, k2, <<gB>>), Entry(6, k3, <<gA>>), Plain(0, "no_tab") >>

\* The texts of the run, and that of the disagreement.
All == {Mixed, Skewed, Even, Bare, LongKey, Long}
Uniform == {Even}

KeyLengths == k1 :> 1 @@ k2 :> 2 @@ k3 :> 1 @@ k4 :> 7

\* The small texts the split is tried on, as the lengths of their lines.
Small == UNION {[1..k -> 0..MaxLineLength] : k \in 1..MaxLines} \cup {<<6, 6, 6, 6>>}
=============================================================================
