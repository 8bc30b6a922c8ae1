-------------------------- MODULE MCBinaryLoaderC --------------------------
(* Files of up to three lines out of seven, the last of them perhaps       *)
(* without its end.  The keys have four, three, two and one bytes.         *)
EXTENDS BinaryLoaderC

FourBytes  == <<255, 128, 1, 63>>
ThreeBytes == <<251, 0, 90>>
TwoBytes   == <<64, 200>>
OneByte    == <<3>>
SomeKeys   == {FourBytes, ThreeBytes, TwoBytes, OneByte}

Bare(k) == SelectSeq(Encode(k), LAMBDA x : x # Pad)

Seg1 == <<53>>
Seg2 == <<54>>
Seg3 == <<55, 52>>
One(k, val) == k \o <<Tab, Space>> \o val \o <<NewLine>>

Lines == {
    One(Encode(FourBytes), Seg1 \o <<Slash>> \o Seg2),
    One(Bare(FourBytes), Seg2 \o <<Slash>> \o Seg2 \o <<Slash>> \o Seg3),
    One(Bare(ThreeBytes), Seg3),
    One(Bare(TwoBytes), <<>>),                                    \* segment 0
    One(Encode(OneByte), Seg1 \o <<Slash, Slash>> \o Seg1 \o <<Slash>>),
    Bare(OneByte) \o <<Tab>> \o Seg1 \o <<NewLine>>,              \* no space
    One(Bare(OneByte), Seg1)}

Cut(l) == SubSeq(l, 1, Len(l) - 1)
FewLines == {<<l>> : l \in Lines} \cup {<<l, m>> : l, m \in Lines}
         \cup {<<l, m, n>> : l, m \in Lines, n \in Lines \cup {Cut(n) : n \in Lines}}

Zeros == [n \in 1..Capacity |-> Nul]
AnEntry == [n \in 1..Capacity |-> IF n <= Len(One(Bare(TwoBytes), Seg2))
                                  THEN One(Bare(TwoBytes), Seg2)[n] ELSE Nul]
Memories == {Zeros, AnEntry}
=============================================================================
