-------------------------------- MODULE Pack --------------------------------
(***************************************************************************)
(* pack.c: the text of a file is split into nthr parts (getSubBlock,       *)
(* module SubBlock) and each part is parsed by one call of parser; kt_for  *)
(* (module KtFor) makes each call once and runs calls at the same time.    *)
(* The calls share the text: a parser overwrites the ends of its lines,    *)
(* the tabs and the spaces by '\0' while another one may still be looking  *)
(* for line ends or parsing the same line.  A step is one search in the    *)
(* shared text, or one store into it.                                      *)
(*                                                                         *)
(* A line is [len, form, key, segs]: its length, "entry", "no_tab" or      *)
(* "bare" (no space behind the tab), its key and its sequence of segments. *)
(* The flags of an entry hold spaces, one for each call that may come to   *)
(* it, as in test.txt.                                                     *)
(***************************************************************************)
EXTENDS SubBlock, Functions

CONSTANTS Texts,     \* the files pack may be given
          nthr,      \* number of parts
          FlagSegs,  \* stands for the text found where the segments should be
          KeyLen,    \* the length of each key
          KeysNew,   \* the length of the buffer keys_new allocates
          Splits,    \* the texts the split alone is tried on, as their lines' lengths
          MaxParts   \* bound: the parts they are split into

ASSUME PartsAssumption == nthr \in Nat \ {0}

Parts == 0..(nthr - 1)

ASSUME KeysAssumption == KeysNew \in Nat \ {0} /\ KeyLen \in [DOMAIN KeyLen -> Nat]

\* A text is a sequence of lines.  An entry names at least one segment.
ASSUME LinesAssumption ==
    \A file \in Texts :
        /\ file \in Seq(Range(file))
        /\ \A i \in DOMAIN file :
              /\ file[i].len \in Nat
              /\ file[i].form \in {"entry", "no_tab", "bare"}
              /\ file[i].key \in DOMAIN KeyLen
              /\ file[i].segs \in Seq(Range(file[i].segs)) \ {<<>>}

LengthsOf(file) == [i \in DOMAIN file |-> file[i].len]

\* Parts of length 0 read the byte before the text.
ASSUME TextAssumption == \A file \in Texts : PartLength(LengthsOf(file), nthr) > 0

ASSUME SplitsAssumption == Splits \subseteq Seq(Nat) /\ MaxParts \in Nat

VARIABLES text,    \* the lines of the file, which never change
          cut,     \* what has been overwritten in each line: "end", "tab", "space"
          pc,      \* where each call of parser is
          s, e,    \* the locals s and e of getSubBlock
          key,     \* the line parser is at; Len(text) + 1 is the final '\0'
          s2k,     \* the keys of each segment, a sequence per segment name
          seg,     \* the segment whose lines are printed
          out,     \* the lines printed, by all calls
          dead     \* the process has been stopped by a segmentation fault

vars == <<text, cut, pc, s, e, key, s2k, seg, out, dead>>

Lines == DOMAIN text
lengths == LengthsOf(text)
E == Length(lengths)
l == PartLength(lengths, nthr)

Uncut == {NewlineOf(lengths, i) : i \in {j \in Lines : "end" \notin cut[j]}}

\* The line a position is in.
LineAt(pos) == Max({i \in 1..(Len(text) + 1) : LineStart(lengths, i) <= pos})

Init == /\ text \in Texts
        /\ cut = [i \in Lines |-> {}]
        /\ pc = [n \in Parts |-> "none"]
        /\ s = [n \in Parts |-> PartStart(lengths, n, nthr)]
        /\ e = [n \in Parts |-> PartStart(lengths, n, nthr) + l]
        /\ key = [n \in Parts |-> 0]
        /\ s2k = [n \in Parts |-> <<>>]
        /\ seg = [n \in Parts |-> FlagSegs]
        /\ out = <<>>
        /\ dead = FALSE

\* A worker of kt_for calls parser for part n.  With too many parts getSubBlock leaves
\* the block as it was, and parser returns.
Start(n) == /\ pc[n] = "none"
            /\ pc' = [pc EXCEPT ![n] = IF nthr > MostParts THEN "done"
                                       ELSE IF n > 0 THEN "from" ELSE "to"]
            /\ UNCHANGED <<text, cut, s, e, key, s2k, seg, out, dead>>

\* One test of a search loop of getSubBlock: the next line end of the file, which
\* may have been overwritten since.
NextEnd(pos) == LET ends == {q \in Newlines(lengths) : q >= pos - 1 /\ q + 1 < E}
                IN  IF ends = {} THEN E - 1 ELSE Min(ends)

\* Mutant: a position that is not behind a line end is tested again and again.
FromStuck(n) ==
    /\ pc[n] = "from"
    /\ LET q == NextEnd(s[n])
       IN  IF q + 1 >= E THEN /\ s' = [s EXCEPT ![n] = E]
                              /\ pc' = [pc EXCEPT ![n] = "to"]
           ELSE IF q \in Uncut THEN /\ s' = [s EXCEPT ![n] = q + 1]
                                    /\ pc' = [pc EXCEPT ![n] = "to"]
           ELSE UNCHANGED <<s, pc>>
    /\ UNCHANGED <<text, cut, e, key, s2k, seg, out, dead>>

\* while (s < E && s[-1] != '\n') s++
From(n) ==
    /\ pc[n] = "from"
    /\ LET q == NextEnd(s[n])
       IN  IF q + 1 >= E THEN /\ s' = [s EXCEPT ![n] = E]
                              /\ pc' = [pc EXCEPT ![n] = "to"]
           ELSE IF q \in Uncut THEN /\ s' = [s EXCEPT ![n] = q + 1]
                                    /\ pc' = [pc EXCEPT ![n] = "to"]
           ELSE /\ s' = [s EXCEPT ![n] = q + 2]
                /\ UNCHANGED pc
    /\ UNCHANGED <<text, cut, e, key, s2k, seg, out, dead>>

\* The block getSubBlock has found.
Block(n) == BlockOf(s[n], e[n], E, n = nthr - 1)

\* Mutant: a part ends one line later.
ToFurther(n) ==
    /\ pc[n] = "to"
    /\ LET q == NextEnd(NextEnd(e[n]) + 2)
       IN  /\ e' = [e EXCEPT ![n] = q + 1]
           /\ pc' = [pc EXCEPT ![n] = IF s[n] = q + 1 THEN "done" ELSE "end"]
           /\ key' = [key EXCEPT ![n] = LineAt(s[n])]
    /\ UNCHANGED <<text, cut, s, s2k, seg, out, dead>>

\* while (e < E && e[-1] != '\n') e++, and the first line of the block.
To(n) ==
    /\ pc[n] = "to"
    /\ LET q == NextEnd(e[n])
       IN  IF q \in Uncut \/ q + 1 >= E
             THEN /\ e' = [e EXCEPT ![n] = q + 1]
                  /\ pc' = [pc EXCEPT ![n] = IF s[n] = q + 1 THEN "done" ELSE "end"]
                  /\ key' = [key EXCEPT ![n] = LineAt(s[n])]
             ELSE /\ e' = [e EXCEPT ![n] = q + 2]
                  /\ UNCHANGED <<pc, key>>
    /\ UNCHANGED <<text, cut, s, s2k, seg, out, dead>>

Cut(n, mark) == cut' = [cut EXCEPT ![key[n]] = @ \cup {mark}]

\* key = end+1, and the condition of the loop: *key != '\0' and key < E.
NextLine(n) ==
    LET k == key[n] + 1
    IN  /\ key' = [key EXCEPT ![n] = k]
        /\ pc' = [pc EXCEPT ![n] =
              IF \/ k > Len(text)
                 \/ LineStart(lengths, k) >= Block(n).start + Block(n).length
                 \/ text[k].len = 0 /\ "end" \in cut[k]
                THEN "print" ELSE "end"]

\* strchr(key, '\n'): a '\0' anywhere in the line stops the search, and the loop.
FindEnd(n) ==
    /\ pc[n] = "end"
    /\ pc' = [pc EXCEPT ![n] = IF key[n] \in Lines /\ cut[key[n]] = {}
                                 THEN "cut_end" ELSE "print"]
    /\ UNCHANGED <<text, cut, s, e, key, s2k, seg, out, dead>>

CutEnd(n) ==
    /\ pc[n] = "cut_end"
    /\ Cut(n, "end")
    /\ pc' = [pc EXCEPT ![n] = "tab"]
    /\ UNCHANGED <<text, s, e, key, s2k, seg, out, dead>>

\* strchr(key, '\t'): without a tab the line is skipped.
FindTab(n) ==
    /\ pc[n] = "tab"
    /\ IF text[key[n]].form = "no_tab" \/ "tab" \in cut[key[n]]
         THEN NextLine(n)
         ELSE pc' = [pc EXCEPT ![n] = "cut_tab"] /\ UNCHANGED key
    /\ UNCHANGED <<text, cut, s, e, s2k, seg, out, dead>>

CutTab(n) ==
    /\ pc[n] = "cut_tab"
    /\ Cut(n, "tab")
    /\ pc' = [pc EXCEPT ![n] = "space"]
    /\ UNCHANGED <<text, s, e, key, s2k, seg, out, dead>>

\* strrchr(tab+1, ' '): the space before the segments, or, when another call has
\* overwritten it, one among the flags.  Without any, the store through the null
\* pointer stops the process.
FindSpace(n) ==
    /\ pc[n] = "space"
    /\ IF text[key[n]].form = "bare"
         THEN dead' = TRUE /\ UNCHANGED pc
         ELSE /\ pc' = [pc EXCEPT ![n] = IF "space" \in cut[key[n]]
                                           THEN "cut_flag" ELSE "cut_space"]
              /\ UNCHANGED dead
    /\ UNCHANGED <<text, cut, s, e, key, s2k, seg, out>>

CutSpace(n) ==
    /\ pc[n] \in {"cut_space", "cut_flag"}
    /\ Cut(n, "space")
    /\ pc' = [pc EXCEPT ![n] = IF @ = "cut_space" THEN "file" ELSE "file_flag"]
    /\ UNCHANGED <<text, s, e, key, s2k, seg, out, dead>>

\* The tokens strtok_r finds in seg: all the segments, or only the first when
\* another call has overwritten the '/' already.
Tokens(n) == IF pc[n] = "file_flag" THEN <<FlagSegs>>
             ELSE IF "slash" \in cut[key[n]] THEN <<text[key[n]].segs[1]>>
             ELSE text[key[n]].segs

\* keys_new and keys_add: a key, a space and a zero are written behind the keys
\* there are; a buffer too short for them is doubled, once.
EmptyKeys == [used |-> 0, length |-> KeysNew, fits |-> TRUE]

\* Mutant: the space and the zero are forgotten.
KeysAddTight(k, len) ==
    LET length == IF k.used + len > k.length THEN 2 * k.length ELSE k.length
    IN  [used |-> k.used + len + 1, length |-> length,
         fits |-> k.fits /\ k.used + len + 2 <= length]

KeysAdd(k, len) ==
    LET length == IF k.used + len + 2 > k.length THEN 2 * k.length ELSE k.length
    IN  [used |-> k.used + len + 1, length |-> length,
         fits |-> k.fits /\ k.used + len + 2 <= length]

Buffer(ks) ==
    LET Filled[i \in 0..Len(ks)] ==
            IF i = 0 THEN EmptyKeys ELSE KeysAdd(Filled[i - 1], KeyLen[ks[i]])
    IN  Filled[Len(ks)]

\* kh_put: the keys of a segment, with more behind them.
Filed(hash, g, ks) ==
    [h \in DOMAIN hash \cup {g} |->
        IF h # g THEN hash[h] ELSE (IF g \in DOMAIN hash THEN hash[g] ELSE <<>>) \o ks]

\* Mutant: a segment that is new gets the place of one that is there.
FileCollides(n) ==
    /\ pc[n] \in {"file", "file_flag"}
    /\ LET k == text[key[n]].key
           g == IF DOMAIN s2k[n] = {} THEN Tokens(n)[1]
                ELSE CHOOSE h \in DOMAIN s2k[n] : TRUE
       IN  s2k' = [s2k EXCEPT ![n] = Filed(@, g, [i \in DOMAIN Tokens(n) |-> k])]
    /\ Cut(n, "slash")
    /\ NextLine(n)
    /\ UNCHANGED <<text, s, e, seg, out, dead>>

\* The loop over the segments: the key is added once for every token, but always
\* to the keys of seg, which is the first of them.  A key that is written past the
\* end of the buffer may stop the process, or may not.
File(n) ==
    /\ pc[n] \in {"file", "file_flag"}
    /\ LET k == text[key[n]].key
           g == Tokens(n)[1]
       IN  /\ s2k' = [s2k EXCEPT ![n] = Filed(@, g, [i \in DOMAIN Tokens(n) |-> k])]
           /\ dead' \in {FALSE, ~Buffer(s2k'[n][g]).fits}
    /\ Cut(n, "slash")
    /\ NextLine(n)
    /\ UNCHANGED <<text, s, e, seg, out>>

\* printf("create %s\n", key): the segments come in the order of the hash table.
PrintCreate(n) ==
    /\ pc[n] = "print"
    /\ \E g \in DOMAIN s2k[n] :
          /\ seg' = [seg EXCEPT ![n] = g]
          /\ out' = Append(out, [op |-> "create", seg |-> g, keys |-> <<>>])
    /\ pc' = [pc EXCEPT ![n] = "print_keys"]
    /\ UNCHANGED <<text, cut, s, e, key, s2k, dead>>

\* printf("b %s %s\n", key, keys): other calls may have printed in between.
PrintKeys(n) ==
    /\ pc[n] = "print_keys"
    /\ out' = Append(out, [op |-> "b", seg |-> seg[n], keys |-> s2k[n][seg[n]]])
    /\ s2k' = [s2k EXCEPT ![n] = Restrict(@, DOMAIN @ \ {seg[n]})]
    /\ pc' = [pc EXCEPT ![n] = "print"]
    /\ UNCHANGED <<text, cut, s, e, key, seg, dead>>

\* parser returns.
Return(n) == /\ pc[n] = "print"
             /\ DOMAIN s2k[n] = {}
             /\ pc' = [pc EXCEPT ![n] = "done"]
             /\ UNCHANGED <<text, cut, s, e, key, s2k, seg, out, dead>>

Parser(n) == /\ ~dead
             /\ \/ Start(n) \/ From(n) \/ To(n)
                \/ FindEnd(n) \/ CutEnd(n) \/ FindTab(n) \/ CutTab(n)
                \/ FindSpace(n) \/ CutSpace(n) \/ File(n)
                \/ PrintCreate(n) \/ PrintKeys(n) \/ Return(n)

\* kt_for has returned, or the process is dead.
Returned == \A n \in Parts : pc[n] = "done"
Stopped == (dead \/ Returned) /\ UNCHANGED vars

Next == Stopped \/ \E n \in Parts : Parser(n)

\* kt_for terminates (module KtFor), and with it every call it makes.
Spec == Init /\ [][Next]_vars /\ \A n \in Parts : WF_vars(Parser(n))

-----------------------------------------------------------------------------
Parsing == {"end", "cut_end", "tab", "cut_tab", "space", "cut_space", "cut_flag",
            "file", "file_flag"}

\* Keys are sent for segments of their entries only; what is sent for a piece of the
\* flags comes from a line that another call has cut before (parser).
KeysBelong ==
    \A i \in DOMAIN out : \A j \in DOMAIN out[i].keys :
        \/ out[i].seg = FlagSegs
        \/ \E k \in Lines : /\ text[k].form = "entry"
                            /\ text[k].key = out[i].keys[j]
                            /\ out[i].seg \in Range(text[k].segs)

Positions(b) == b.start..(b.start + b.length - 1)
BlocksOf(file, p) == [n \in 0..(p - 1) |-> GetSubBlock(file, n, p)]

\* The places of all the parts fit into an unsigned int: with 32 bits they do in every
\* text of less than 4 GiB.
NoWrap(file, p) == (p - 1) * PartLength(file, p) < UIntSpace

\* Unless the places of parts wrap, two parts of a text never share a character,
\* whatever the lengths of lines and parts, as the parsers write into their blocks at
\* the same time; and when, besides, no line is longer than a part and the parts are
\* not too many, they are the whole text together (getSubBlock).  It is looked at
\* where a run begins.
SplitSound ==
    (\A n \in Parts : pc[n] = "none") =>
        \A file \in Splits, p \in 1..MaxParts : PartLength(file, p) > 0 /\ NoWrap(file, p) =>
            LET b == BlocksOf(file, p) IN
            /\ \A i, j \in DOMAIN b : i # j => Positions(b[i]) \cap Positions(b[j]) = {}
            /\ p <= MostParts /\ (\A i \in DOMAIN file : file[i] + 1 <= PartLength(file, p))
               => UNION {Positions(b[i]) : i \in DOMAIN b} = 0..(Length(file) - 1)

\* When no line is longer than a part and the places of the parts do not wrap, no two
\* calls ever parse the same line, though each looks for its lines in a text the
\* others change (getSubBlock, parser).
OwnLines ==
    (\A i \in Lines : text[i].len + 1 <= l) /\ NoWrap(lengths, nthr) =>
        \A n, m \in Parts : n # m /\ {pc[n], pc[m]} \subseteq Parsing => key[n] # key[m]

\* The process dies of a line without a space behind its tab, or of a key as long as
\* the buffer keys_new allocates, and of nothing else: the buffer of a segment has
\* room for any number of shorter keys (keys_add, parser).
FaultsExplained ==
    dead => \E i \in Lines : text[i].form = "bare" \/ KeyLen[text[i].key] >= KeysNew

\* Every call returns, unless the process dies (parser, kt_for).
Terminates == <>(dead \/ Returned)

Sent(g, k) == \E i \in DOMAIN out :
    out[i].op = "b" /\ out[i].seg = g /\ \E j \in DOMAIN out[i].keys : out[i].keys[j] = k

\* Splitting the text loses no line: "split blocke on 'p' parts" (pack.c, comment
\* at getSubBlock).
NoLineLost ==
    Returned => \A i \in Lines : text[i].form = "entry" => Sent(text[i].segs[1], text[i].key)

=============================================================================
