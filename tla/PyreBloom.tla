----------------------------- MODULE PyreBloom -----------------------------
(***************************************************************************)
(* pyrebloom: a bloom filter whose bits live in a Redis server.  Python    *)
(* calls pyreBloom.c (generated from pyreBloom.pyx), which calls bloom.c,  *)
(* which speaks to the server through hiredis.                             *)
(*                                                                         *)
(* put and contains first append one command per hash of every value to   *)
(* the output buffer of the connection and then read as many replies; init *)
(* and delete send one command at a time.  Nothing ties a reply to the     *)
(* command it answers but its place in line.  hiredis reads a reply it has *)
(* already received first; only when it has none does it write the output  *)
(* buffer and wait, and then only while the context holds no error.        *)
(*                                                                         *)
(* A client is one pyreBloom object in a process of its own.  The server   *)
(* runs the commands of a connection in order, one at a time; it may       *)
(* refuse any of them with an error (a write on a replica, when it cannot  *)
(* save or has no memory, everything while it loads its data), and a       *)
(* connection may break.  All objects name the same filter with the same   *)
(* capacity and error.                                                     *)
(***************************************************************************)
EXTENDS Integers, Sequences, FiniteSets

CONSTANTS
    Clients,     \* the pyreBloom objects
    Items,       \* the values
    Hashes,      \* ctxt->hashes, the number of hash functions
    Hash,        \* Hash[i][j] is the j-th hash of value i before "% bits"
    BitCounts,   \* the sizes a filter may have
    MaxBits,     \* max_bits_per_key
    Mantissa,    \* the bits of a float's mantissa, 24 in C
    WordBits,    \* the bits of ctxt->bits, an uint64_t
    Databases,   \* the databases of the server, with 0, the one at connection
    Wanted,      \* the databases each client may ask for
    Lists,       \* the sequences of values each client gives put and contains
    MaxCalls,    \* bound: the calls of each object after its construction
    MaxFaults    \* bound: commands the server refuses and connections that break

ASSUME HashesAssumption == Hashes \in Nat \ {0}
ASSUME HashAssumption   == Hash \in [Items -> [1..Hashes -> Nat]]
ASSUME FloatAssumption  == WordBits \in Nat \ {0} /\ Mantissa \in 1..WordBits
ASSUME DbAssumption     == 0 \in Databases /\ Databases \subseteq Nat /\ Wanted \in [Clients -> SUBSET Nat]
ASSUME ListsAssumption  == \A c \in Clients : Lists[c] \subseteq Seq(Items)
ASSUME BoundsAssumption == MaxCalls \in [Clients -> Nat] /\ MaxFaults \in Nat

VARIABLES
    bits,      \* ctxt->bits
    requires,  \* whether the server requires a password
    store,     \* [Databases -> set of <<key, offset>>]: the bits that are set
    conn,      \* a client's connection, with both ends of it
    call,      \* a client's current call, or its last one
    stored,    \* history: the values put and not deleted since, by database
    raised,    \* history: the clients that have seen an exception
    faults     \* the clients' connections broken and commands refused so far

vars == <<bits, requires, store, conn, call, stored, raised, faults>>
-----------------------------------------------------------------------------
(* init_pyrebloom and delete compute ceil((float) bits / max_bits_per_key): *)
(* both numbers are rounded to a float, 2^32 - 1 to 2^32.                  *)

Pow2[i \in 0..WordBits] == IF i = 0 THEN 1 ELSE 2 * Pow2[i - 1]

\* The distance of the floats next to x: they have Mantissa bits, then zeros.
Gap(x) == Pow2[CHOOSE i \in 0..(WordBits - Mantissa) :
                   x < Pow2[i + Mantissa] /\ (i = 0 \/ x >= Pow2[i + Mantissa - 1])]

\* (float) x: the nearest float, of two the one with an even mantissa.
AsFloat(x) ==
    LET m == x \div Gap(x)
        twice == 2 * (x % Gap(x))
        up == twice > Gap(x) \/ (twice = Gap(x) /\ m % 2 = 1)
    IN  (IF up THEN m + 1 ELSE m) * Gap(x)

\* max_bits_per_key rounds to a power of two, by which a float divides exactly.  The
\* largest sizes would round to 2^64, with more keys than an uint32_t counts.
ASSUME BitsAssumption ==
    /\ BitCounts \subseteq 1..(Pow2[WordBits] - 1)
    /\ \A b \in BitCounts : AsFloat(b) < Pow2[WordBits]
    /\ \E i \in (Mantissa + 1)..WordBits : MaxBits = Pow2[i] - 1

\* Mutant: the quotient is not rounded up, and the last key is forgotten.
TooFewKeys == AsFloat(bits) \div AsFloat(MaxBits)
NumKeys == (AsFloat(bits) + AsFloat(MaxBits) - 1) \div AsFloat(MaxBits)

\* The key and the offset of a bit, in add and in check.
Place(i, j) == LET d == Hash[i][j] % bits IN <<d \div MaxBits, d % MaxBits>>

\* keys: the keys of the filter on the server.
KeyNames == 0..(NumKeys - 1)

\* Whether keys[d / max_bits_per_key] is one of the keys init named.
Named(s) == \A n \in DOMAIN s, j \in 1..Hashes : Place(s[n], j)[1] \in KeyNames

\* Mutant: one command less for the last value.
OneShort(op, tag, s) ==
    [n \in 1..((Hashes * Len(s)) - (IF s = <<>> THEN 0 ELSE 1)) |->
        [op |-> op, tag |-> tag,
         at |-> Place(s[((n - 1) \div Hashes) + 1], ((n - 1) % Hashes) + 1)]]

\* add, check: the commands appended for the values of s, one per hash.
Appended(op, tag, s) ==
    [n \in 1..(Hashes * Len(s)) |->
        [op |-> op, tag |-> tag,
         at |-> Place(s[((n - 1) \div Hashes) + 1], ((n - 1) % Hashes) + 1)]]

\* Mutant: delete stops after the first key.
OnlyFirst(tag) == << [op |-> "del", tag |-> tag, at |-> <<0, 0>>] >>
\* delete: one DEL per key.
Deletes(tag) == [n \in 1..NumKeys |-> [op |-> "del", tag |-> tag, at |-> <<n - 1, 0>>]]

\* Mutant: no SELECT at all.
NoSelect(password, db) ==
    << [op |-> IF password THEN "auth" ELSE "ping", tag |-> 0, at |-> <<0, 0>>] >>

\* init: with a password AUTH alone, without one PING and SELECT.
Greeting(password, db) ==
    IF password THEN << [op |-> "auth", tag |-> 0, at |-> <<0, 0>>] >>
                ELSE << [op |-> "ping", tag |-> 0, at |-> <<0, 0>>],
                        [op |-> "select", tag |-> 0, at |-> <<db, 0>>] >>
-----------------------------------------------------------------------------
NoConn == [state |-> "new", up |-> FALSE, authed |-> FALSE, db |-> 0, want |-> 0,
           password |-> FALSE, err |-> FALSE,
           obuf |-> <<>>, wire |-> <<>>, sock |-> <<>>, reader |-> <<>>]

\* left: the replies still to be read; ones: whether every reply of the value
\* at hand was 1; new: the values with a bit that was not set; answers: what
\* check_next returned so far, -1 for an error; must, swept, foreign, done:
\* history, the values known to be stored all along, whether a DEL ran
\* meanwhile, whether a reply of another call was read, the keys of the DELs
\* run, and of those the server refused.
Start(op, tag, s, left, todo, must) ==
    [op |-> op, tag |-> tag, items |-> s, left |-> left, todo |-> todo, ones |-> TRUE,
     new |-> 0, answers |-> <<>>, must |-> must, swept |-> FALSE, foreign |-> FALSE,
     done |-> {}, denied |-> {}]

Init ==
    /\ bits \in BitCounts /\ requires \in BOOLEAN
    /\ store = [d \in Databases |-> {}]
    /\ conn = [c \in Clients |-> NoConn]
    /\ call = [c \in Clients |-> Start("none", 0, <<>>, 0, <<>>, {})]
    /\ stored = [d \in Databases |-> {}]
    /\ raised = {} /\ faults = 0
-----------------------------------------------------------------------------
(* The calls.  The work of a call up to its first read is one step: it     *)
(* touches the object alone.                                               *)

\* init_pyrebloom, to the first command.  When the connection is refused the
\* constructor raises and the object is freed.
Connect(c) ==
    /\ conn[c].state = "new"
    /\ UNCHANGED <<bits, requires, store, stored, raised, faults>>
    /\ \/ \E password \in BOOLEAN, db \in Wanted[c] :
            LET cmds == Greeting(password, db) IN
            /\ conn' = [conn EXCEPT ![c] = [NoConn EXCEPT !.state = "busy", !.up = TRUE,
                           !.want = db, !.password = password, !.obuf = << cmds[1] >>]]
            /\ call' = [call EXCEPT ![c] = Start("init", 0, <<>>, 1, Tail(cmds), {})]
       \/ conn' = [conn EXCEPT ![c].state = "closed"] /\ UNCHANGED call

\* add_complete and check_next clear the error of the context; delete does not.
Clears(op, old) == IF op = "del" THEN old ELSE FALSE

\* A call appends its commands and starts to read; one with nothing to read
\* returns at once.
Begin(c, op, s, cmds, todo) ==
    /\ conn' = [conn EXCEPT ![c].obuf = @ \o cmds, ![c].err = Clears(op, @),
                            ![c].state = IF cmds = <<>> THEN "idle" ELSE "busy"]
    /\ call' = [call EXCEPT ![c] = Start(op, call[c].tag + 1, s,
                         IF op = "del" THEN Len(cmds) ELSE Hashes * Len(s), todo,
                         IF c \in raised THEN {} ELSE stored[conn[c].db])]
    /\ UNCHANGED raised

\* A name past the end of keys is undefined behaviour: nothing is claimed of
\* the process from there on.
Strays(c) ==
    /\ conn' = [conn EXCEPT ![c].state = "dead", ![c].up = FALSE]
    /\ UNCHANGED <<call, raised>>

\* A call that ended with an exception has no result.
Aborted(tag, foreign) == [Start("aborted", tag, <<>>, 0, <<>>, {}) EXCEPT !.foreign = foreign]

\* put and contains.  A value that is not a string stops the appending with an
\* exception, and so does, after it, the length of an iterable that has none:
\* the commands stay in the buffer and nobody reads their replies.
Batch(c, op, s) ==
    LET cmds == Appended(op, call[c].tag + 1, s) IN
    /\ conn[c].state = "idle" /\ call[c].tag < MaxCalls[c]
    /\ UNCHANGED <<bits, requires, store, stored, faults>>
    /\ \/ ~Named(s) /\ Strays(c)
       \/ Named(s) /\ Begin(c, op, s, cmds, <<>>)
       \/ /\ Named(s)
          /\ conn' = [conn EXCEPT ![c].obuf = @ \o cmds]
          /\ call' = [call EXCEPT ![c] = Aborted(@.tag + 1, FALSE)]
          /\ raised' = raised \cup {c}

Put(c)      == \E s \in Lists[c] : Batch(c, "set", s)
Contains(c) == \E s \in Lists[c] \ {<<>>} : Batch(c, "get", s)   \* min([]) raises first

\* put and contains by other names.
Add(c)    == Put(c)
Extend(c) == Put(c)
In(c)     == Contains(c)

Delete(c) ==
    LET cmds == Deletes(call[c].tag + 1) IN
    /\ conn[c].state = "idle" /\ call[c].tag < MaxCalls[c]
    /\ Begin(c, "del", <<>>, SubSeq(cmds, 1, 1), SubSeq(cmds, 2, Len(cmds)))
    /\ UNCHANGED <<bits, requires, store, stored, faults>>

\* __dealloc__, free_pyrebloom: the socket is closed; what the server has
\* received of the last commands it still runs.
Dealloc(c) ==
    /\ conn[c].state = "idle"
    /\ \E n \in 0..Len(conn[c].wire) :
          conn' = [conn EXCEPT ![c].state = "closed", ![c].up = FALSE,
                               ![c].wire = SubSeq(@, 1, n), ![c].sock = <<>>, ![c].reader = <<>>]
    /\ UNCHANGED <<bits, requires, store, call, stored, raised, faults>>
-----------------------------------------------------------------------------
(* redisGetReply.                                                          *)

Reading(c) == conn[c].state = "busy"

\* Nothing received is left to read: the output buffer is written, and the
\* caller waits for the server.
Flush(c) ==
    /\ Reading(c) /\ conn[c].reader = <<>> /\ ~conn[c].err /\ conn[c].up
    /\ conn[c].obuf # <<>>
    /\ conn' = [conn EXCEPT ![c].wire = @ \o conn[c].obuf, ![c].obuf = <<>>]
    /\ UNCHANGED <<bits, requires, store, call, stored, raised, faults>>

\* The call of c ends and its object may be called again.
Return(c, k, con) ==
    /\ conn' = [conn EXCEPT ![c] = [con EXCEPT !.state = "idle"]]
    /\ call' = [call EXCEPT ![c] = [k EXCEPT !.swept = FALSE]]
    /\ stored' = IF k.op = "set" /\ c \notin raised /\ ~k.swept
                 THEN [stored EXCEPT ![con.db] = @ \cup {k.items[n] : n \in DOMAIN k.items}]
                 ELSE stored
    /\ UNCHANGED raised

Raise(c, k, con) ==
    /\ conn' = [conn EXCEPT ![c] = [con EXCEPT !.state = "idle"]]
    /\ call' = [call EXCEPT ![c] = Aborted(k.tag, k.foreign)]
    /\ raised' = raised \cup {c}
    /\ UNCHANGED stored

\* The call of c goes on to the next reply.
GoOn(c, k, con) ==
    /\ conn' = [conn EXCEPT ![c] = con]
    /\ call' = [call EXCEPT ![c] = k]
    /\ UNCHANGED <<stored, raised>>

\* Mutant: the value of an error reply is taken for its answer.
LenientPut(c, k, con, r) ==
    LET last == (k.left - 1) % Hashes = 0
        ones == k.ones /\ r.val = 1
        k2   == [k EXCEPT !.left = @ - 1, !.ones = last \/ ones,
                          !.new = IF last /\ ~ones THEN @ + 1 ELSE @]
    IN  IF k2.left > 0 THEN GoOn(c, k2, con) ELSE Return(c, k2, con)

\* add_complete reads one reply.  An error reply marks the context, which
\* makes hiredis refuse to receive any more before the next call.
TakePut(c, k, con, r) ==
    LET last == (k.left - 1) % Hashes = 0
        ones == k.ones /\ r.val = 1
        k2   == [k EXCEPT !.left = @ - 1, !.ones = last \/ ones,
                          !.new = IF last /\ ~ones THEN @ + 1 ELSE @]
        con2 == [con EXCEPT !.err = @ \/ r.bad]
    IN  IF k2.left > 0 THEN GoOn(c, k2, con2)
        ELSE IF con2.err THEN Raise(c, k2, con2) ELSE Return(c, k2, con2)

\* contains after the answer of one value: check_next is called for the next,
\* which clears the error, or the answers are looked through for an error.
Answered(c, k, con) ==
    IF k.left > 0 THEN GoOn(c, k, [con EXCEPT !.err = Clears("get", @)])
    ELSE IF -1 \in {k.answers[n] : n \in DOMAIN k.answers}
         THEN Raise(c, k, con) ELSE Return(c, k, con)

\* Mutant: the first 0 is the answer, whatever replies are left.
ShortCircuit(c, k, con, r) ==
    LET con2 == [con EXCEPT !.err = @ \/ r.bad]
        left == IF r.val = 0 THEN ((k.left - 1) \div Hashes) * Hashes ELSE k.left - 1
    IN  IF left % Hashes # 0 THEN GoOn(c, [k EXCEPT !.left = left], con2)
        ELSE Answered(c, [k EXCEPT !.left = left, !.answers =
                 Append(@, IF con2.err THEN -1 ELSE r.val)], con2)

\* check_next reads one reply.
TakeContains(c, k, con, r) ==
    LET ones == k.ones /\ r.val = 1
        con2 == [con EXCEPT !.err = @ \/ r.bad]
        left == k.left - 1
    IN  IF left % Hashes # 0 THEN GoOn(c, [k EXCEPT !.left = left, !.ones = ones], con2)
        ELSE Answered(c, [k EXCEPT !.left = left, !.ones = TRUE, !.answers =
                 Append(@, IF con2.err THEN -1 ELSE IF ones THEN 1 ELSE 0)], con2)

\* delete: the next DEL is sent, whatever became of this one: the reply is freed
\* without a look at it.
NextDelete(c, k, con) ==
    IF k.todo = <<>> THEN Return(c, [k EXCEPT !.left = 0], con)
    ELSE GoOn(c, [k EXCEPT !.todo = Tail(@)], [con EXCEPT !.obuf = Append(@, Head(k.todo))])

\* init: an error is copied to the context and the constructor raises, which
\* frees the object; after a refused SELECT that is the second time, and the
\* error text is read from what the first one freed.
NextGreeting(c, k, con, r) ==
    CASE r.bad /\ r.op = "select" ->
            GoOn(c, k, [con EXCEPT !.state = "dead", !.up = FALSE])
      [] r.bad /\ r.op # "select" ->
            /\ conn' = [conn EXCEPT ![c] = [con EXCEPT !.state = "closed", !.up = FALSE]]
            /\ call' = [call EXCEPT ![c] = k]
            /\ raised' = raised \cup {c} /\ UNCHANGED stored
      [] ~r.bad /\ k.todo = <<>> -> Return(c, [k EXCEPT !.left = 0], con)
      [] OTHER -> GoOn(c, [k EXCEPT !.todo = Tail(@)],
                          [con EXCEPT !.obuf = Append(@, Head(k.todo))])

\* What redisGetReply reads from: the replies hiredis holds, or else all that
\* have come in meanwhile.
Incoming(c) ==
    IF conn[c].reader # <<>> THEN conn[c].reader
    ELSE IF conn[c].err \/ conn[c].obuf # <<>> THEN <<>> ELSE conn[c].sock

\* A reply is read.
Take(c) ==
    LET r   == Head(Incoming(c))
        con == IF conn[c].reader # <<>> THEN [conn[c] EXCEPT !.reader = Tail(@)]
               ELSE [conn[c] EXCEPT !.reader = Tail(conn[c].sock), !.sock = <<>>]
        k   == [call[c] EXCEPT !.foreign = @ \/ r.tag # call[c].tag]
    IN  /\ Reading(c) /\ Incoming(c) # <<>>
        /\ CASE k.op = "init" -> NextGreeting(c, k, con, r)
             [] k.op = "del"  -> NextDelete(c, k, con)
             [] k.op = "set"  -> TakePut(c, k, con, r)
             [] k.op = "get"  -> TakeContains(c, k, con, r)
        /\ UNCHANGED <<bits, requires, store, faults>>

\* No reply can be had: the context holds an error, or the connection is down.
\* put gives up all its values, contains the value at hand; delete does not
\* look; init reads the type of a reply that is not there.
Fail(c) ==
    LET k    == call[c]
        con  == [conn[c] EXCEPT !.err = TRUE]
        skip == ((k.left - 1) \div Hashes) * Hashes
    IN  /\ Reading(c) /\ conn[c].reader = <<>> /\ (conn[c].err \/ ~conn[c].up)
        /\ CASE k.op = "init" -> GoOn(c, k, [con EXCEPT !.state = "dead"])
             [] k.op = "del"  -> NextDelete(c, k, con)
             [] k.op = "set"  -> Raise(c, k, con)
             [] k.op = "get"  -> Answered(c, [k EXCEPT !.left = skip, !.ones = TRUE,
                                                       !.answers = Append(@, -1)], con)
        /\ UNCHANGED <<bits, requires, store, faults>>
-----------------------------------------------------------------------------
(* The server and the network.                                             *)

\* A DEL in database d: history for the calls under way there.
Sweep(d) ==
    [c \in Clients |-> IF conn[c].db = d /\ conn[c].state = "busy" /\ c \notin raised
                       THEN [call[c] EXCEPT !.must = {}, !.swept = call[c].op = "set"]
                       ELSE call[c]]

\* The server runs the first command it received on a connection and answers,
\* or refuses it with an error.
Exec(c) ==
    LET m     == Head(conn[c].wire)
        d     == conn[c].db
        shut  == requires /\ ~conn[c].authed /\ m.op # "auth"
        Answer(bad, val, con) ==
            conn' = [conn EXCEPT ![c] = [con EXCEPT !.wire = Tail(@), !.sock =
                IF con.up THEN Append(@, [op |-> m.op, tag |-> m.tag, bad |-> bad, val |-> val])
                          ELSE @]]
        Rest  == UNCHANGED <<store, call, stored, faults>>
    IN  /\ conn[c].wire # <<>>
        /\ UNCHANGED <<bits, requires, raised>>
        /\ \/ shut /\ Answer(TRUE, 0, conn[c]) /\ Rest
           \/ /\ m.op = "auth" /\ Rest
              /\ Answer(~requires, 0, [conn[c] EXCEPT !.authed = requires])
           \/ m.op = "ping" /\ ~shut /\ Answer(FALSE, 0, conn[c]) /\ Rest
           \/ /\ m.op = "select" /\ ~shut /\ Rest
              /\ IF m.at[1] \in Databases
                 THEN Answer(FALSE, 0, [conn[c] EXCEPT !.db = m.at[1]])
                 ELSE Answer(TRUE, 0, conn[c])
           \/ /\ m.op = "set" /\ ~shut /\ UNCHANGED <<call, stored, faults>>
              /\ store' = [store EXCEPT ![d] = @ \cup {m.at}]
              /\ Answer(FALSE, IF m.at \in store[d] THEN 1 ELSE 0, conn[c])
           \/ /\ faults < MaxFaults /\ faults' = faults + 1
              /\ UNCHANGED <<store, stored>> /\ Answer(TRUE, 0, conn[c])
              /\ call' = [call EXCEPT ![c].denied =
                     IF m.op = "del" /\ m.tag = call[c].tag THEN @ \cup {m.at[1]} ELSE @]
           \/ /\ m.op = "get" /\ ~shut /\ Rest
              /\ Answer(FALSE, IF m.at \in store[d] THEN 1 ELSE 0, conn[c])
           \/ /\ m.op = "del" /\ ~shut /\ UNCHANGED faults
              /\ store' = [store EXCEPT ![d] = {b \in @ : b[1] # m.at[1]}]
              /\ stored' = [stored EXCEPT ![d] = {}]
              /\ call' = [Sweep(d) EXCEPT ![c].done =
                     IF m.tag = call[c].tag THEN @ \cup {m.at[1]} ELSE @]
              /\ Answer(FALSE, 0, conn[c])

\* The connection breaks: of what was sent a part arrives, of what was
\* answered a part had been received.
Break(c) ==
    /\ conn[c].up /\ faults < MaxFaults
    /\ \E n \in 0..Len(conn[c].wire) :
          conn' = [conn EXCEPT ![c].up = FALSE, ![c].wire = SubSeq(@, 1, n), ![c].sock = <<>>]
    /\ faults' = faults + 1
    /\ UNCHANGED <<bits, requires, store, call, stored, raised>>

Client(c) == Flush(c) \/ Take(c) \/ Fail(c)

Next == \E c \in Clients :
    \/ Connect(c) \/ Dealloc(c)
    \/ Put(c) \/ Add(c) \/ Extend(c) \/ Contains(c) \/ In(c) \/ Delete(c)
    \/ Client(c) \/ Exec(c) \/ Break(c)

Spec == Init /\ [][Next]_vars

\* A call runs on by itself, and the server answers what it received.
FairSpec == Spec /\ \A c \in Clients : WF_vars(Client(c)) /\ WF_vars(Exec(c))
-----------------------------------------------------------------------------
(* Type invariant. *)
Commands == [op : {"auth", "ping", "select", "set", "get", "del"}, tag : Nat,
             at : Nat \X Nat]
Replies  == [op : {"auth", "ping", "select", "set", "get", "del"}, tag : Nat,
             bad : BOOLEAN, val : {0, 1}]
Conns    == [state : {"new", "busy", "idle", "closed", "dead"}, up : BOOLEAN,
             authed : BOOLEAN, db : Databases, want : Nat, password : BOOLEAN,
             err : BOOLEAN, obuf : Seq(Commands), wire : Seq(Commands),
             sock : Seq(Replies), reader : Seq(Replies)]
Calls    == [op : {"none", "init", "aborted", "set", "get", "del"}, tag : Nat,
             items : Seq(Items), left : Nat, todo : Seq(Commands), ones : BOOLEAN, new : Nat,
             answers : Seq({-1, 0, 1}), must : SUBSET Items, swept : BOOLEAN,
             foreign : BOOLEAN, done : SUBSET Nat, denied : SUBSET Nat]

TypeOK ==
    /\ bits \in BitCounts /\ requires \in BOOLEAN
    /\ store \in [Databases -> SUBSET (Nat \X Nat)]
    /\ conn \in [Clients -> Conns] /\ call \in [Clients -> Calls]
    /\ stored \in [Databases -> SUBSET Items]
    /\ raised \subseteq Clients /\ faults \in 0..MaxFaults

(* A call reads a reply meant for another call only if the object has raised *)
(* an exception before: as long as none did, every call reads as many replies *)
(* as it appended commands, and the buffers are empty between calls.       *)
OwnReplies == \A c \in Clients : call[c].foreign => c \in raised

(* No false negative: as long as an object has not raised an exception, its *)
(* contains answers yes for every value some put stored before it and no   *)
(* delete swept away, and its put counts none of those as new.             *)
NoMiss == \A c \in Clients : conn[c].state = "idle" /\ c \notin raised =>
    LET k == call[c] IN
    /\ k.op = "get" => /\ Len(k.answers) = Len(k.items)
                       /\ \A n \in DOMAIN k.items : k.items[n] \in k.must => k.answers[n] = 1
    /\ k.op = "set" => k.new <= Cardinality({n \in DOMAIN k.items : k.items[n] \notin k.must})

(* A constructed object works on the database it asked for, unless it gave *)
(* a password: then init returns before the SELECT.                        *)
Isolated == \A c \in Clients :
    conn[c].state = "idle" => conn[c].db = conn[c].want \/ conn[c].password

(* A delete that returned has had every key of the filter deleted while it *)
(* ran, but for those whose DEL the server refused, which it ignores,      *)
(* unless the object raised an exception before or its connection is down: *)
(* then delete returns all the same, having sent nothing.                  *)
Deleted == \A c \in Clients :
    /\ conn[c].state = "idle" /\ call[c].op = "del" /\ c \notin raised /\ conn[c].up
    => /\ call[c].done \cup call[c].denied = KeyNames
       /\ ~\E i \in Items, j \in 1..Hashes :
             Place(i, j)[1] \notin call[c].done \cup call[c].denied /\ Named(<<i>>)

(* The process of an object ends or runs wild only when its database does  *)
(* not exist, the server refused a command of the constructor or the       *)
(* connection broke under it, or rounding cost the filter its last key:    *)
(* the float of bits is less than bits, or that of max_bits_per_key too    *)
(* much for the quotient.                                                  *)
FaultsExplained == \A c \in Clients : conn[c].state = "dead" =>
    \/ conn[c].want \notin Databases
    \/ call[c].op = "init" /\ faults > 0
    \/ /\ bits > MaxBits
       /\ \/ AsFloat(bits) < bits
          \/ (bits - 1) \div MaxBits # (bits - 1) \div AsFloat(MaxBits)

(* Every call of an object comes to an end: no call waits for a reply the  *)
(* server has no command left to give.                                     *)
Returns == \A c \in Clients : conn[c].state = "busy" ~> conn[c].state # "busy"
=============================================================================
