--------------------------- MODULE TupleIterator ---------------------------
(***************************************************************************)
(* TupleIterator (src/src/shuffle/shufflev2.cpp): the key extractor that  *)
(* the zero-copy receive path of the shuffle runs over each connection's   *)
(* byte stream.  The stream is a sequence of tuples of TupleSize bytes,   *)
(* each starting with a key of KeySize bytes; it arrives in chunks of any *)
(* length, cut wherever the kernel's receives end, and process must emit  *)
(* every key once, in order, whole, whatever the cuts.                     *)
(*                                                                         *)
(* A byte of the stream is its own position, so that a key is the         *)
(* sequence of the positions its bytes come from and a key assembled from *)
(* the wrong bytes is told apart.  The callback on_key is the append to   *)
(* keys.  Chunk lengths are any of 1..MaxChunk, up to StreamLen bytes.     *)
(***************************************************************************)
EXTENDS Naturals, Sequences, FiniteSets, SequencesExt

CONSTANTS
    KeySize,      \* key_size
    TupleSize,    \* tuple_size
    KeyOffset,    \* the constructor's key_offset
    StreamLen,    \* bytes the peer sends on the connection
    MaxChunk      \* the longest chunk process is given

ASSUME KeySize >= 1 /\ TupleSize >= KeySize /\ MaxChunk >= 1

Stream == [i \in 1..StreamLen |-> i]

\* The state of one iterator, as the record process works on.
VARIABLES
    streamPos,    \* stream_pos_
    nextKeyPos,   \* next_key_pos_
    partial,      \* partial_[0 .. partial_filled_ - 1]
    keys,         \* the keys on_key has been called with, in order
    fed           \* bytes of the stream handed to process so far

vars == <<streamPos, nextKeyPos, partial, keys, fed>>

TypeOK ==
    /\ streamPos \in 0..StreamLen /\ fed \in 0..StreamLen
    /\ nextKeyPos \in Nat
    /\ partial \in Seq(1..StreamLen) /\ Len(partial) < KeySize
    /\ keys \in Seq(Seq(1..StreamLen))

Init == /\ streamPos = 0 /\ nextKeyPos = KeyOffset
        /\ partial = <<>> /\ keys = <<>> /\ fed = 0

Lesser(a, b) == IF a < b THEN a ELSE b
\* The chunk after its pointer p has moved n bytes on.
Advance(c, n) == SubSeq(c, n + 1, Len(c))

\* Step 1 with the key completed but next_key_pos_ left where it was.
CompletePartialNoAdvance(st, c) ==
    IF st.partial = <<>> THEN [st |-> st, c |-> c]
    ELSE LET take == Lesser(Len(c), KeySize - Len(st.partial))
             p == st.partial \o SubSeq(c, 1, take)
             s1 == [st EXCEPT !.partial = p, !.pos = @ + take]
         IN [st |-> IF Len(p) = KeySize
                    THEN [s1 EXCEPT !.keys = Append(@, p), !.partial = <<>>]
                    ELSE s1,
             c |-> Advance(c, take)]

\* Step 1 of process: complete a key begun in an earlier chunk, emit it
\* and move next_key_pos_ to the next tuple's key.
CompletePartial(st, c) ==
    IF st.partial = <<>> THEN [st |-> st, c |-> c]
    ELSE LET take == Lesser(Len(c), KeySize - Len(st.partial))
             p == st.partial \o SubSeq(c, 1, take)
             s1 == [st EXCEPT !.partial = p, !.pos = @ + take]
         IN [st |-> IF Len(p) = KeySize
                    THEN [s1 EXCEPT !.keys = Append(@, p), !.partial = <<>>,
                                    !.next = @ + TupleSize]
                    ELSE s1,
             c |-> Advance(c, take)]

\* Step 2, the main loop, on the rest c of the chunk: return when no key
\* starts in it; skip to the key start (break if that ends the chunk);
\* emit a whole key and skip the gap after it, or buffer a key that
\* straddles the chunk's end and return.
RECURSIVE MainLoop(_, _)
MainLoop(st, c) ==
    IF c = <<>> THEN st
    ELSE IF st.pos + Len(c) <= st.next THEN [st EXCEPT !.pos = @ + Len(c)]
    ELSE LET skip == IF st.pos < st.next THEN Lesser(Len(c), st.next - st.pos) ELSE 0
             c1 == Advance(c, skip)
             s1 == st.pos + skip
         IN IF c1 = <<>> THEN [st EXCEPT !.pos = s1]
            ELSE IF Len(c1) >= KeySize
            THEN LET c2 == Advance(c1, KeySize)
                     gap == Lesser(Len(c2), TupleSize - KeySize)
                 IN MainLoop([st EXCEPT !.keys = Append(@, SubSeq(c1, 1, KeySize)),
                                        !.pos = s1 + KeySize + gap,
                                        !.next = @ + TupleSize],
                             Advance(c2, gap))
            ELSE [st EXCEPT !.partial = c1, !.pos = s1 + Len(c1)]

\* process(chunk, len, on_key) on the next len bytes of the stream.
Process(len) ==
    /\ fed + len <= StreamLen
    /\ LET st0 == [pos |-> streamPos, next |-> nextKeyPos, partial |-> partial, keys |-> keys]
           r == CompletePartial(st0, SubSeq(Stream, fed + 1, fed + len))
           st == MainLoop(r.st, r.c)
       IN /\ streamPos' = st.pos /\ nextKeyPos' = st.next
          /\ partial' = st.partial /\ keys' = st.keys
    /\ fed' = fed + len

\* The peer has sent the whole stream and every byte has been processed.
Finished == fed = StreamLen /\ UNCHANGED vars

Next == (\E len \in 1..MaxChunk : Process(len)) \/ Finished

Spec == Init /\ [][Next]_vars

(***************************************************************************)
(* The reference: the keys of the first n bytes are the KeySize bytes at  *)
(* KeyOffset + j * TupleSize for every j whose key lies wholly in them,    *)
(* and the bytes of the next key that lie in them are pending.            *)
(***************************************************************************)
KeyStart(j) == KeyOffset + (j - 1) * TupleSize
NumKeys(n) == Cardinality({j \in 1..(n + 1) : KeyStart(j) + KeySize <= n})
RefKeys(n) == [j \in 1..NumKeys(n) |-> SubSeq(Stream, KeyStart(j) + 1, KeyStart(j) + KeySize)]
RefPartial(n) == LET s == KeyStart(NumKeys(n) + 1)
                 IN IF s < n THEN SubSeq(Stream, s + 1, n) ELSE <<>>

(* However the receives cut the stream into chunks, process has emitted  *)
(* exactly the keys that lie wholly in the bytes fed so far, each once,  *)
(* in stream order and assembled from its own bytes, and holds in        *)
(* partial_ exactly the bytes of the key that straddles the last cut.    *)
KeysExtracted ==
    /\ keys = RefKeys(fed)
    /\ partial = RefPartial(fed)
    /\ streamPos = fed
====
