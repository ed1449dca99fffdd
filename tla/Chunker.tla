------------------------------ MODULE Chunker ------------------------------
(***************************************************************************)
(* The loop of chunk_text over a stripped text, whose characters are the   *)
(* positions 0 .. Length - 1, and the estimate of its result that the API  *)
(* stores with the document before the worker has seen it.                 *)
(***************************************************************************)
EXTENDS Integers, Sequences, TLAPS

CONSTANTS
    Length,      \* len(text), after strip()
    ChunkSize,   \* chunk_size
    Overlap      \* overlap

VARIABLES
    start,
    chunks       \* the positions of each chunk: from, and to which exclusively

chunkerVars == <<start, chunks>>

\* With overlap >= chunk_size the function raises instead.
Parameters ==
    /\ Length \in Nat /\ ChunkSize \in Nat /\ Overlap \in Nat
    /\ Overlap < ChunkSize

Stride == ChunkSize - Overlap

Smaller(i, j) == IF i < j THEN i ELSE j

ChunkerInit == start = 0 /\ chunks = << >>

\* text[start:end] ends with the text at the latest.
Cut ==
    /\ start < Length
    /\ chunks' = Append(chunks, [from |-> start, to |-> Smaller(start + ChunkSize, Length)])
    /\ start' = start + Stride

ChunkerSpec == Parameters /\ ChunkerInit /\ [][Cut]_chunkerVars

Finished == start >= Length

\* max(1, (len(content) + 399) // 400), of the content before it is stripped.
Estimate(content) == IF content = 0 THEN 1 ELSE (content + 399) \div 400

----------------------------------------------------------------------------

\* No character is lost, and no chunk is empty or longer than it may be.
NothingIsLost ==
    /\ Finished => \A p \in 0 .. Length - 1 :
                      \E i \in DOMAIN chunks : chunks[i].from <= p /\ p < chunks[i].to
    /\ \A i \in DOMAIN chunks : chunks[i].to - chunks[i].from \in 1 .. ChunkSize

\* Each two consecutive chunks share Overlap characters, or what the text has
\* left for the second if that is less: it may lie wholly within the first.
ConsecutiveOverlap ==
    \A i \in DOMAIN chunks : i + 1 \in DOMAIN chunks =>
        \/ chunks[i].to - chunks[i + 1].from = Overlap
        \/ chunks[i].to = chunks[i + 1].to

\* With the default sizes, the API's estimate for a text without blanks at its
\* ends is the number of its chunks, and otherwise at least that.
EstimateIsSafe ==
    Finished /\ ChunkSize = 500 /\ Overlap = 100 =>
        /\ Length > 0 => Len(chunks) = Estimate(Length)
        /\ \A content \in Nat : content >= Length => Len(chunks) <= Estimate(content)

\* Chunk i starts i - 1 strides into the text, before its end.
ChunkerInv ==
    /\ Parameters
    /\ start \in Nat
    /\ chunks \in Seq([from : Nat, to : Nat])
    /\ start = Len(chunks) * Stride
    /\ Len(chunks) > 0 => start - Stride < Length
    /\ \A i \in DOMAIN chunks : /\ chunks[i].from = (i - 1) * Stride
                                /\ chunks[i].from < Length
                                /\ chunks[i].to = Smaller(chunks[i].from + ChunkSize, Length)
    /\ \A p \in 0 .. Smaller(start, Length) - 1 :
          \E i \in DOMAIN chunks : chunks[i].from <= p /\ p < chunks[i].to

LEMMA CutKeepsInv ==
    ASSUME ChunkerInv, Cut
    PROVE  ChunkerInv'
<1> DEFINE new == [from |-> start, to |-> Smaller(start + ChunkSize, Length)]
           n == Len(chunks)
<1>p. Parameters /\ Stride \in Nat \ {0} /\ n \in Nat
      /\ chunks \in Seq([from : Nat, to : Nat]) /\ start \in Nat
  BY DEF ChunkerInv, Parameters, Stride
<1>1. chunks' = Append(chunks, new) /\ start' = start + Stride /\ start < Length
  BY DEF Cut
<1>2. new \in [from : Nat, to : Nat]
  BY <1>p DEF Smaller, Parameters
<1>3. chunks' \in Seq([from : Nat, to : Nat]) /\ Len(chunks') = n + 1 /\ start' \in Nat
  BY <1>p, <1>1, <1>2
<1>4. start' = Len(chunks') * Stride
  <2>1. start = n * Stride
    BY DEF ChunkerInv
  <2>2. (n + 1) * Stride = n * Stride + Stride
    BY <1>p
  <2> QED
    BY <1>1, <1>3, <2>1, <2>2
<1>5. start' - Stride < Length
  BY <1>p, <1>1
<1>6. \A i \in DOMAIN chunks : chunks'[i] = chunks[i] /\ i \in DOMAIN chunks'
  BY <1>p, <1>1, <1>2
<1>7. chunks'[n + 1] = new /\ n + 1 \in DOMAIN chunks'
      /\ \A i \in DOMAIN chunks' : i \in DOMAIN chunks \/ i = n + 1
  BY <1>p, <1>1, <1>2
<1>8. ASSUME NEW i \in DOMAIN chunks'
      PROVE  /\ chunks'[i].from = (i - 1) * Stride
             /\ chunks'[i].from < Length
             /\ chunks'[i].to = Smaller(chunks'[i].from + ChunkSize, Length)
  <2>1. CASE i \in DOMAIN chunks
    BY <1>6, <2>1 DEF ChunkerInv
  <2>2. CASE i = n + 1
    <3>1. (i - 1) * Stride = start
      BY <1>p, <2>2 DEF ChunkerInv
    <3> QED
      BY <1>1, <1>7, <2>2, <3>1
  <2> QED
    BY <1>7, <2>1, <2>2
<1>9. ASSUME NEW p \in 0 .. Smaller(start', Length) - 1
      PROVE  \E i \in DOMAIN chunks' : chunks'[i].from <= p /\ p < chunks'[i].to
  <2>1. CASE p < start
    <3>1. p \in 0 .. Smaller(start, Length) - 1
      BY <1>p, <1>1, <2>1 DEF Smaller, Parameters
    <3>2. PICK i \in DOMAIN chunks : chunks[i].from <= p /\ p < chunks[i].to
      BY <3>1 DEF ChunkerInv
    <3> QED
      BY <1>6, <3>2
  <2>2. CASE ~(p < start)
    <3>1. new.from <= p /\ p < new.to
      BY <1>p, <1>1, <2>2 DEF Smaller, Parameters, Stride
    <3> QED
      BY <1>7, <3>1
  <2> QED
    BY <2>1, <2>2
<1> HIDE DEF new, n
<1> QED
  BY <1>p, <1>3, <1>4, <1>5, <1>8, <1>9 DEF ChunkerInv, Parameters, Stride

LEMMA ChunkIsTyped ==
    ASSUME ChunkerInv, NEW i \in DOMAIN chunks
    PROVE  i \in Nat /\ chunks[i].from \in Nat /\ chunks[i].to \in Nat
<1> DEFINE Interval == [from : Nat, to : Nat]
<1>1. chunks \in Seq(Interval)
  BY DEF ChunkerInv
<1> HIDE DEF Interval
<1>2. chunks[i] \in Interval /\ i \in Nat
  BY <1>1
<1> QED
  BY <1>2 DEF Interval

LEMMA InvLosesNothing == ChunkerInv => NothingIsLost
<1> SUFFICES ASSUME ChunkerInv PROVE NothingIsLost
  OBVIOUS
<1>1. Finished => Smaller(start, Length) = Length
  BY DEF Finished, Smaller, ChunkerInv, Parameters
<1>2. ASSUME NEW i \in DOMAIN chunks PROVE chunks[i].to - chunks[i].from \in 1 .. ChunkSize
  <2> DEFINE f == chunks[i].from
  <2>1. chunks[i].to = Smaller(f + ChunkSize, Length) /\ f < Length
    BY DEF ChunkerInv
  <2>2. f \in Nat /\ Length \in Nat /\ ChunkSize \in Nat \ {0}
    BY ChunkIsTyped DEF ChunkerInv, Parameters
  <2> HIDE DEF f
  <2>3. Smaller(f + ChunkSize, Length) - f \in 1 .. ChunkSize
    BY <2>1, <2>2 DEF Smaller
  <2> QED
    BY <2>1, <2>3 DEF f
<1> QED
  BY <1>1, <1>2 DEF NothingIsLost, ChunkerInv

LEMMA InvOverlaps == ChunkerInv => ConsecutiveOverlap
<1> SUFFICES ASSUME ChunkerInv, NEW i \in DOMAIN chunks, i + 1 \in DOMAIN chunks
             PROVE  \/ chunks[i].to - chunks[i + 1].from = Overlap
                    \/ chunks[i].to = chunks[i + 1].to
  BY DEF ConsecutiveOverlap
<1>1. i \in Nat /\ Stride \in Nat /\ chunks[i].from \in Nat
  <2>1. i \in Nat /\ chunks[i].from \in Nat
    BY ChunkIsTyped
  <2>2. Stride \in Nat
    BY DEF ChunkerInv, Parameters, Stride
  <2> QED
    BY <2>1, <2>2
<1>2. chunks[i + 1].from = i * Stride /\ chunks[i].from = (i - 1) * Stride
  BY <1>1 DEF ChunkerInv
<1>3. i * Stride = (i - 1) * Stride + Stride
  BY <1>1
<1>4. chunks[i + 1].from = chunks[i].from + Stride
  BY <1>2, <1>3
<1> DEFINE f == chunks[i].from
           g == chunks[i + 1].from
<1>5. chunks[i].to = Smaller(f + ChunkSize, Length)
      /\ chunks[i + 1].to = Smaller(g + ChunkSize, Length)
  BY DEF ChunkerInv
<1>6. f \in Nat /\ g = f + (ChunkSize - Overlap) /\ Length \in Nat
      /\ ChunkSize \in Nat /\ Overlap \in Nat /\ Overlap < ChunkSize
  BY <1>1, <1>4 DEF ChunkerInv, Parameters, Stride
<1> HIDE DEF f, g
<1>7. \/ Smaller(f + ChunkSize, Length) - g = Overlap
      \/ Smaller(f + ChunkSize, Length) = Smaller(g + ChunkSize, Length)
  BY <1>6 DEF Smaller
<1> QED
  BY <1>5, <1>7 DEF f, g

LEMMA InvEstimates == ChunkerInv => EstimateIsSafe
<1> SUFFICES ASSUME ChunkerInv, Finished, ChunkSize = 500, Overlap = 100
             PROVE  /\ Length > 0 => Len(chunks) = Estimate(Length)
                    /\ \A content \in Nat : content >= Length => Len(chunks) <= Estimate(content)
  BY DEF EstimateIsSafe
<1> DEFINE n == Len(chunks)
<1>1. n \in Nat /\ Length \in Nat /\ start = n * Stride /\ (n > 0 => start - Stride < Length)
      /\ start >= Length
  BY DEF ChunkerInv, Parameters, Finished
<1>s. Stride = 400
  BY DEF Stride
<1> HIDE DEF n
<1>2. n * 400 >= Length /\ (n > 0 => n * 400 - 400 < Length)
  BY <1>1, <1>s
<1>3. Length > 0 => n = Estimate(Length)
  BY <1>1, <1>2 DEF Estimate
<1>4. ASSUME NEW content \in Nat, content >= Length PROVE n <= Estimate(content)
  BY <1>1, <1>2, <1>4 DEF Estimate
<1> QED
  BY <1>3, <1>4 DEF n

\* The chunks of a document cover its text, for every length and every pair of
\* sizes chunk_text accepts; consecutive ones overlap, and there are as many as
\* the client was told (chunker.py:30-37, documents.py:60, 174).
THEOREM ChunksCoverTheText ==
    ChunkerSpec => [](NothingIsLost /\ ConsecutiveOverlap /\ EstimateIsSafe)
<1>1. Parameters /\ ChunkerInit => ChunkerInv
  BY DEF ChunkerInit, ChunkerInv, Parameters, Stride, Smaller
<1>2. ChunkerInv /\ [Cut]_chunkerVars => ChunkerInv'
  <2>1. ChunkerInv /\ Cut => ChunkerInv'
    BY CutKeepsInv
  <2>2. ChunkerInv /\ UNCHANGED chunkerVars => ChunkerInv'
    BY DEF chunkerVars, ChunkerInv
  <2> QED
    BY <2>1, <2>2
<1>3. ChunkerInv => NothingIsLost /\ ConsecutiveOverlap /\ EstimateIsSafe
  BY InvLosesNothing, InvOverlaps, InvEstimates
<1> QED
  BY <1>1, <1>2, <1>3, PTL DEF ChunkerSpec
=============================================================================
