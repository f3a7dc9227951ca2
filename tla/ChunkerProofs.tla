--------------------------- MODULE ChunkerProofs ----------------------------
(***************************************************************************)
(* For every text, chunk size and overlap: the chunks have the right size  *)
(* and none of the words is lost.  The invariant says where the words read *)
(* but not yet in a chunk stand to the last chunk.                         *)
(***************************************************************************)
EXTENDS Chunker, TLAPS

FirstOf(c) == IF c = <<>> THEN 1 ELSE c[Len(c)].first
LastOf(c) == IF c = <<>> THEN 0 ELSE c[Len(c)].last

\* The parts of NothingLost and ChunksFit that are about the chunks alone.
Chain(c) ==
    /\ Len(c) > 0 => c[1].first = 1
    /\ \A k \in 1..(Len(c) - 1) :
          /\ c[k + 1].first <= c[k].last + 1
          /\ c[k].first <= c[k + 1].first
          /\ c[k].last <= c[k + 1].last
Fit(c) ==
    \A k \in 1..Len(c) :
        c[k].first <= c[k].last /\ c[k].last < c[k].first + Size + Overlap

Adding(c, lo, hi) == Append(c, [first |-> lo + 1, last |-> hi])

\* What lo has to be for a chunk of the words lo + 1 .. hi to come next.
Joins(c, lo) == lo <= LastOf(c) /\ FirstOf(c) <= lo + 1

\* current_words join the last chunk; when there are none, all is in chunks.
CollectInv ==
    pc = "paragraph" =>
        /\ Joins(chunks, from) /\ LastOf(chunks) <= pos
        /\ from = pos => LastOf(chunks) = pos
        /\ pos - from <= Size + Overlap

\* The window joins the last chunk, or has passed the paragraph's end.
WindowInv ==
    pc = "window" =>
        /\ next <= Len(text)
        /\ pos <= start
        /\ Joins(chunks, start) \/ (start >= End /\ LastOf(chunks) = End)
        /\ start >= End => LastOf(chunks) = End
        /\ LastOf(chunks) <= End /\ LastOf(chunks) <= start + Overlap

DoneInv == pc = "done" => LastOf(chunks) = pos

IInv ==
    /\ TypeOK /\ from <= pos
    /\ Chain(chunks) /\ Fit(chunks)
    /\ CollectInv /\ WindowInv /\ DoneInv
-----------------------------------------------------------------------------
USE ChunkerAssumption

\* The ends of the last chunk are positions.
LEMMA EndsAreNumbers ==
  ASSUME NEW c \in Seq(Chunk)
  PROVE  FirstOf(c) \in Nat /\ LastOf(c) \in Nat
<1>1. CASE c = <<>>
  BY <1>1 DEF FirstOf, LastOf
<1>2. CASE c # <<>>
  <2>1. c[Len(c)] \in Chunk
    BY <1>2
  <2>2. QED
    BY <2>1, <1>2 DEF FirstOf, LastOf, Chunk
<1>3. QED
  BY <1>1, <1>2

\* A chunk that joins the last one, ends no earlier and is not too long keeps
\* the chunks in order and in size.
LEMMA ChunkAppended ==
  ASSUME NEW c \in Seq(Chunk), Chain(c), Fit(c),
         NEW lo \in Nat, NEW hi \in Nat,
         lo < hi, Joins(c, lo), LastOf(c) <= hi, hi - lo <= Size + Overlap
  PROVE  /\ Adding(c, lo, hi) \in Seq(Chunk)
         /\ Chain(Adding(c, lo, hi)) /\ Fit(Adding(c, lo, hi))
         /\ LastOf(Adding(c, lo, hi)) = hi /\ FirstOf(Adding(c, lo, hi)) = lo + 1
<1> DEFINE chunk == [first |-> lo + 1, last |-> hi]
           d == Adding(c, lo, hi)
<1>1. chunk \in Chunk /\ chunk.first = lo + 1 /\ chunk.last = hi
  BY DEF Chunk
<1>2. d \in Seq(Chunk) /\ Len(d) = Len(c) + 1 /\ Len(c) \in Nat /\ d # <<>>
  BY <1>1 DEF Adding
<1>3. d[Len(d)] = chunk /\ \A k \in 1..Len(c) : d[k] = c[k]
  BY <1>1, <1>2 DEF Adding
<1> HIDE DEF d
<1>4. \A k \in 1..Len(c) : c[k].first \in Nat /\ c[k].last \in Nat
  <2>1. \A k \in 1..Len(c) : c[k] \in Chunk
    OBVIOUS
  <2>2. QED
    BY <2>1 DEF Chunk
<1>5. LastOf(d) = hi /\ FirstOf(d) = lo + 1
  BY <1>1, <1>2, <1>3 DEF LastOf, FirstOf
<1>6. Fit(d)
  BY <1>1, <1>2, <1>3, <1>4 DEF Fit
<1>7. d[1].first = 1
  <2>1. CASE c = <<>>
    BY <2>1, <1>1, <1>2, <1>3 DEF Joins, LastOf
  <2>2. CASE c # <<>>
    BY <2>2, <1>2, <1>3 DEF Chain
  <2>3. QED
    BY <2>1, <2>2
<1>8. ASSUME NEW k \in 1..(Len(d) - 1)
      PROVE  /\ d[k + 1].first <= d[k].last + 1
             /\ d[k].first <= d[k + 1].first
             /\ d[k].last <= d[k + 1].last
  <2>1. CASE k = Len(c)
    <3>1. c # <<>> /\ d[k] = c[Len(c)] /\ d[k + 1] = chunk
      BY <2>1, <1>2, <1>3
    <3>2. QED
      BY <3>1, <1>1, <1>4, <2>1 DEF Joins, LastOf, FirstOf
  <2>2. CASE k # Len(c)
    <3>1. k \in 1..(Len(c) - 1) /\ d[k] = c[k] /\ d[k + 1] = c[k + 1]
      BY <2>2, <1>2, <1>3
    <3>2. QED
      BY <3>1 DEF Chain
  <2>3. QED
    BY <2>1, <2>2
<1>9. Chain(d)
  BY <1>2, <1>7, <1>8 DEF Chain
<1>10. QED
  BY <1>2, <1>5, <1>6, <1>9 DEF d

\* Where the loop is at a paragraph, its length is a positive number.
LEMMA ParagraphHasWords ==
  ASSUME TypeOK, next <= Len(text)
  PROVE  Words \in Nat \ {0} /\ End \in Nat /\ End = pos + Words
BY DEF TypeOK, Words, End

\* Before the first paragraph nothing is collected and nothing cut.
LEMMA InitIInv == Init => IInv
BY DEF Init, IInv, TypeOK, Chain, Fit, CollectInv, WindowInv, DoneInv, Joins, FirstOf, LastOf

\* What becomes of current_words when they are flushed: everything read so far
\* is in the chunks.
LEMMA FlushKeeps ==
  ASSUME IInv, pc = "paragraph"
  PROVE  /\ Flushed \in Seq(Chunk) /\ Chain(Flushed) /\ Fit(Flushed)
         /\ LastOf(Flushed) = pos
         /\ FirstOf(Flushed) <= from + 1
<1>1. CASE from < pos
  <2>1. Flushed = Adding(chunks, from, pos)
    BY <1>1 DEF Flushed, Cut, Adding
  <2>2. /\ chunks \in Seq(Chunk) /\ Chain(chunks) /\ Fit(chunks)
        /\ from \in Nat /\ pos \in Nat
        /\ Joins(chunks, from) /\ LastOf(chunks) <= pos /\ pos - from <= Size + Overlap
    BY DEF IInv, TypeOK, CollectInv
  <2>3. Flushed \in Seq(Chunk) /\ Chain(Flushed) /\ Fit(Flushed)
        /\ LastOf(Flushed) = pos /\ FirstOf(Flushed) = from + 1
    BY <1>1, <2>1, <2>2, ChunkAppended
  <2>4. QED
    BY <2>2, <2>3
<1>2. CASE ~(from < pos)
  <2>1. Flushed = chunks /\ from = pos
    BY <1>2 DEF Flushed, IInv, TypeOK
  <2>2. QED
    BY <2>1 DEF IInv, TypeOK, CollectInv, Joins
<1>3. QED
  BY <1>1, <1>2

\* Everything collected becomes chunks, and current_words the tail and the
\* paragraph.
LEMMA BeginInv ==
  ASSUME IInv, Begin
  PROVE  IInv'
<1>1. /\ pc = "paragraph" /\ next <= Len(text) /\ Words <= Size
      /\ pos' = End /\ from' = Carried /\ chunks' = Flushed /\ next' = next + 1
      /\ text' = text /\ start' = start /\ pc' = pc
  BY DEF Begin, AtParagraph
<1>2. Words \in Nat \ {0} /\ End \in Nat /\ End = pos + Words /\ pos \in Nat /\ from \in Nat
  BY <1>1, ParagraphHasWords DEF IInv, TypeOK
<1>3. /\ Flushed \in Seq(Chunk) /\ Chain(Flushed) /\ Fit(Flushed)
      /\ LastOf(Flushed) = pos /\ FirstOf(Flushed) <= from + 1
  BY <1>1, FlushKeeps
<1>4. FirstOf(Flushed) \in Nat
  BY <1>3, EndsAreNumbers
<1>5. from' \in Nat /\ from <= from' /\ from' <= pos /\ pos - from' <= Overlap
  BY <1>1, <1>2 DEF Carried, Greater, IInv
<1>6. TypeOK'
  BY <1>1, <1>2, <1>3, <1>5 DEF IInv, TypeOK
<1>7. Joins(chunks', from')
  BY <1>1, <1>2, <1>3, <1>4, <1>5 DEF Joins
<1>8. CollectInv'
  BY <1>1, <1>2, <1>3, <1>5, <1>7 DEF CollectInv
<1>9. QED
  BY <1>1, <1>2, <1>3, <1>5, <1>6, <1>8 DEF IInv, WindowInv, DoneInv

\* The paragraph joins the words collected before it.
LEMMA ExtendInv ==
  ASSUME IInv, Extend
  PROVE  IInv'
<1>1. /\ pc = "paragraph" /\ next <= Len(text) /\ (pos - from) + Words <= Size
      /\ pos' = End /\ next' = next + 1
      /\ text' = text /\ from' = from /\ start' = start /\ chunks' = chunks /\ pc' = pc
  BY DEF Extend, AtParagraph
<1>2. Words \in Nat \ {0} /\ End \in Nat /\ End = pos + Words /\ pos \in Nat /\ from \in Nat
  BY <1>1, ParagraphHasWords DEF IInv, TypeOK
<1>3. LastOf(chunks) \in Nat
  BY EndsAreNumbers DEF IInv, TypeOK
<1>4. TypeOK'
  BY <1>1, <1>2 DEF IInv, TypeOK
<1>5. CollectInv'
  BY <1>1, <1>2, <1>3 DEF IInv, CollectInv, Joins
<1>6. QED
  BY <1>1, <1>2, <1>4, <1>5 DEF IInv, WindowInv, DoneInv

\* The window starts where the chunks end.
LEMMA BeginWindowInv ==
  ASSUME IInv, BeginWindow
  PROVE  IInv'
<1>1. /\ pc = "paragraph" /\ next <= Len(text) /\ Words > Size
      /\ start' = pos /\ pc' = "window" /\ chunks' = Flushed
      /\ text' = text /\ next' = next /\ pos' = pos /\ from' = from
  BY DEF BeginWindow, AtParagraph
<1>2. Words \in Nat \ {0} /\ End \in Nat /\ End = pos + Words /\ pos \in Nat /\ from \in Nat
  BY <1>1, ParagraphHasWords DEF IInv, TypeOK
<1>3. End' = End
  BY <1>1 DEF End, Words
<1>4. /\ Flushed \in Seq(Chunk) /\ Chain(Flushed) /\ Fit(Flushed)
      /\ LastOf(Flushed) = pos /\ FirstOf(Flushed) <= from + 1
  BY <1>1, FlushKeeps
<1>5. FirstOf(Flushed) \in Nat
  BY <1>4, EndsAreNumbers
<1>6. TypeOK'
  BY <1>1, <1>2, <1>4 DEF IInv, TypeOK
<1>7. Joins(chunks', start')
  BY <1>1, <1>2, <1>4, <1>5 DEF Joins, IInv
<1>8. WindowInv'
  BY <1>1, <1>2, <1>3, <1>4, <1>7 DEF WindowInv
<1>9. QED
  BY <1>1, <1>2, <1>4, <1>6, <1>8 DEF IInv, CollectInv, DoneInv

\* A window reaches further than the one before it, because Overlap < Size,
\* and starts no later than that one ends.
LEMMA SlideInv ==
  ASSUME IInv, Slide
  PROVE  IInv'
<1> DEFINE hi == Lesser(start + Size, End)
<1>1. /\ pc = "window" /\ start < End
      /\ chunks' = Adding(chunks, start, hi)
      /\ start' = start + Size - Overlap
      /\ text' = text /\ next' = next /\ pos' = pos /\ from' = from /\ pc' = pc
  BY DEF Slide, Cut, Adding
<1>2. next <= Len(text)
  BY <1>1 DEF IInv, WindowInv
<1>3. /\ Words \in Nat \ {0} /\ End \in Nat /\ pos \in Nat /\ from \in Nat /\ start \in Nat
      /\ chunks \in Seq(Chunk)
  BY <1>2, ParagraphHasWords DEF IInv, TypeOK
<1>4. End' = End
  BY <1>1 DEF End, Words
<1>5. LastOf(chunks) \in Nat
  BY <1>3, EndsAreNumbers
<1>6. Joins(chunks, start) /\ LastOf(chunks) <= End /\ LastOf(chunks) <= start + Overlap
  BY <1>1, <1>3 DEF IInv, WindowInv
<1>7. hi \in Nat /\ start < hi /\ LastOf(chunks) <= hi /\ hi - start <= Size + Overlap
  BY <1>1, <1>3, <1>5, <1>6 DEF Lesser
<1>8. /\ chunks' \in Seq(Chunk) /\ Chain(chunks') /\ Fit(chunks')
      /\ LastOf(chunks') = hi /\ FirstOf(chunks') = start + 1
  <2> HIDE DEF hi
  <2>1. Chain(chunks) /\ Fit(chunks)
    BY DEF IInv
  <2>2. QED
    BY <1>1, <1>3, <1>6, <1>7, <2>1, ChunkAppended
<1>9. start' \in Nat /\ start < start'
  BY <1>1, <1>3
<1>10. TypeOK'
  BY <1>1, <1>8, <1>9 DEF IInv, TypeOK
<1>11. WindowInv'
  <2>1. hi <= start' + Overlap /\ hi <= End /\ (start' >= End => hi = End)
    BY <1>1, <1>3 DEF Lesser
  <2>2. start' <= hi \/ (start' >= End /\ hi = End)
    BY <1>1, <1>3 DEF Lesser
  <2>3. Joins(chunks', start') \/ (start' >= End /\ LastOf(chunks') = End)
    <3> HIDE DEF hi
    <3>1. start + 1 <= start' + 1
      BY <1>1, <1>3
    <3>2. QED
      BY <2>2, <3>1, <1>8 DEF Joins
  <2>4. pos <= start'
    BY <1>1, <1>3, <1>9 DEF IInv, WindowInv
  <2>5. QED
    BY <1>1, <1>2, <1>4, <1>8, <2>1, <2>3, <2>4 DEF WindowInv
<1>12. QED
  BY <1>1, <1>8, <1>10, <1>11 DEF IInv, CollectInv, DoneInv

\* A window that has passed the paragraph's end leaves all its words in chunks.
LEMMA EndWindowInv ==
  ASSUME IInv, EndWindow
  PROVE  IInv'
<1>1. /\ pc = "window" /\ start >= End /\ pos' = End /\ from' = End
      /\ next' = next + 1 /\ pc' = "paragraph"
      /\ text' = text /\ start' = start /\ chunks' = chunks
  BY DEF EndWindow
<1>2. next <= Len(text) /\ LastOf(chunks) = End
  BY <1>1 DEF IInv, WindowInv
<1>3. Words \in Nat \ {0} /\ End \in Nat /\ chunks \in Seq(Chunk) /\ Fit(chunks)
  BY <1>2, ParagraphHasWords DEF IInv, TypeOK
<1>4. FirstOf(chunks) <= End + 1
  <2>1. CASE chunks = <<>>
    BY <2>1, <1>3 DEF FirstOf
  <2>2. CASE chunks # <<>>
    <3>1. Len(chunks) \in 1..Len(chunks) /\ chunks[Len(chunks)] \in Chunk
      BY <2>2, <1>3
    <3>2. chunks[Len(chunks)].first <= chunks[Len(chunks)].last
      BY <3>1, <1>3 DEF Fit
    <3>3. QED
      BY <2>2, <3>1, <3>2, <1>2, <1>3 DEF FirstOf, LastOf, Chunk
  <2>3. QED
    BY <2>1, <2>2
<1>5. TypeOK'
  BY <1>1, <1>2, <1>3 DEF IInv, TypeOK
<1>6. CollectInv'
  BY <1>1, <1>2, <1>3, <1>4 DEF CollectInv, Joins
<1>7. QED
  BY <1>1, <1>3, <1>5, <1>6 DEF IInv, WindowInv, DoneInv

\* The last chunk ends with the last word.
LEMMA FinishInv ==
  ASSUME IInv, Finish
  PROVE  IInv'
<1>1. /\ pc = "paragraph" /\ pc' = "done" /\ chunks' = Flushed
      /\ text' = text /\ next' = next /\ pos' = pos /\ from' = from /\ start' = start
  BY DEF Finish
<1>2. /\ Flushed \in Seq(Chunk) /\ Chain(Flushed) /\ Fit(Flushed)
      /\ LastOf(Flushed) = pos
  BY <1>1, FlushKeeps
<1>3. TypeOK'
  BY <1>1, <1>2 DEF IInv, TypeOK
<1>4. QED
  BY <1>1, <1>2, <1>3 DEF IInv, CollectInv, WindowInv, DoneInv

\* The invariant holds of every run of the chunker.
LEMMA Inductive == Spec => []IInv
<1>1. IInv /\ [Next]_vars => IInv'
  <2> SUFFICES ASSUME IInv, [Next]_vars PROVE IInv'
    OBVIOUS
  <2>1. CASE UNCHANGED vars
    BY <2>1 DEF vars, IInv, TypeOK, Chain, Fit, CollectInv, WindowInv, DoneInv, Joins,
                FirstOf, LastOf, End, Words
  <2>2. QED
    BY <2>1, ExtendInv, BeginInv, BeginWindowInv, SlideInv, EndWindowInv, FinishInv DEF Next
<1>2. QED
  BY InitIInv, <1>1, PTL DEF Spec
-----------------------------------------------------------------------------
\* chunk_text works on positions of the text and returns intervals of it.
THEOREM TypeCorrect == Spec => []TypeOK
<1>1. IInv => TypeOK
  BY DEF IInv
<1>2. QED
  BY Inductive, <1>1, PTL

\* For every text, size and smaller overlap no chunk is empty or longer than
\* chunk_size_words + overlap_words.
THEOREM ChunksAreBounded == Spec => []ChunksFit
<1>1. IInv => ChunksFit
  BY DEF IInv, Fit, ChunksFit
<1>2. QED
  BY Inductive, <1>1, PTL

\* Whatever the paragraphs, the chunks cover the text, in order and without a
\* gap, down to the last word.
THEOREM WordsAreCovered == Spec => []NothingLost
<1>1. IInv => NothingLost
  BY DEF IInv, TypeOK, Chain, DoneInv, LastOf, NothingLost
<1>2. QED
  BY Inductive, <1>1, PTL
=============================================================================
