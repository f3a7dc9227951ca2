------------------------------ MODULE Chunker ------------------------------
(***************************************************************************)
(* chunk_text (app/knowledge/ingestion/chunker.py): an article's words cut *)
(* into chunks, paragraph by paragraph.  Only positions matter: the words  *)
(* of the text are numbered from 1, a paragraph is its length, and a chunk *)
(* is an interval, because current_words always holds consecutive words.   *)
(***************************************************************************)
EXTENDS Integers, Sequences

CONSTANTS Text,         \* the texts: sequences of paragraph lengths
          Size,         \* chunk_size_words
          Overlap       \* overlap_words

\* An empty paragraph is dropped by the split.  Settings with Overlap >= Size
\* are not rejected anywhere, but under them the window never gets on.
ASSUME ChunkerAssumption ==
    /\ Text \subseteq Seq(Nat \ {0})
    /\ Size \in Nat \ {0} /\ Overlap \in Nat
    /\ Overlap < Size

VARIABLES
    text,       \* paragraphs, as lengths
    next,       \* the paragraph the loop is at
    pos,        \* how many words the paragraphs before it have
    from,       \* current_words are the words from + 1 .. pos
    start,      \* start of the window, while one slides
    chunks,     \* the chunks so far
    pc

vars == <<text, next, pos, from, start, chunks, pc>>

Chunk == [first : Nat \ {0}, last : Nat \ {0}]

Init ==
    /\ text \in Text
    /\ next = 1 /\ pos = 0 /\ from = 0 /\ start = 0
    /\ chunks = <<>>
    /\ pc = "paragraph"

Greater(a, b) == IF a >= b THEN a ELSE b
Lesser(a, b) == IF a <= b THEN a ELSE b

\* len(para_words), and the words there are with it.
Words == text[next]
End == pos + Words

AtParagraph == pc = "paragraph" /\ next <= Len(text)

Cut(lo, hi) == Append(chunks, [first |-> lo + 1, last |-> hi])

\* What is left of current_words when they become a chunk: the overlap tail.
Flushed == IF from < pos THEN Cut(from, pos) ELSE chunks

\* Bug of Carried: the tail starts before the words there are.
CarriedOfAny == pos - Overlap

Carried == Greater(from, pos - Overlap)

\* Bug of Extend: only what is collected counts, not what is added.
ExtendFull ==
    /\ AtParagraph
    /\ pos - from <= Size
    /\ pos' = End
    /\ next' = next + 1
    /\ UNCHANGED <<text, from, start, chunks, pc>>

\* The paragraph still fits.
Extend ==
    /\ AtParagraph
    /\ (pos - from) + Words <= Size
    /\ pos' = End
    /\ next' = next + 1
    /\ UNCHANGED <<text, from, start, chunks, pc>>

\* It does not: a chunk, and the tail of it carried on before the paragraph.
Begin ==
    /\ AtParagraph
    /\ (pos - from) + Words > Size /\ Words <= Size
    /\ chunks' = Flushed
    /\ from' = Carried
    /\ pos' = End
    /\ next' = next + 1
    /\ UNCHANGED <<text, start, pc>>

\* It would not fit by itself: a window slides over it, and it starts with the
\* paragraph's first word, not with the tail.
BeginWindow ==
    /\ AtParagraph
    /\ Words > Size
    /\ chunks' = Flushed
    /\ start' = pos
    /\ pc' = "window"
    /\ UNCHANGED <<text, next, pos, from>>

\* Bug of Slide: the window goes back by one word too many, and a chunk that
\* is the last one already is not added again.
SlideBack ==
    /\ pc = "window" /\ start < End
    /\ LET cut == Cut(start, Lesser(start + Size, End))
       IN  chunks' = IF chunks # <<>> /\ chunks[Len(chunks)] = cut[Len(cut)]
                     THEN chunks ELSE cut
    /\ start' = start + Size - Overlap - 1
    /\ UNCHANGED <<text, next, pos, from, pc>>

Slide ==
    /\ pc = "window" /\ start < End
    /\ chunks' = Cut(start, Lesser(start + Size, End))
    /\ start' = start + Size - Overlap
    /\ UNCHANGED <<text, next, pos, from, pc>>

\* After a window current_words is empty.
EndWindow ==
    /\ pc = "window" /\ start >= End
    /\ pos' = End /\ from' = End
    /\ next' = next + 1
    /\ pc' = "paragraph"
    /\ UNCHANGED <<text, start, chunks>>

\* Bug of Finish: what was collected last is left out.
FinishEarly ==
    /\ pc = "paragraph" /\ next > Len(text)
    /\ pc' = "done"
    /\ UNCHANGED <<text, next, pos, from, start, chunks>>

Finish ==
    /\ pc = "paragraph" /\ next > Len(text)
    /\ chunks' = Flushed
    /\ pc' = "done"
    /\ UNCHANGED <<text, next, pos, from, start>>

Next == Extend \/ Begin \/ BeginWindow \/ Slide \/ EndWindow \/ Finish

Spec == Init /\ [][Next]_vars

\* A function that runs is not stopped.
FairSpec == Spec /\ WF_vars(Next)
-----------------------------------------------------------------------------
\* The chunker works on positions of the text.
TypeOK ==
    /\ text \in Text
    /\ next \in 1..(Len(text) + 1)
    /\ pos \in Nat /\ from \in Nat /\ start \in Nat
    /\ chunks \in Seq(Chunk)
    /\ pc \in {"paragraph", "window", "done"}

\* No chunk is empty, and none is longer than chunk_size_words and the tail
\* that was carried into it: what the embedding model is given is bounded,
\* however the paragraphs fall.
ChunksFit ==
    \A k \in 1..Len(chunks) :
        /\ chunks[k].first <= chunks[k].last
        /\ chunks[k].last < chunks[k].first + Size + Overlap

\* No word of an article is lost to retrieval: the first chunk begins with its
\* first word, no gap is left between chunks, they come in the order of the
\* text, and at the end the last one ends with its last word.
NothingLost ==
    /\ Len(chunks) > 0 => chunks[1].first = 1
    /\ \A k \in 1..(Len(chunks) - 1) :
          /\ chunks[k + 1].first <= chunks[k].last + 1
          /\ chunks[k].first <= chunks[k + 1].first
          /\ chunks[k].last <= chunks[k + 1].last
    /\ pc = "done" =>
          IF chunks = <<>> THEN pos = 0 ELSE chunks[Len(chunks)].last = pos

\* An ingestion gets its chunks.
Ends == <>(pc = "done")
=============================================================================
