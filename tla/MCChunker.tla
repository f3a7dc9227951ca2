----------------------------- MODULE MCChunker ------------------------------
(* Chunker for TLC: every text of up to four paragraphs of up to eight
   words. *)
EXTENDS Chunker, SequencesExt

CONSTANTS MaxParagraphs, MaxWords

MCText == SeqOf(1..MaxWords, MaxParagraphs)
=============================================================================
