--------------------------- MODULE SentenceChunker ---------------------------
(***************************************************************************)
(* Cutting streamed text into speakable segments                           *)
(* (app/llm/sentence_chunker.py).  A text is a sequence of character       *)
(* classes: "w" any letter, "d" a letter before which "." makes one of     *)
(* _ABBREVIATIONS, "." sentence punctuation, "," clause punctuation, " "   *)
(* and "nl" white space.                                                   *)
(***************************************************************************)
EXTENDS Naturals, Sequences, FiniteSetsExt

CONSTANTS MinChars,   \* min_chars
          SoftLimit   \* soft_limit_chars

ASSUME ChunkerAssumption == MinChars \in Nat /\ SoftLimit \in Nat

Blank(c) == c \in {" ", "nl"}
Inked(t) == {i \in DOMAIN t : ~Blank(t[i])}
Strip(t) == IF Inked(t) = {} THEN <<>> ELSE SubSeq(t, Min(Inked(t)), Max(Inked(t)))
WithoutBlanks(t) == SelectSeq(t, LAMBDA c : ~Blank(c))

(* Where the scan of the buffer stops: at a line end after some text, at a  *)
(* sentence end that is long enough and no abbreviation, and at a sentence  *)
(* end which the next token may continue.                                   *)
SentenceEnds(t, i) ==
  /\ i < Len(t) /\ Blank(t[i + 1])
  /\ Len(Strip(SubSeq(t, 1, i))) >= MinChars
  /\ ~(i > 1 /\ t[i - 1] = "d")
Stops(t) == {i \in DOMAIN t :
               \/ t[i] = "nl" /\ Inked(SubSeq(t, 1, i - 1)) # {}
               \/ t[i] = "." /\ (i = Len(t) \/ SentenceEnds(t, i))}

ClauseEnds(t) == {i \in (MinChars + 2)..(Len(t) - 1) : t[i] = "," /\ Blank(t[i + 1])}

(* The length of the first segment of t, or 0 if none is complete.          *)
find_cut_Eager(t) ==
  IF Stops(t) # {} THEN Min(Stops(t))
  ELSE IF Len(t) >= SoftLimit /\ ClauseEnds(t) # {} THEN Max(ClauseEnds(t)) ELSE 0
find_cut(t) ==
  IF Stops(t) # {}
  THEN LET i == Min(Stops(t)) IN IF t[i] = "." /\ i = Len(t) THEN 0 ELSE i
  ELSE IF Len(t) >= SoftLimit /\ ClauseEnds(t) # {} THEN Max(ClauseEnds(t)) ELSE 0

(* The segments that are complete in t, and what is left.                   *)
feed_DropsPunctuation(t) ==
  LET from[i \in 1..(Len(t) + 1)] ==
        LET rest == SubSeq(t, i, Len(t))
            cut  == find_cut(rest)
        IN IF cut = 0 THEN [segments |-> <<>>, rest |-> rest]
           ELSE [segments |-> <<Strip(SubSeq(rest, 1, cut - 1))>> \o from[i + cut].segments,
                 rest     |-> from[i + cut].rest]
  IN from[1]
feed(t) ==
  LET from[i \in 1..(Len(t) + 1)] ==
        LET rest == SubSeq(t, i, Len(t))
            cut  == find_cut(rest)
            head == Strip(SubSeq(rest, 1, cut))
        IN IF cut = 0 THEN [segments |-> <<>>, rest |-> rest]
           ELSE [segments |-> (IF head = <<>> THEN <<>> ELSE <<head>>) \o from[i + cut].segments,
                 rest     |-> from[i + cut].rest]
  IN from[1]

flush(t) == IF Strip(t) = <<>> THEN <<>> ELSE <<Strip(t)>>
=============================================================================
