------------------------------ MODULE DocText ------------------------------
(***************************************************************************)
(* The text algorithms of the storage server (storage_server/main.c): how  *)
(* a document is split into sentences, which sentences WRITE may lock, how *)
(* a word is inserted into the locked sentence, and how ETIRW merges the   *)
(* edited copy into the current document.                                  *)
(*                                                                         *)
(* A document is a sequence of words (strtok on blanks).  A word is a base *)
(* with `marks' trailing sentence delimiters; the three delimiter          *)
(* characters are not told apart.  "a" is a base without marks, "a."       *)
(* carries one mark, ".." is the empty base with two.                      *)
(***************************************************************************)
EXTENDS Naturals, Sequences

CONSTANT MaxSentences       \* capacity of the sentence_info_t arrays (256)

ASSUME MaxSentencesAssumption == MaxSentences \in Nat \ {0}

Ends(word)  == word.marks > 0
Blank(word) == word.base = "" /\ word.marks = 0
Strip(word) == [word EXCEPT !.marks = @ - 1]
Close(word) == [word EXCEPT !.marks = @ + 1]

Front(words) == SubSeq(words, 1, Len(words) - 1)
Final(words) == words[Len(words)]

(***************************************************************************)
(* The scan over the words: a delimited word ends the current sentence     *)
(* while the array has room; a full array neither records the sentence nor *)
(* advances the start of the next one.                                     *)
(***************************************************************************)
Scan(words) ==
  LET step[i \in 0..Len(words)] ==
        IF i = 0 THEN [start |-> 1, found |-> <<>>]
        ELSE LET prev == step[i - 1]
             IN  IF Ends(words[i]) /\ Len(prev.found) < MaxSentences
                 THEN [start |-> i + 1,
                       found |-> Append(prev.found, [first |-> prev.start, last |-> i])]
                 ELSE prev
  IN  step[Len(words)]

\* Mutant: a sentence that is open at the end of the text is forgotten.
SentencesClosedOnly(words) == Scan(words).found

\* All sentences, the unfinished one at the end of the text included.
Sentences(words) ==
  LET scan == Scan(words)
  IN  IF scan.start <= Len(words) /\ Len(scan.found) < MaxSentences
      THEN Append(scan.found, [first |-> scan.start, last |-> Len(words)])
      ELSE scan.found

NumSentences(words) == Len(Sentences(words))

Sentence(words, k) ==
  LET at == Sentences(words)[k] IN SubSeq(words, at.first, at.last)

Before(words, k) == SubSeq(words, 1, Sentences(words)[k].first - 1)

(***************************************************************************)
(* WRITE reads the file twice: `seen' is the handler's own read, `again'   *)
(* the read of get_sentence_info_simple.  The highest sentence number the  *)
(* command accepts.                                                        *)
(***************************************************************************)
Available(seen, again) ==
  LET n    == NumSentences(again)
      stop == Sentences(again)[n].last
  IN  IF seen = <<>> THEN 1
      ELSE IF n = 0 THEN 2
      ELSE IF \/ stop < Len(seen)
              \/ stop = Len(seen) /\ Ends(seen[stop])
           THEN n + 1
           ELSE n

\* Mutant: the word emptied of its delimiter is kept.
BodyKeepsBlank(words, k) ==
  LET sent == Sentence(words, k)
  IN  IF Ends(Final(sent)) THEN Append(Front(sent), Strip(Final(sent))) ELSE sent

\* The words of sentence k without its closing delimiter; a last word that was
\* nothing but the delimiter is dropped.
Body(words, k) ==
  LET sent == Sentence(words, k)
  IN  IF ~Ends(Final(sent)) THEN sent
      ELSE IF Blank(Strip(Final(sent))) THEN Front(sent)
      ELSE Append(Front(sent), Strip(Final(sent)))

\* The word indices an edit line may name.
InsertOK(words, k, idx) ==
  /\ idx >= 1
  /\ IF k > NumSentences(words) THEN idx = 1 ELSE idx <= Len(Body(words, k)) + 1

\* Mutant: the delimiter is not put back.
InsertForgetsMark(words, k, idx, new) ==
  IF k > NumSentences(words) THEN words \o new
  ELSE LET body == Body(words, k)
           stop == Sentences(words)[k].last
       IN  Before(words, k) \o SubSeq(body, 1, idx - 1) \o new
             \o SubSeq(body, idx, Len(body)) \o SubSeq(words, stop + 1, Len(words))

\* An edit line `idx new': the words go in before position idx of the sentence,
\* and the closing delimiter, if there was one, moves to the new last word.
Insert(words, k, idx, new) ==
  IF k > NumSentences(words) THEN words \o new
  ELSE LET body   == Body(words, k)
           stop   == Sentences(words)[k].last
           edited == SubSeq(body, 1, idx - 1) \o new \o SubSeq(body, idx, Len(body))
       IN  Before(words, k)
             \o (IF Ends(words[stop])
                 THEN Append(Front(edited), Close(Final(edited)))
                 ELSE edited)
             \o SubSeq(words, stop + 1, Len(words))

\* Mutant: the sentences after the target are taken from one sentence too far.
MergeSkipsNext(current, swap, k) ==
  LET n == NumSentences(current)
  IN  IF n = 0 THEN swap
      ELSE IF k > n THEN current \o Sentence(swap, NumSentences(swap))
      ELSE Before(current, k) \o Sentence(swap, k)
             \o (IF k + 1 < n
                 THEN SubSeq(current, Sentences(current)[k + 2].first, Len(current))
                 ELSE <<>>)

(***************************************************************************)
(* ETIRW: the current document with sentence k taken from the swap copy.   *)
(* A sentence beyond the current ones is appended from the last sentence   *)
(* of the swap copy.  Words past the last recorded sentence are not copied.*)
(***************************************************************************)
Merge(current, swap, k) ==
  LET n == NumSentences(current)
      m == NumSentences(swap)
  IN  IF n = 0 THEN swap
      ELSE IF k > n THEN IF m > 0 THEN current \o Sentence(swap, m) ELSE current
      ELSE Before(current, k)
             \o (IF k <= m THEN Sentence(swap, k) ELSE <<>>)
             \o SubSeq(current, Sentences(current)[k].last + 1, Sentences(current)[n].last)
=============================================================================
