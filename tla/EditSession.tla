---------------------------- MODULE EditSession ----------------------------
(***************************************************************************)
(* The sequential contract of an edit session: one user, one document,     *)
(* WRITE, any number of edit lines, ETIRW.  StorageServer interleaves such *)
(* sessions; here the text algorithms of DocText are checked on their own  *)
(* against what a user who works alone is promised.                        *)
(***************************************************************************)
EXTENDS DocText

CONSTANTS
  InitialDocs,      \* the documents a session may start from
  Inputs,           \* the word sequences an edit line may carry
  MaxDocWords,      \* bound on the length of the edited copy
  NoCopy            \* no swap file

Words == [base : STRING, marks : Nat]

\* A text as strtok gives it: its words are not empty.
IsText(words) == words \in Seq(Words) /\ \A i \in 1..Len(words) : ~Blank(words[i])

ASSUME BoundAssumption == MaxDocWords \in Nat
ASSUME DocsAssumption == \A d \in InitialDocs : IsText(d) /\ Len(d) <= MaxDocWords
\* The format of an edit line, "%d %2047[^\n]", asks for at least one word.
ASSUME InputsAssumption == \A new \in Inputs : IsText(new) /\ new # <<>>

VARIABLES
  doc,              \* the document, files/<name>
  sent,             \* the locked sentence, 0 outside a session
  swap,             \* the swap copy, or NoCopy
  last              \* history: the last commit [sent, from, copy], or NoCopy

vars == <<doc, sent, swap, last>>

Copies == IF swap = NoCopy THEN doc ELSE swap

Init ==
  /\ doc \in InitialDocs
  /\ sent = 0
  /\ swap = NoCopy
  /\ last = NoCopy

\* WRITE <file> <k>
Write(k) ==
  /\ sent = 0
  /\ k <= Available(doc, doc)
  /\ sent' = k
  /\ last' = NoCopy
  /\ UNCHANGED <<doc, swap>>

\* <idx> <content>
Edit(idx, new) ==
  /\ sent > 0
  /\ InsertOK(Copies, sent, idx)
  /\ Len(Copies) + Len(new) <= MaxDocWords
  /\ swap' = Insert(Copies, sent, idx, new)
  /\ UNCHANGED <<doc, sent, last>>

\* ETIRW
Etirw ==
  /\ sent > 0
  /\ IF swap = NoCopy
     THEN UNCHANGED <<doc, last>>
     ELSE /\ doc' = Merge(doc, swap, sent)
          /\ last' = [sent |-> sent, from |-> doc, copy |-> swap]
  /\ swap' = NoCopy
  /\ sent' = 0

Next ==
  \/ \E k \in 1..MaxDocWords + 1 : Write(k)
  \/ \E idx \in 1..MaxDocWords + 1, new \in Inputs : Edit(idx, new)
  \/ Etirw

Spec == Init /\ [][Next]_vars

-----------------------------------------------------------------------------

\* Every word of the document and of the edited copy is a real word: taking the
\* delimiter off the last word of a sentence (the "." that stood alone) never
\* leaves an empty string behind that the next tokenisation would not see.
NoBlankWord ==
  /\ \A i \in 1..Len(doc) : ~Blank(doc[i])
  /\ swap # NoCopy => \A i \in 1..Len(swap) : ~Blank(swap[i])

\* The scan of main.c finds exactly the sentences of the document: they follow one
\* another without a gap from the first word to the last, a delimiter stands at
\* the end of each and nowhere inside, and only the last may lack one.
SentencesPartitionText ==
  LET n == NumSentences(doc)
      at(k) == Sentences(doc)[k]
  IN  /\ (n = 0) <=> (doc = <<>>)
      /\ n > 0 => at(1).first = 1 /\ at(n).last = Len(doc)
      /\ \A k \in 1..n - 1 : at(k + 1).first = at(k).last + 1
      /\ \A k \in 1..n :
           /\ at(k).first <= at(k).last
           /\ \A i \in at(k).first..at(k).last - 1 : ~Ends(doc[i])
           /\ k < n => Ends(doc[at(k).last])

\* The sentences of a document in which sentence k was edited and not split.
Expected(from, k) ==
  IF k > NumSentences(from) THEN NumSentences(from) + 1 ELSE NumSentences(from)

\* "SMART MERGE: Replace ONLY the target sentence": whatever was typed, a commit
\* leaves every other sentence of the document at its number and word for word.
CommitTouchesOnlyTarget ==
  last # NoCopy =>
    \A k \in 1..NumSentences(last.from) :
      k # last.sent =>
        k <= NumSentences(doc) /\ Sentence(doc, k) = Sentence(last.from, k)

\* A user who works alone loses nothing as long as the edits leave the sentence
\* one sentence: the committed document is then the copy that the edit lines
\* built, the delimiter put back where it was, first, middle, last and new
\* sentences alike.
CommitKeepsUnsplitEdits ==
  last # NoCopy /\ NumSentences(last.copy) = Expected(last.from, last.sent) =>
    doc = last.copy

-----------------------------------------------------------------------------
(* What the repository says and the code does not keep *)

\* ETIRW "commits changes": no acknowledged edit line is missing from the
\* committed document, delimiters or not.
CommitKeepsEdits == last # NoCopy => doc = last.copy

\* "No Size Limits": a commit never shortens the text outside the target sentence,
\* however many sentences the document has.
CommitKeepsLength == last # NoCopy => Len(doc) >= Len(last.from)
=============================================================================
