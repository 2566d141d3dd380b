--------------------------- MODULE MCEditSession ---------------------------
EXTENDS EditSession

Word(b, m) == [base |-> b, marks |-> m]

TextsOver(words, n) == UNION {[1..k -> words] : k \in 0..n}

\* "a", "b.", a delimiter that stands alone and a word that ends in two delimiters
AnyDocs == TextsOver({Word("a", 0), Word("b", 1), Word("", 1), Word("c", 2)}, 3)
\* two complete sentences
TwoSentences == {<<Word("a", 1), Word("b", 1)>>}

PlainInputs == {<<Word("x", 0)>>, <<Word("x", 0), Word("y", 0)>>}
AnyInputs   == {<<Word("x", 0)>>, <<Word("x", 1)>>, <<Word("", 1), Word("y", 0)>>}
=============================================================================
