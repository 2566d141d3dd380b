------------------------- MODULE EditSessionProofs -------------------------
(***************************************************************************)
(* Proofs about the text algorithms of DocText and the edit session, for   *)
(* documents, inputs and bounds of any size: the scan finds the sentences  *)
(* of a text, and a commit replaces one of them.                           *)
(***************************************************************************)
EXTENDS EditSession, SequenceTheorems, WellFoundedInduction, TLAPS

-----------------------------------------------------------------------------
(* Induction, and the loop of the scan *)

\* Induction over the naturals, for a set in place of a predicate: a number that is not in
\* S would have a least one, which has a predecessor.
LEMMA Induction ==
  ASSUME NEW S, 0 \in S, \A n \in Nat : n \in S => n + 1 \in S
  PROVE  Nat \subseteq S
<1> DEFINE R == OpToRel(<, Nat)
           T == Nat \ S
<1>1. \A x, y \in Nat : y < x => <<y, x>> \in R
  BY Zenon DEF OpToRel
<1>2. IsWellFoundedOn(R, Nat)
  BY Zenon, NatLessThanWellFounded
<1> HIDE DEF R
<1>3. SUFFICES ASSUME T # {} PROVE FALSE
  OBVIOUS
<1>4. T \subseteq Nat
  OBVIOUS
<1>5. PICK x \in T : \A y \in T : ~(<<y, x>> \in R)
  BY <1>2, <1>3, <1>4, WFMin
<1>6. x \in Nat /\ x # 0 /\ x - 1 \in Nat /\ x - 1 < x /\ (x - 1) + 1 = x
  BY <1>4, <1>5
<1>7. x - 1 \in T
  BY <1>5, <1>6
<1>8. QED
  BY <1>1, <1>5, <1>6, <1>7

\* What the scan makes of word i.
After(words, prev, i) ==
  IF Ends(words[i]) /\ Len(prev.found) < MaxSentences
  THEN [start |-> i + 1, found |-> Append(prev.found, [first |-> prev.start, last |-> i])]
  ELSE prev

Start == [start |-> 1, found |-> <<>>]

\* There is a function that follows the loop, for any words: it grows with them.
LEMMA LoopExists ==
  ASSUME NEW words, Len(words) \in Nat
  PROVE  \E g : g = [i \in 0 .. Len(words) |-> IF i = 0 THEN Start ELSE After(words, g[i - 1], i)]
<1> DEFINE Upto(n, g) == g = [i \in 0 .. n |-> IF i = 0 THEN Start ELSE After(words, g[i - 1], i)]
           S == {n \in Nat : \E g : Upto(n, g)}
<1>1. 0 \in S
  <2>1. Upto(0, [i \in 0 .. 0 |-> Start])
    OBVIOUS
  <2>2. QED
    BY <2>1
<1>2. ASSUME NEW n \in Nat, n \in S PROVE n + 1 \in S
  <2>1. PICK g : Upto(n, g)
    BY <1>2
  <2> DEFINE h == [i \in 0 .. n + 1 |-> IF i = n + 1 THEN After(words, g[n], n + 1) ELSE g[i]]
  <2>2. \A i \in 0 .. n : h[i] = g[i]
    OBVIOUS
  <2>3. \A i \in 0 .. n : g[i] = IF i = 0 THEN Start ELSE After(words, g[i - 1], i)
    BY <2>1
  <2>4. h[n + 1] = After(words, g[n], n + 1)
    OBVIOUS
  <2>5. DOMAIN h = 0 .. n + 1 /\ h = [i \in 0 .. n + 1 |-> h[i]]
    OBVIOUS
  <2> HIDE DEF h
  <2>6. \A i \in 0 .. n + 1 : h[i] = IF i = 0 THEN Start ELSE After(words, h[i - 1], i)
    <3> SUFFICES ASSUME NEW i \in 0 .. n + 1
                 PROVE  h[i] = IF i = 0 THEN Start ELSE After(words, h[i - 1], i)
      OBVIOUS
    <3>1. CASE i = n + 1
      <4>1. i # 0 /\ i - 1 = n /\ n \in 0 .. n
        BY <3>1
      <4>2. h[i - 1] = g[n]
        BY <4>1, <2>2
      <4>3. QED
        BY <3>1, <4>1, <4>2, <2>4
    <3>2. CASE i # n + 1
      <4>1. i \in 0 .. n /\ (i # 0 => i - 1 \in 0 .. n)
        BY <3>2
      <4>2. h[i] = g[i] /\ (i # 0 => h[i - 1] = g[i - 1])
        BY <4>1, <2>2
      <4>3. QED
        BY <4>1, <4>2, <2>3
    <3>3. QED
      BY <3>1, <3>2
  <2>7. Upto(n + 1, h)
    BY <2>5, <2>6
  <2>8. QED
    BY <2>7
<1> HIDE DEF S
<1>3. Nat \subseteq S
  BY <1>1, <1>2, Induction
<1>4. QED
  BY <1>3 DEF S

\* The scan is that loop.
LEMMA ScanLoop ==
  ASSUME NEW words, Len(words) \in Nat
  PROVE  \E g : /\ g[0] = Start
                /\ \A i \in 1 .. Len(words) : g[i] = After(words, g[i - 1], i)
                /\ Scan(words) = g[Len(words)]
<1> DEFINE step == CHOOSE step : step = [i \in 0..Len(words) |->
                      IF i = 0 THEN [start |-> 1, found |-> <<>>]
                      ELSE LET prev == step[i - 1]
                           IN  IF Ends(words[i]) /\ Len(prev.found) < MaxSentences
                               THEN [start |-> i + 1,
                                     found |-> Append(prev.found, [first |-> prev.start, last |-> i])]
                               ELSE prev]
<1>1. \E g : g = [i \in 0..Len(words) |->
                      IF i = 0 THEN [start |-> 1, found |-> <<>>]
                      ELSE LET prev == g[i - 1]
                           IN  IF Ends(words[i]) /\ Len(prev.found) < MaxSentences
                               THEN [start |-> i + 1,
                                     found |-> Append(prev.found, [first |-> prev.start, last |-> i])]
                               ELSE prev]
  BY LoopExists DEF After, Start
<1>2. step = [i \in 0..Len(words) |->
                      IF i = 0 THEN [start |-> 1, found |-> <<>>]
                      ELSE LET prev == step[i - 1]
                           IN  IF Ends(words[i]) /\ Len(prev.found) < MaxSentences
                               THEN [start |-> i + 1,
                                     found |-> Append(prev.found, [first |-> prev.start, last |-> i])]
                               ELSE prev]
  BY <1>1, Zenon
<1>3. Scan(words) = step[Len(words)]
  BY Zenon DEF Scan
<1> HIDE DEF step
<1>4. step = [i \in 0..Len(words) |-> IF i = 0 THEN Start ELSE After(words, step[i - 1], i)]
  BY <1>2, Zenon DEF After, Start
<1>5. step[0] = Start /\ \A i \in 1 .. Len(words) : step[i] = After(words, step[i - 1], i)
  BY <1>4
<1>6. QED
  BY <1>3, <1>5

-----------------------------------------------------------------------------
(* The sentences of a text *)

Spans == [first : Nat, last : Nat]

\* Spans that follow one another from the first word on.
Follow(s) ==
  /\ s \in Seq(Spans)
  /\ Len(s) > 0 => s[1].first = 1
  /\ \A k \in 1 .. Len(s) : 1 <= s[k].first /\ s[k].first <= s[k].last
  /\ \A k \in 1 .. Len(s) : k < Len(s) => s[k + 1].first = s[k].last + 1

\* A span of one sentence.
OneIn(words, at) == \A i \in at.first .. at.last : i < at.last => ~Ends(words[i])

\* What the scan has found after i words.
Scanned(words, i, st) ==
  /\ st.start \in 1 .. i + 1
  /\ Follow(st.found)
  /\ st.start = IF Len(st.found) = 0 THEN 1 ELSE st.found[Len(st.found)].last + 1
  /\ Len(st.found) <= i /\ Len(st.found) <= MaxSentences
  /\ \A k \in 1 .. Len(st.found) :
       /\ st.found[k].last <= i
       /\ Ends(words[st.found[k].last]) /\ OneIn(words, st.found[k])
  /\ Len(st.found) < MaxSentences => \A j \in st.start .. i : ~Ends(words[j])

\* A new span at the end.
LEMMA FollowAppend ==
  ASSUME NEW s, Follow(s), NEW at \in Spans, 1 <= at.first, at.first <= at.last,
         at.first = IF Len(s) = 0 THEN 1 ELSE s[Len(s)].last + 1
  PROVE  Follow(Append(s, at)) /\ Len(Append(s, at)) = Len(s) + 1 /\ Append(s, at)[Len(s) + 1] = at
         /\ \A k \in 1 .. Len(s) : Append(s, at)[k] = s[k]
<1> DEFINE a == Append(s, at)
<1>1. s \in Seq(Spans) /\ Len(s) \in Nat
  BY DEF Follow
<1>2. a \in Seq(Spans) /\ Len(a) = Len(s) + 1 /\ a[Len(s) + 1] = at /\ \A k \in 1 .. Len(s) : a[k] = s[k]
  BY <1>1, AppendProperties
<1> HIDE DEF a
<1>3. \A k \in 1 .. Len(a) : k \in 1 .. Len(s) \/ k = Len(s) + 1
  BY <1>1, <1>2
<1>4. a[1].first = 1
  <2>1. CASE Len(s) = 0
    BY <1>2, <2>1
  <2>2. CASE Len(s) # 0
    BY <1>1, <1>2, <2>2 DEF Follow
  <2>3. QED
    BY <2>1, <2>2
<1>5. \A k \in 1 .. Len(a) : 1 <= a[k].first /\ a[k].first <= a[k].last
  BY <1>2, <1>3 DEF Follow
<1>6. ASSUME NEW k \in 1 .. Len(a), k < Len(a) PROVE a[k + 1].first = a[k].last + 1
  <2>1. k \in 1 .. Len(s) /\ a[k] = s[k]
    BY <1>1, <1>2, <1>6
  <2>2. CASE k = Len(s)
    BY <1>1, <1>2, <2>1, <2>2
  <2>3. CASE k # Len(s)
    <3>1. k < Len(s) /\ k + 1 \in 1 .. Len(s)
      BY <1>1, <2>1, <2>3
    <3>2. s[k + 1].first = s[k].last + 1
      BY <2>1, <3>1 DEF Follow
    <3>3. QED
      BY <1>2, <2>1, <3>1, <3>2
  <2>4. QED
    BY <2>2, <2>3
<1>7. Follow(a)
  BY <1>2, <1>4, <1>5, <1>6 DEF Follow
<1>8. QED
  BY <1>2, <1>7 DEF a

\* One word of the scan.
LEMMA ScanWord ==
  ASSUME NEW words \in Seq(Words), NEW n \in Nat, n < Len(words), NEW st, Scanned(words, n, st)
  PROVE  Scanned(words, n + 1, After(words, st, n + 1))
<1>1. MaxSentences \in Nat /\ Len(words) \in Nat
  BY MaxSentencesAssumption
<1>2. st.found \in Seq(Spans) /\ Len(st.found) \in Nat /\ st.start \in Nat /\ 1 <= st.start /\ st.start <= n + 1
      /\ \A k \in 1 .. Len(st.found) : st.found[k] \in Spans
  BY DEF Scanned, Follow
<1>3. \A k \in 1 .. Len(st.found) : st.found[k].last \in Nat /\ st.found[k].last <= n
  BY <1>2 DEF Scanned, Spans
<1>4. CASE Ends(words[n + 1]) /\ Len(st.found) < MaxSentences
  <2> DEFINE at == [first |-> st.start, last |-> n + 1]
             f == Append(st.found, at)
             new == [start |-> n + 2, found |-> f]
  <2>0. n + 1 + 1 = n + 2
    OBVIOUS
  <2>1. After(words, st, n + 1) = new
    BY <1>4, <2>0 DEF After
  <2>2. at \in Spans /\ 1 <= at.first /\ at.first <= at.last /\ at.first = st.start /\ at.last = n + 1
    BY <1>2 DEF Spans
  <2>3. st.start = IF Len(st.found) = 0 THEN 1 ELSE st.found[Len(st.found)].last + 1
    BY DEF Scanned
  <2> HIDE DEF at
  <2>4. /\ Follow(f) /\ Len(f) = Len(st.found) + 1 /\ f[Len(st.found) + 1] = at
        /\ \A k \in 1 .. Len(st.found) : f[k] = st.found[k]
    BY <2>2, <2>3, FollowAppend DEF Scanned
  <2> HIDE DEF f
  <2>5. \A k \in 1 .. Len(f) : k \in 1 .. Len(st.found) \/ k = Len(st.found) + 1
    BY <1>2, <2>4
  <2>6. OneIn(words, at)
    <3>1. \A j \in st.start .. n : ~Ends(words[j])
      BY <1>4 DEF Scanned
    <3>2. \A i \in st.start .. n + 1 : i < n + 1 => i \in st.start .. n
      BY <1>2
    <3>3. QED
      BY <2>2, <3>1, <3>2 DEF OneIn
  <2>7. ASSUME NEW k \in 1 .. Len(f)
        PROVE  f[k].last <= n + 1 /\ Ends(words[f[k].last]) /\ OneIn(words, f[k])
    <3>1. CASE k = Len(st.found) + 1
      BY <1>4, <2>2, <2>4, <2>6, <3>1
    <3>2. CASE k \in 1 .. Len(st.found)
      <4>1. f[k] = st.found[k] /\ st.found[k].last \in Nat /\ st.found[k].last <= n
        BY <1>3, <2>4, <3>2
      <4>2. Ends(words[st.found[k].last]) /\ OneIn(words, st.found[k])
        BY <3>2 DEF Scanned
      <4>3. QED
        BY <4>1, <4>2
    <3>3. QED
      BY <2>5, <3>1, <3>2
  <2>8. Len(f) <= n + 1 /\ Len(f) <= MaxSentences /\ Len(f) # 0 /\ f[Len(f)].last + 1 = n + 2
    BY <1>1, <1>2, <1>4, <2>2, <2>4 DEF Scanned
  <2>9. new.start = n + 2 /\ new.found = f /\ n + 2 \in 1 .. (n + 1) + 1
    OBVIOUS
  <2>10. \A j \in n + 2 .. n + 1 : FALSE
    OBVIOUS
  <2> HIDE DEF new
  <2>11. Scanned(words, n + 1, new)
    BY <2>4, <2>7, <2>8, <2>9, <2>10 DEF Scanned
  <2>12. QED
    BY <2>1, <2>11
<1>5. CASE ~(Ends(words[n + 1]) /\ Len(st.found) < MaxSentences)
  <2>1. After(words, st, n + 1) = st
    BY <1>5 DEF After
  <2>2. \A k \in 1 .. Len(st.found) : st.found[k].last <= n + 1
    BY <1>3
  <2>3. Len(st.found) < MaxSentences => \A j \in st.start .. n + 1 : ~Ends(words[j])
    <3>1. \A j \in st.start .. n + 1 : j \in st.start .. n \/ j = n + 1
      BY <1>2
    <3>2. QED
      BY <1>5, <3>1 DEF Scanned
  <2>4. st.start \in 1 .. (n + 1) + 1 /\ Len(st.found) <= n + 1
    BY <1>2 DEF Scanned
  <2>5. Scanned(words, n + 1, st)
    BY <2>2, <2>3, <2>4 DEF Scanned
  <2>6. QED
    BY <2>1, <2>5
<1>6. QED
  BY <1>4, <1>5

\* The whole scan.
LEMMA ScanResult ==
  ASSUME NEW words \in Seq(Words)
  PROVE  Scanned(words, Len(words), Scan(words))
<1>0. Len(words) \in Nat
  OBVIOUS
<1>1. PICK g : /\ g[0] = Start
               /\ \A i \in 1 .. Len(words) : g[i] = After(words, g[i - 1], i)
               /\ Scan(words) = g[Len(words)]
  BY <1>0, ScanLoop
<1> DEFINE S == {i \in Nat : i <= Len(words) => Scanned(words, i, g[i])}
<1>2. 0 \in S
  <2>1. <<>> \in Seq(Spans) /\ Len(<<>>) = 0
    OBVIOUS
  <2>2. g[0].start = 1 /\ g[0].found = <<>>
    BY <1>1 DEF Start
  <2>3. Scanned(words, 0, g[0])
    BY <2>1, <2>2, MaxSentencesAssumption DEF Scanned, Follow
  <2>4. QED
    BY <2>3
<1>3. ASSUME NEW n \in Nat, n \in S PROVE n + 1 \in S
  <2>1. SUFFICES ASSUME n + 1 <= Len(words) PROVE Scanned(words, n + 1, g[n + 1])
    OBVIOUS
  <2>2. Scanned(words, n, g[n]) /\ n < Len(words) /\ n + 1 \in 1 .. Len(words) /\ (n + 1) - 1 = n
    BY <1>3, <2>1
  <2>3. g[n + 1] = After(words, g[n], n + 1)
    BY <1>1, <2>2
  <2>4. QED
    BY <2>2, <2>3, ScanWord
<1> HIDE DEF S
<1>4. Nat \subseteq S
  BY <1>2, <1>3, Induction
<1>5. QED
  BY <1>0, <1>1, <1>4 DEF S

\* The sentences of a text whatever the size of the array: spans inside the text.
LEMMA SentencesInside ==
  ASSUME NEW words \in Seq(Words)
  PROVE  /\ Follow(Sentences(words))
         /\ \A k \in 1 .. NumSentences(words) : Sentences(words)[k].last <= Len(words)
<1> DEFINE st == Scan(words)
<1>1. Scanned(words, Len(words), st)
  BY ScanResult
<1>2. Sentences(words) = IF st.start <= Len(words) /\ Len(st.found) < MaxSentences
                         THEN Append(st.found, [first |-> st.start, last |-> Len(words)])
                         ELSE st.found
  BY DEF Sentences
<1> HIDE DEF st
<1>3. Len(words) \in Nat /\ st.start \in Nat /\ 1 <= st.start /\ Follow(st.found)
      /\ Len(st.found) \in Nat
      /\ st.start = (IF Len(st.found) = 0 THEN 1 ELSE st.found[Len(st.found)].last + 1)
      /\ \A k \in 1 .. Len(st.found) : st.found[k].last <= Len(words)
  BY <1>1 DEF Scanned, Follow
<1>4. CASE st.start <= Len(words) /\ Len(st.found) < MaxSentences
  <2> DEFINE at == [first |-> st.start, last |-> Len(words)]
  <2>1. at \in Spans /\ 1 <= at.first /\ at.first <= at.last /\ at.first = st.start /\ at.last = Len(words)
    BY <1>3, <1>4 DEF Spans
  <2> HIDE DEF at
  <2>2. /\ Follow(Append(st.found, at)) /\ Len(Append(st.found, at)) = Len(st.found) + 1
        /\ Append(st.found, at)[Len(st.found) + 1] = at
        /\ \A k \in 1 .. Len(st.found) : Append(st.found, at)[k] = st.found[k]
    BY <1>3, <2>1, FollowAppend
  <2>3. Sentences(words) = Append(st.found, at)
    BY <1>2, <1>4 DEF at
  <2>4. \A k \in 1 .. Len(st.found) + 1 : k \in 1 .. Len(st.found) \/ k = Len(st.found) + 1
    BY <1>3
  <2>5. \A k \in 1 .. Len(st.found) + 1 : Append(st.found, at)[k].last <= Len(words)
    BY <1>3, <2>1, <2>2, <2>4
  <2>6. QED
    BY <2>2, <2>3, <2>5 DEF NumSentences
<1>5. CASE ~(st.start <= Len(words) /\ Len(st.found) < MaxSentences)
  BY <1>2, <1>3, <1>5 DEF NumSentences
<1>6. QED
  BY <1>4, <1>5

\* What the sentences of a text are: spans that follow one another to the end of the text,
\* a delimiter at the end of each, except perhaps of the last, and nowhere else.
Parse(words, s) ==
  /\ Follow(s)
  /\ Len(s) = 0 => Len(words) = 0
  /\ Len(s) > 0 => s[Len(s)].last = Len(words)
  /\ \A k \in 1 .. Len(s) : /\ s[k].last <= Len(words)
                            /\ OneIn(words, s[k])
                            /\ k < Len(s) => Ends(words[s[k].last])

\* If the array has an element for every word, the scan finds the sentences.
LEMMA SentencesParse ==
  ASSUME NEW words \in Seq(Words), Len(words) <= MaxSentences
  PROVE  Parse(words, Sentences(words))
<1> DEFINE st == Scan(words)
<1>1. Scanned(words, Len(words), st)
  BY ScanResult
<1>2. Sentences(words) = IF st.start <= Len(words) /\ Len(st.found) < MaxSentences
                         THEN Append(st.found, [first |-> st.start, last |-> Len(words)])
                         ELSE st.found
  BY DEF Sentences
<1> HIDE DEF st
<1>3. Len(words) \in Nat /\ st.start \in Nat /\ 1 <= st.start /\ st.start <= Len(words) + 1 /\ Follow(st.found)
      /\ Len(st.found) \in Nat /\ MaxSentences \in Nat
      /\ st.start = (IF Len(st.found) = 0 THEN 1 ELSE st.found[Len(st.found)].last + 1)
      /\ Len(st.found) <= Len(words)
  BY <1>1, MaxSentencesAssumption DEF Scanned, Follow
<1>4. \A k \in 1 .. Len(st.found) : /\ st.found[k].last <= Len(words) /\ st.found[k] \in Spans
                                    /\ st.found[k].last \in Nat /\ st.found[k].first \in Nat
                                    /\ Ends(words[st.found[k].last]) /\ OneIn(words, st.found[k])
  <2>1. st.found \in Seq(Spans)
    BY <1>3 DEF Follow
  <2>2. \A k \in 1 .. Len(st.found) : st.found[k] \in Spans
    BY <2>1
  <2>3. \A at \in Spans : at.first \in Nat /\ at.last \in Nat
    BY DEF Spans
  <2>4. \A k \in 1 .. Len(st.found) : /\ st.found[k].last <= Len(words)
                                      /\ Ends(words[st.found[k].last]) /\ OneIn(words, st.found[k])
    BY <1>1 DEF Scanned
  <2>5. QED
    BY <2>2, <2>3, <2>4
<1>5. Len(st.found) < MaxSentences => \A j \in st.start .. Len(words) : ~Ends(words[j])
  BY <1>1 DEF Scanned
<1>6. CASE st.start <= Len(words) /\ Len(st.found) < MaxSentences
  <2> DEFINE at == [first |-> st.start, last |-> Len(words)]
             s == Append(st.found, at)
  <2>1. at \in Spans /\ 1 <= at.first /\ at.first <= at.last /\ at.first = st.start /\ at.last = Len(words)
    BY <1>3, <1>6 DEF Spans
  <2> HIDE DEF at
  <2>2. Follow(s) /\ Len(s) = Len(st.found) + 1 /\ s[Len(st.found) + 1] = at
        /\ \A k \in 1 .. Len(st.found) : s[k] = st.found[k]
    BY <1>3, <2>1, FollowAppend
  <2>3. Sentences(words) = s
    BY <1>2, <1>6 DEF at
  <2> HIDE DEF s
  <2>4. \A k \in 1 .. Len(s) : k \in 1 .. Len(st.found) \/ (k = Len(st.found) + 1 /\ ~(k < Len(s)))
    BY <1>3, <2>2
  <2>5. OneIn(words, at)
    BY <1>3, <1>5, <1>6, <2>1 DEF OneIn
  <2>6. \A k \in 1 .. Len(s) : /\ s[k].last <= Len(words) /\ OneIn(words, s[k])
                               /\ k < Len(s) => Ends(words[s[k].last])
    <3> SUFFICES ASSUME NEW k \in 1 .. Len(s)
                 PROVE  /\ s[k].last <= Len(words) /\ OneIn(words, s[k])
                        /\ k < Len(s) => Ends(words[s[k].last])
      OBVIOUS
    <3>1. CASE k \in 1 .. Len(st.found)
      BY <1>4, <2>2, <3>1
    <3>2. CASE k = Len(st.found) + 1 /\ ~(k < Len(s))
      <4>1. s[k] = at
        BY <2>2, <3>2
      <4>2. QED
        BY <1>3, <2>1, <2>5, <3>2, <4>1
    <3>3. QED
      BY <2>4, <3>1, <3>2
  <2>7. Len(s) > 0 /\ s[Len(s)].last = Len(words)
    BY <1>3, <2>1, <2>2
  <2>8. QED
    BY <2>2, <2>3, <2>6, <2>7 DEF Parse
<1>7. CASE ~(st.start <= Len(words) /\ Len(st.found) < MaxSentences)
  <2>1. Sentences(words) = st.found
    BY <1>2, <1>7
  <2>2. st.start = Len(words) + 1
    <3>1. CASE st.start <= Len(words)
      \* then every word is a sentence
      <4>1. Len(st.found) = MaxSentences /\ Len(st.found) = Len(words)
        BY <1>3, <1>7, <3>1
      <4>2. \A k \in 1 .. Len(st.found) : k <= st.found[k].last
        <5> DEFINE S == {k \in Nat : k \in 1 .. Len(st.found) => k <= st.found[k].last}
        <5>1. 0 \in S
          BY <1>3
        <5>2. ASSUME NEW k \in Nat, k \in S PROVE k + 1 \in S
          <6>1. SUFFICES ASSUME k + 1 \in 1 .. Len(st.found) PROVE k + 1 <= st.found[k + 1].last
            OBVIOUS
          <6>2. st.found[k + 1].first \in Nat /\ st.found[k + 1].last \in Nat
                /\ 1 <= st.found[k + 1].first /\ st.found[k + 1].first <= st.found[k + 1].last
            BY <1>3, <1>4, <6>1 DEF Follow
          <6>3. CASE k = 0
            BY <6>2, <6>3
          <6>4. CASE k # 0
            <7>1. k \in 1 .. Len(st.found) /\ k < Len(st.found)
              BY <1>3, <6>1, <6>4
            <7>2. k <= st.found[k].last /\ st.found[k].last \in Nat
              BY <1>4, <5>2, <7>1
            <7>3. st.found[k + 1].first = st.found[k].last + 1
              BY <1>3, <7>1 DEF Follow
            <7>4. QED
              BY <6>2, <7>2, <7>3
          <6>5. QED
            BY <6>3, <6>4
        <5> HIDE DEF S
        <5>3. Nat \subseteq S
          BY <5>1, <5>2, Induction
        <5>4. QED
          BY <1>3, <5>3 DEF S
      <4>3. Len(st.found) # 0 /\ Len(st.found) \in 1 .. Len(st.found)
        BY <1>3, <3>1, <4>1
      <4>4. st.start = st.found[Len(st.found)].last + 1 /\ st.found[Len(st.found)].last \in Nat
            /\ Len(st.found) <= st.found[Len(st.found)].last
        BY <1>3, <1>4, <4>2, <4>3
      <4>5. QED
        BY <1>3, <3>1, <4>1, <4>4
    <3>2. CASE ~(st.start <= Len(words))
      BY <1>3, <3>2
    <3>3. QED
      BY <3>1, <3>2
  <2>3. Len(st.found) = 0 => Len(words) = 0
    BY <1>3, <2>2
  <2>4. Len(st.found) > 0 => st.found[Len(st.found)].last = Len(words)
    <3>1. SUFFICES ASSUME Len(st.found) > 0 PROVE st.found[Len(st.found)].last = Len(words)
      OBVIOUS
    <3>2. Len(st.found) \in 1 .. Len(st.found) /\ st.start = st.found[Len(st.found)].last + 1
      BY <1>3, <3>1
    <3>3. st.found[Len(st.found)].last \in Nat
      BY <1>4, <3>2
    <3>4. QED
      BY <1>3, <2>2, <3>2, <3>3
  <2>5. QED
    BY <1>3, <1>4, <2>1, <2>3, <2>4 DEF Parse
<1>8. QED
  BY <1>6, <1>7

\* Spans are numbers.
LEMMA ParseTypes ==
  ASSUME NEW words \in Seq(Words), NEW s, Parse(words, s)
  PROVE  /\ s \in Seq(Spans) /\ Len(s) \in Nat /\ Len(words) \in Nat
         /\ \A k \in 1 .. Len(s) : /\ s[k] \in Spans /\ s[k].first \in Nat /\ s[k].last \in Nat
                                   /\ 1 <= s[k].first /\ s[k].first <= s[k].last /\ s[k].last <= Len(words)
                                   /\ s[k] = [first |-> s[k].first, last |-> s[k].last]
<1>1. s \in Seq(Spans)
  BY DEF Parse, Follow
<1>2. Len(s) \in Nat /\ Len(words) \in Nat /\ \A k \in 1 .. Len(s) : s[k] \in Spans
  BY <1>1
<1>3. \A at \in Spans : at.first \in Nat /\ at.last \in Nat /\ at = [first |-> at.first, last |-> at.last]
  BY DEF Spans
<1>4. \A k \in 1 .. Len(s) : 1 <= s[k].first /\ s[k].first <= s[k].last /\ s[k].last <= Len(words)
  BY DEF Parse, Follow
<1>5. QED
  BY <1>1, <1>2, <1>3, <1>4

\* A sentence ends where the same sentence of another parse does, at the latest.
LEMMA EndsSame ==
  ASSUME NEW words \in Seq(Words), NEW s, NEW r, Parse(words, s), Parse(words, r), NEW k \in Nat,
         k \in 1 .. Len(s), k \in 1 .. Len(r), s[k].first = r[k].first
  PROVE  r[k].last <= s[k].last
<1>0. /\ s[k].last \in Nat /\ r[k].last \in Nat /\ s[k].first \in Nat /\ r[k].first \in Nat
      /\ s[k].first <= s[k].last
  <2>1. s[k].last \in Nat /\ s[k].first \in Nat /\ s[k].first <= s[k].last
    BY ParseTypes
  <2>2. r[k].last \in Nat /\ r[k].first \in Nat
    BY ParseTypes
  <2>3. QED
    BY <2>1, <2>2
<1>1. SUFFICES ASSUME s[k].last < r[k].last PROVE FALSE
  BY <1>0
<1>2. s[k].last \in r[k].first .. r[k].last
  BY <1>0, <1>1
<1>3. ~Ends(words[s[k].last])
  BY <1>1, <1>2 DEF Parse, OneIn
<1>4. Len(s) \in Nat /\ Len(words) \in Nat /\ s[k].last \in Nat /\ r[k].last \in Nat /\ r[k].last <= Len(words)
  BY ParseTypes
<1>5. k = Len(s)
  BY <1>3, <1>4 DEF Parse
<1>6. s[k].last = Len(words)
  BY <1>4, <1>5 DEF Parse
<1>7. QED
  BY <1>1, <1>4, <1>6

\* There is one parse.
LEMMA ParseUnique ==
  ASSUME NEW words \in Seq(Words), NEW s, NEW r, Parse(words, s), Parse(words, r)
  PROVE  s = r
<1>0. /\ s \in Seq(Spans) /\ r \in Seq(Spans) /\ Len(s) \in Nat /\ Len(r) \in Nat /\ Len(words) \in Nat
  BY ParseTypes
<1> DEFINE S == {k \in Nat : k \in 1 .. Len(s) /\ k \in 1 .. Len(r) => s[k] = r[k]}
<1>1. 0 \in S
  BY <1>0
<1>2. ASSUME NEW k \in Nat, k \in S PROVE k + 1 \in S
  <2>1. SUFFICES ASSUME k + 1 \in 1 .. Len(s), k + 1 \in 1 .. Len(r) PROVE s[k + 1] = r[k + 1]
    OBVIOUS
  <2>2. s[k + 1].first = r[k + 1].first
    <3>1. CASE k = 0
      BY <1>0, <2>1, <3>1 DEF Parse, Follow
    <3>2. CASE k # 0
      <4>1. k \in 1 .. Len(s) /\ k \in 1 .. Len(r) /\ k < Len(s) /\ k < Len(r)
        BY <1>0, <2>1, <3>2
      <4>2. s[k] = r[k]
        BY <1>2, <4>1
      <4>3. s[k + 1].first = s[k].last + 1 /\ r[k + 1].first = r[k].last + 1
        BY <4>1 DEF Parse, Follow
      <4>4. QED
        BY <4>2, <4>3
    <3>3. QED
      BY <3>1, <3>2
  <2>3. r[k + 1].last <= s[k + 1].last /\ s[k + 1].last <= r[k + 1].last
    BY <2>1, <2>2, EndsSame
  <2>4. s[k + 1].last \in Nat /\ s[k + 1] = [first |-> s[k + 1].first, last |-> s[k + 1].last]
    BY <2>1, ParseTypes
  <2>5. r[k + 1].last \in Nat /\ r[k + 1] = [first |-> r[k + 1].first, last |-> r[k + 1].last]
    BY <2>1, ParseTypes
  <2>6. s[k + 1].last = r[k + 1].last
    BY <2>3, <2>4, <2>5
  <2>7. QED
    BY <2>2, <2>4, <2>5, <2>6
<1> HIDE DEF S
<1>3. Nat \subseteq S
  BY <1>1, <1>2, Induction
<1>4. \A k \in Nat : k \in 1 .. Len(s) /\ k \in 1 .. Len(r) => s[k] = r[k]
  BY <1>3 DEF S
<1>5. ASSUME NEW p, NEW q, Parse(words, p), Parse(words, q), Len(p) < Len(q),
             \A k \in Nat : k \in 1 .. Len(p) /\ k \in 1 .. Len(q) => p[k] = q[k]
      PROVE  FALSE
  <2>1. Len(p) \in Nat /\ Len(q) \in Nat
    BY <1>5, ParseTypes
  <2>2. CASE Len(p) = 0
    <3>1. Len(words) = 0 /\ 1 \in 1 .. Len(q)
      BY <1>5, <2>1, <2>2 DEF Parse
    <3>2. 1 <= q[1].first /\ q[1].first <= q[1].last /\ q[1].last <= Len(words) /\ q[1].first \in Nat
          /\ q[1].last \in Nat
      BY <1>5, <3>1, ParseTypes
    <3>3. QED
      BY <3>1, <3>2
  <2>3. CASE Len(p) # 0
    <3> DEFINE k == Len(p)
    <3>1. k \in Nat /\ k \in 1 .. Len(p) /\ k \in 1 .. Len(q) /\ k < Len(q) /\ k + 1 \in 1 .. Len(q)
      BY <1>5, <2>1, <2>3
    <3>2. p[k].last = Len(words) /\ p[k] = q[k]
      BY <1>5, <3>1 DEF Parse
    <3>3. q[k + 1].first = q[k].last + 1
      BY <1>5, <3>1 DEF Parse, Follow
    <3>4. q[k + 1].first <= q[k + 1].last /\ q[k + 1].last <= Len(words) /\ q[k + 1].first \in Nat
          /\ q[k + 1].last \in Nat
      BY <1>5, <3>1, ParseTypes
    <3>5. QED
      BY <1>0, <3>2, <3>3, <3>4
  <2>4. QED
    BY <2>2, <2>3
<1>6. Len(s) = Len(r)
  <2>1. ~(Len(s) < Len(r))
    BY <1>4, <1>5
  <2>2. ~(Len(r) < Len(s))
    <3>1. \A k \in Nat : k \in 1 .. Len(r) /\ k \in 1 .. Len(s) => r[k] = s[k]
      BY <1>4
    <3>2. QED
      BY <1>5, <3>1
  <2>3. QED
    BY <1>0, <2>1, <2>2
<1>7. QED
  BY <1>0, <1>4, <1>6, SeqEqual

-----------------------------------------------------------------------------
(* Texts put together from texts *)

\* The next sentence starts after this text.
Complete(words) == words = <<>> \/ Ends(Final(words))

\* The words of a concatenation.
LEMMA ConcatWords ==
  ASSUME NEW p \in Seq(Words), NEW r \in Seq(Words)
  PROVE  /\ p \o r \in Seq(Words) /\ Len(p) \in Nat /\ Len(r) \in Nat /\ Len(p \o r) = Len(p) + Len(r)
         /\ \A i \in 1 .. Len(p) : (p \o r)[i] = p[i]
         /\ \A i \in 1 .. Len(r) : (p \o r)[Len(p) + i] = r[i]
<1>1. /\ p \o r \in Seq(Words) /\ Len(p \o r) = Len(p) + Len(r)
      /\ \A i \in 1 .. Len(p) + Len(r) : (p \o r)[i] = IF i <= Len(p) THEN p[i] ELSE r[i - Len(p)]
  BY ConcatProperties
<1>2. Len(p) \in Nat /\ Len(r) \in Nat
  OBVIOUS
<1> DEFINE w == p \o r
<1> HIDE DEF w
<1>3. \A i \in 1 .. Len(p) : w[i] = p[i]
  BY <1>1, <1>2 DEF w
<1>4. ASSUME NEW i \in 1 .. Len(r) PROVE w[Len(p) + i] = r[i]
  <2>1. Len(p) + i \in 1 .. Len(p) + Len(r) /\ ~(Len(p) + i <= Len(p)) /\ (Len(p) + i) - Len(p) = i
    BY <1>2
  <2>2. QED
    BY <1>1, <2>1 DEF w
<1>5. QED
  BY <1>1, <1>2, <1>3, <1>4 DEF w

\* A text without words has no sentences.
LEMMA ParseEmpty ==
  ASSUME NEW words \in Seq(Words), NEW s, Parse(words, s)
  PROVE  Len(words) = 0 <=> Len(s) = 0
<1>1. Len(words) \in Nat /\ Len(s) \in Nat
  BY ParseTypes
<1>2. Len(s) = 0 => Len(words) = 0
  BY DEF Parse
<1>3. ASSUME Len(words) = 0, Len(s) # 0 PROVE FALSE
  <2>1. 1 \in 1 .. Len(s)
    BY <1>1, <1>3
  <2>2. s[1].first \in Nat /\ s[1].last \in Nat /\ 1 <= s[1].first /\ s[1].first <= s[1].last /\ s[1].last <= 0
    BY <1>3, <2>1, ParseTypes
  <2>3. QED
    BY <2>2
<1>4. QED
  BY <1>2, <1>3

\* The spans of a text behind d other words.
Shift(s, d) == [k \in 1 .. Len(s) |-> [first |-> s[k].first + d, last |-> s[k].last + d]]

\* Shifted spans are spans.
LEMMA ShiftSpans ==
  ASSUME NEW words \in Seq(Words), NEW s, Parse(words, s), NEW d \in Nat
  PROVE  /\ Shift(s, d) \in Seq(Spans) /\ Len(Shift(s, d)) = Len(s)
         /\ \A k \in 1 .. Len(s) : Shift(s, d)[k] = [first |-> s[k].first + d, last |-> s[k].last + d]
<1>1. Len(s) \in Nat /\ \A k \in 1 .. Len(s) : s[k].first \in Nat /\ s[k].last \in Nat
  BY ParseTypes
<1>2. \A k \in 1 .. Len(s) : [first |-> s[k].first + d, last |-> s[k].last + d] \in Spans
  BY <1>1 DEF Spans
<1>3. Shift(s, d) \in [1 .. Len(s) -> Spans]
  BY <1>2 DEF Shift
<1>4. Shift(s, d) \in Seq(Spans)
  BY <1>1, <1>3, SeqDef
<1>5. Len(Shift(s, d)) = Len(s)
  BY <1>1, <1>3, <1>4
<1>6. QED
  BY <1>4, <1>5 DEF Shift

\* The sentences of a text behind a complete one keep their place in it.
LEMMA ParseConcat ==
  ASSUME NEW p \in Seq(Words), NEW r \in Seq(Words), NEW s, NEW t, Parse(p, s), Parse(r, t),
         r # <<>> => Complete(p)
  PROVE  /\ Parse(p \o r, s \o Shift(t, Len(p)))
         /\ Len(s \o Shift(t, Len(p))) = Len(s) + Len(t)
         /\ \A k \in 1 .. Len(s) : (s \o Shift(t, Len(p)))[k] = s[k]
         /\ \A k \in 1 .. Len(t) : (s \o Shift(t, Len(p)))[Len(s) + k] =
                                     [first |-> t[k].first + Len(p), last |-> t[k].last + Len(p)]
<1> DEFINE d == Len(p)
           u == Shift(t, d)
           w == p \o r
           a == s \o u
<1>1. /\ w \in Seq(Words) /\ Len(p) \in Nat /\ Len(r) \in Nat /\ Len(w) = Len(p) + Len(r)
      /\ \A i \in 1 .. Len(p) : w[i] = p[i]
      /\ \A i \in 1 .. Len(r) : w[Len(p) + i] = r[i]
  BY ConcatWords
<1>2. /\ s \in Seq(Spans) /\ Len(s) \in Nat
      /\ \A k \in 1 .. Len(s) : /\ s[k] \in Spans /\ s[k].first \in Nat /\ s[k].last \in Nat
                                /\ 1 <= s[k].first /\ s[k].first <= s[k].last /\ s[k].last <= Len(p)
  BY ParseTypes
<1>3. /\ t \in Seq(Spans) /\ Len(t) \in Nat
      /\ \A k \in 1 .. Len(t) : /\ t[k] \in Spans /\ t[k].first \in Nat /\ t[k].last \in Nat
                                /\ 1 <= t[k].first /\ t[k].first <= t[k].last /\ t[k].last <= Len(r)
  BY ParseTypes
<1>4. u \in Seq(Spans) /\ Len(u) = Len(t)
      /\ \A k \in 1 .. Len(t) : u[k] = [first |-> t[k].first + d, last |-> t[k].last + d]
  BY <1>1, ShiftSpans
<1> HIDE DEF u, w
<1>5. /\ a \in Seq(Spans) /\ Len(a) = Len(s) + Len(u)
      /\ \A k \in 1 .. Len(s) + Len(u) : a[k] = IF k <= Len(s) THEN s[k] ELSE u[k - Len(s)]
  <2>1. s \in Seq(Spans)
    BY <1>2
  <2>2. u \in Seq(Spans)
    BY <1>4
  <2>3. QED
    BY <2>1, <2>2, ConcatProperties
<1> HIDE DEF a
<1>6. \A k \in 1 .. Len(s) : a[k] = s[k]
  BY <1>2, <1>3, <1>4, <1>5
<1>7. \A k \in 1 .. Len(t) : a[Len(s) + k] = [first |-> t[k].first + d, last |-> t[k].last + d]
  <2> SUFFICES ASSUME NEW k \in 1 .. Len(t)
               PROVE  a[Len(s) + k] = [first |-> t[k].first + d, last |-> t[k].last + d]
    OBVIOUS
  <2>1. Len(s) + k \in 1 .. Len(s) + Len(u) /\ ~(Len(s) + k <= Len(s)) /\ (Len(s) + k) - Len(s) = k
    BY <1>2, <1>3, <1>4
  <2>2. a[Len(s) + k] = u[k]
    BY <1>5, <2>1
  <2>3. QED
    BY <1>4, <2>2
<1>8. \A k \in 1 .. Len(t) : a[Len(s) + k].first = t[k].first + d /\ a[Len(s) + k].last = t[k].last + d
  <2> SUFFICES ASSUME NEW k \in 1 .. Len(t)
               PROVE  a[Len(s) + k].first = t[k].first + d /\ a[Len(s) + k].last = t[k].last + d
    OBVIOUS
  <2>1. a[Len(s) + k] = [first |-> t[k].first + d, last |-> t[k].last + d]
    BY <1>7
  <2>2. QED
    BY <2>1
<1>9. \A k \in 1 .. Len(a) : k \in 1 .. Len(s) \/ \E j \in 1 .. Len(t) : k = Len(s) + j
  <2> SUFFICES ASSUME NEW k \in 1 .. Len(a), ~(k \in 1 .. Len(s))
               PROVE  \E j \in 1 .. Len(t) : k = Len(s) + j
    OBVIOUS
  <2>1. k - Len(s) \in 1 .. Len(t) /\ k = Len(s) + (k - Len(s))
    BY <1>2, <1>3, <1>4, <1>5
  <2>2. QED
    BY <2>1
<1>10. (Len(p) = 0 <=> Len(s) = 0) /\ (Len(r) = 0 <=> Len(t) = 0)
  BY ParseEmpty
<1>11. Len(t) > 0 => t[1].first = 1
  BY DEF Parse, Follow
<1>12. Len(s) > 0 => s[1].first = 1 /\ s[Len(s)].last = Len(p)
  BY DEF Parse, Follow
<1>13. Follow(a)
  <2>1. Len(a) > 0 => a[1].first = 1
    <3>1. CASE Len(s) > 0
      <4>1. 1 \in 1 .. Len(s)
        BY <1>2, <3>1
      <4>2. QED
        BY <1>6, <1>12, <3>1, <4>1
    <3>2. CASE Len(s) = 0
      <4>1. SUFFICES ASSUME Len(a) > 0 PROVE a[1].first = 1
        OBVIOUS
      <4>2. 1 \in 1 .. Len(t) /\ Len(t) > 0 /\ Len(s) + 1 = 1 /\ d = 0
        BY <1>3, <1>4, <1>5, <1>10, <3>2, <4>1
      <4>3. a[Len(s) + 1].first = t[1].first + d
        BY <1>8, <4>2
      <4>4. QED
        BY <1>11, <4>2, <4>3
    <3>3. QED
      BY <1>2, <3>1, <3>2
  <2>2. ASSUME NEW k \in 1 .. Len(a) PROVE 1 <= a[k].first /\ a[k].first <= a[k].last
    <3>1. CASE k \in 1 .. Len(s)
      BY <1>2, <1>6, <3>1
    <3>2. ASSUME NEW j \in 1 .. Len(t), k = Len(s) + j PROVE 1 <= a[k].first /\ a[k].first <= a[k].last
      <4>1. a[k].first = t[j].first + d /\ a[k].last = t[j].last + d
        BY <1>8, <3>2
      <4>2. t[j].first \in Nat /\ t[j].last \in Nat /\ 1 <= t[j].first /\ t[j].first <= t[j].last
        BY <1>3
      <4>3. QED
        BY <1>1, <4>1, <4>2
    <3>3. QED
      BY <1>9, <3>1, <3>2
  <2>3. ASSUME NEW k \in 1 .. Len(a), k < Len(a) PROVE a[k + 1].first = a[k].last + 1
    <3>1. CASE k \in 1 .. Len(s) /\ k < Len(s)
      <4>1. k + 1 \in 1 .. Len(s)
        BY <1>2, <3>1
      <4>2. s[k + 1].first = s[k].last + 1
        BY <3>1 DEF Parse, Follow
      <4>3. QED
        BY <1>6, <3>1, <4>1, <4>2
    <3>2. CASE k = Len(s)
      <4>1. 1 \in 1 .. Len(t) /\ Len(t) > 0 /\ Len(s) > 0 /\ k \in 1 .. Len(s)
        BY <1>2, <1>3, <1>4, <1>5, <2>3, <3>2
      <4>2. a[k + 1].first = t[1].first + d
        BY <1>8, <3>2, <4>1
      <4>3. a[k].last = d
        BY <1>6, <1>12, <3>2, <4>1
      <4>4. QED
        BY <1>1, <1>11, <4>1, <4>2, <4>3
    <3>3. ASSUME NEW j \in 1 .. Len(t), k = Len(s) + j PROVE a[k + 1].first = a[k].last + 1
      <4>1. j < Len(t) /\ j + 1 \in 1 .. Len(t) /\ k + 1 = Len(s) + (j + 1)
        BY <1>2, <1>3, <1>4, <1>5, <2>3, <3>3
      <4>2. t[j + 1].first = t[j].last + 1
        BY <4>1 DEF Parse, Follow
      <4>3. a[k + 1].first = t[j + 1].first + d /\ a[k].last = t[j].last + d
        BY <1>8, <3>3, <4>1
      <4>4. t[j].last \in Nat
        BY <1>3
      <4>5. QED
        BY <1>1, <4>2, <4>3, <4>4
    <3>4. QED
      BY <1>2, <1>9, <3>1, <3>2, <3>3
  <2>4. QED
    BY <1>5, <2>1, <2>2, <2>3 DEF Follow
<1>14. Len(a) = 0 => Len(w) = 0
  <2>1. Len(a) = Len(s) + Len(t) /\ Len(s) \in Nat /\ Len(t) \in Nat
    BY <1>2, <1>3, <1>4, <1>5
  <2>2. Len(w) = Len(p) + Len(r) /\ Len(p) \in Nat /\ Len(r) \in Nat
    BY <1>1
  <2>3. SUFFICES ASSUME Len(a) = 0 PROVE Len(w) = 0
    OBVIOUS
  <2>4. Len(s) = 0 /\ Len(t) = 0
    <3>1. \A m, n \in Nat : m + n = 0 => m = 0 /\ n = 0
      OBVIOUS
    <3>2. Len(s) + Len(t) = 0
      BY <2>1, <2>3
    <3>3. QED
      BY <2>1, <3>1, <3>2, Zenon
  <2>5. Len(p) = 0 /\ Len(r) = 0
    BY <1>10, <2>4
  <2>6. QED
    BY <2>2, <2>5
<1>15. Len(a) > 0 => a[Len(a)].last = Len(w)
  <2>1. CASE Len(t) > 0
    <3>1. Len(t) \in 1 .. Len(t) /\ Len(a) = Len(s) + Len(t)
      BY <1>3, <1>4, <1>5, <2>1
    <3>2. a[Len(a)].last = t[Len(t)].last + d
      BY <1>8, <3>1
    <3>3. t[Len(t)].last = Len(r)
      BY <2>1 DEF Parse
    <3>4. QED
      BY <1>1, <3>2, <3>3
  <2>2. CASE Len(t) = 0
    <3>1. Len(w) = Len(p) /\ Len(a) = Len(s)
      BY <1>1, <1>2, <1>4, <1>5, <1>10, <2>2
    <3>2. SUFFICES ASSUME Len(a) > 0 PROVE a[Len(a)].last = Len(w)
      OBVIOUS
    <3>3. Len(s) \in 1 .. Len(s)
      BY <1>2, <3>1, <3>2
    <3>4. QED
      BY <1>6, <1>12, <3>1, <3>2, <3>3
  <2>3. QED
    BY <1>3, <2>1, <2>2
<1>16. ASSUME NEW k \in 1 .. Len(a)
       PROVE  a[k].last <= Len(w) /\ OneIn(w, a[k]) /\ (k < Len(a) => Ends(w[a[k].last]))
  <2>1. CASE k \in 1 .. Len(s)
    <3>1. a[k] = s[k] /\ s[k].last <= Len(p) /\ s[k].last \in Nat /\ s[k].first \in Nat /\ 1 <= s[k].first
          /\ s[k].first <= s[k].last
      BY <1>2, <1>6, <2>1
    <3>2. s[k].last <= Len(w)
      BY <1>1, <3>1
    <3>3. \A i \in s[k].first .. s[k].last : i \in 1 .. Len(p)
      BY <1>1, <3>1
    <3>4. OneIn(p, s[k])
      BY <2>1 DEF Parse
    <3>5. OneIn(w, s[k])
      BY <1>1, <3>3, <3>4 DEF OneIn
    <3>6. s[k].last \in 1 .. Len(p) /\ w[s[k].last] = p[s[k].last]
      BY <1>1, <3>1
    <3>7. k < Len(a) => Ends(w[s[k].last])
      <4>1. CASE k < Len(s)
        BY <2>1, <3>6, <4>1 DEF Parse
      <4>2. CASE k = Len(s) /\ Len(r) # 0
        <5>1. r # <<>> /\ Len(s) > 0 /\ Len(p) # 0 /\ p # <<>>
          BY <1>1, <1>2, <1>10, <2>1, <4>2
        <5>2. Ends(p[Len(p)])
          BY <5>1 DEF Complete, Final
        <5>3. s[k].last = Len(p)
          BY <1>12, <4>2, <5>1
        <5>4. QED
          BY <3>6, <5>2, <5>3
      <4>3. CASE k = Len(s) /\ Len(r) = 0
        BY <1>2, <1>4, <1>5, <1>10, <4>3
      <4>4. QED
        BY <1>2, <2>1, <4>1, <4>2, <4>3
    <3>8. QED
      BY <3>1, <3>2, <3>5, <3>7
  <2>2. ASSUME NEW j \in 1 .. Len(t), k = Len(s) + j
        PROVE  a[k].last <= Len(w) /\ OneIn(w, a[k]) /\ (k < Len(a) => Ends(w[a[k].last]))
    <3>1. a[k].first = t[j].first + d /\ a[k].last = t[j].last + d
      BY <1>8, <2>2
    <3>2. t[j].last <= Len(r) /\ t[j].last \in Nat /\ t[j].first \in Nat /\ 1 <= t[j].first /\ t[j].first <= t[j].last
      BY <1>3
    <3>3. a[k].last <= Len(w) /\ t[j].last \in 1 .. Len(r)
      BY <1>1, <3>1, <3>2
    <3>4. w[a[k].last] = r[t[j].last]
      <4>1. a[k].last = Len(p) + t[j].last
        BY <1>1, <3>1, <3>2
      <4>2. QED
        BY <1>1, <3>3, <4>1
    <3>5. OneIn(r, t[j])
      BY DEF Parse
    <3>6. ASSUME NEW i \in a[k].first .. a[k].last, i < a[k].last PROVE ~Ends(w[i])
      <4>1. i - d \in t[j].first .. t[j].last /\ i - d < t[j].last /\ i - d \in 1 .. Len(r) /\ i = Len(p) + (i - d)
        BY <1>1, <3>1, <3>2, <3>6
      <4>2. w[i] = r[i - d]
        BY <1>1, <4>1
      <4>3. QED
        BY <3>5, <4>1, <4>2 DEF OneIn
    <3>7. OneIn(w, a[k])
      BY <3>6 DEF OneIn
    <3>8. k < Len(a) => Ends(w[a[k].last])
      <4>1. SUFFICES ASSUME k < Len(a) PROVE Ends(r[t[j].last])
        BY <3>4
      <4>2. j < Len(t)
        BY <1>2, <1>3, <1>4, <1>5, <2>2, <4>1
      <4>3. QED
        BY <4>2 DEF Parse
    <3>9. QED
      BY <3>3, <3>7, <3>8
  <2>3. QED
    BY <1>9, <2>1, <2>2
<1>17. Parse(w, a)
  BY <1>13, <1>14, <1>15, <1>16 DEF Parse
<1>18. QED
  BY <1>4, <1>5, <1>6, <1>7, <1>17 DEF a, u, w

\* The sentences of a concatenation, by number.
LEMMA ConcatSentences ==
  ASSUME NEW p \in Seq(Words), NEW r \in Seq(Words), Len(p) + Len(r) <= MaxSentences,
         r # <<>> => Complete(p)
  PROVE  /\ NumSentences(p) \in Nat /\ NumSentences(r) \in Nat
         /\ NumSentences(p \o r) = NumSentences(p) + NumSentences(r)
         /\ \A k \in 1 .. NumSentences(p) : Sentences(p \o r)[k] = Sentences(p)[k]
         /\ \A k \in 1 .. NumSentences(r) :
              Sentences(p \o r)[NumSentences(p) + k] =
                [first |-> Sentences(r)[k].first + Len(p), last |-> Sentences(r)[k].last + Len(p)]
<1> DEFINE s == Sentences(p)
           t == Sentences(r)
           a == s \o Shift(t, Len(p))
<1>0. MaxSentences \in Nat /\ Len(p) \in Nat /\ Len(r) \in Nat
  BY MaxSentencesAssumption
<1>1. Parse(p, s)
  <2>1. Len(p) <= MaxSentences
    BY <1>0
  <2>2. QED
    BY <2>1, SentencesParse
<1>2. Parse(r, t)
  <2>1. Len(r) <= MaxSentences
    BY <1>0
  <2>2. QED
    BY <2>1, SentencesParse
<1>3. p \o r \in Seq(Words) /\ Len(p \o r) = Len(p) + Len(r)
  BY ConcatWords
<1>4. Parse(p \o r, Sentences(p \o r))
  BY <1>3, SentencesParse
<1>5. Len(s) \in Nat /\ Len(t) \in Nat
  BY <1>1, <1>2, ParseTypes
<1> HIDE DEF s, t
<1>6. /\ Parse(p \o r, a)
      /\ Len(a) = Len(s) + Len(t)
      /\ \A k \in 1 .. Len(s) : a[k] = s[k]
      /\ \A k \in 1 .. Len(t) : a[Len(s) + k] = [first |-> t[k].first + Len(p), last |-> t[k].last + Len(p)]
  BY <1>1, <1>2, ParseConcat
<1> HIDE DEF a
<1>7. Sentences(p \o r) = a
  BY <1>3, <1>4, <1>6, ParseUnique
<1>8. NumSentences(p) = Len(s) /\ NumSentences(r) = Len(t) /\ NumSentences(p \o r) = Len(a)
  BY <1>7 DEF NumSentences, s, t
<1>9. Sentences(p) = s /\ Sentences(r) = t
  BY DEF s, t
<1>10. QED
  BY <1>5, <1>6, <1>7, <1>8, <1>9

\* Where a sentence of a text is.
LEMMA SentencePlace ==
  ASSUME NEW w \in Seq(Words), NEW k \in 1 .. NumSentences(w)
  PROVE  /\ NumSentences(w) \in Nat /\ Len(w) \in Nat
         /\ Sentences(w)[k].first \in Nat /\ Sentences(w)[k].last \in Nat
         /\ 1 <= Sentences(w)[k].first /\ Sentences(w)[k].first <= Sentences(w)[k].last
         /\ Sentences(w)[k].last <= Len(w)
<1>1. Follow(Sentences(w)) /\ \A j \in 1 .. NumSentences(w) : Sentences(w)[j].last <= Len(w)
  BY SentencesInside
<1>2. Sentences(w) \in Seq(Spans)
  BY <1>1 DEF Follow
<1>3. Len(Sentences(w)) = NumSentences(w) /\ Len(w) \in Nat
  BY DEF NumSentences
<1>4. NumSentences(w) \in Nat /\ Sentences(w)[k] \in Spans
  BY <1>2, <1>3, ElementOfSeq
<1>5. \A at \in Spans : at.first \in Nat /\ at.last \in Nat
  BY DEF Spans
<1>6. 1 <= Sentences(w)[k].first /\ Sentences(w)[k].first <= Sentences(w)[k].last
  BY <1>1, <1>3 DEF Follow
<1>7. QED
  BY <1>1, <1>3, <1>4, <1>5, <1>6

\* The number of sentences is a number.
LEMMA NumType ==
  ASSUME NEW w \in Seq(Words)
  PROVE  NumSentences(w) \in Nat
<1>1. Sentences(w) \in Seq(Spans)
  BY SentencesInside DEF Follow
<1>2. QED
  BY <1>1 DEF NumSentences

\* The sentences of a concatenation, word for word.
LEMMA ConcatSentence ==
  ASSUME NEW p \in Seq(Words), NEW r \in Seq(Words), Len(p) + Len(r) <= MaxSentences,
         r # <<>> => Complete(p)
  PROVE  /\ \A k \in 1 .. NumSentences(p) : Sentence(p \o r, k) = Sentence(p, k)
         /\ \A k \in 1 .. NumSentences(r) : Sentence(p \o r, NumSentences(p) + k) = Sentence(r, k)
<1> DEFINE w == p \o r
<1>1. /\ NumSentences(p) \in Nat /\ NumSentences(r) \in Nat
      /\ \A k \in 1 .. NumSentences(p) : Sentences(w)[k] = Sentences(p)[k]
      /\ \A k \in 1 .. NumSentences(r) :
              Sentences(w)[NumSentences(p) + k] =
                [first |-> Sentences(r)[k].first + Len(p), last |-> Sentences(r)[k].last + Len(p)]
  BY ConcatSentences
<1>2. ASSUME NEW k \in 1 .. NumSentences(p) PROVE Sentence(w, k) = Sentence(p, k)
  <2> DEFINE m == Sentences(p)[k].first
             n == Sentences(p)[k].last
  <2>1. Len(p) \in Nat /\ m \in Nat /\ n \in Nat /\ 1 <= m /\ m <= n /\ n <= Len(p)
    BY SentencePlace
  <2>2. Sentence(p, k) = SubSeq(p, m, n)
    BY DEF Sentence
  <2>3. Sentence(w, k) = SubSeq(w, m, n)
    BY <1>1 DEF Sentence
  <2> HIDE DEF m, n
  <2>4. m \in 1 .. Len(p) /\ n \in 1 .. Len(p)
    BY <2>1
  <2>5. QED
    BY <2>2, <2>3, <2>4, SubSeqOfConcat1
<1>3. ASSUME NEW k \in 1 .. NumSentences(r) PROVE Sentence(w, NumSentences(p) + k) = Sentence(r, k)
  <2> DEFINE m == Sentences(r)[k].first
             n == Sentences(r)[k].last
  <2>1. Len(r) \in Nat /\ m \in Nat /\ n \in Nat /\ 1 <= m /\ m <= n /\ n <= Len(r)
    BY SentencePlace
  <2>2. Sentence(r, k) = SubSeq(r, m, n)
    BY DEF Sentence
  <2>3. Sentences(w)[NumSentences(p) + k] = [first |-> m + Len(p), last |-> n + Len(p)]
    BY <1>1
  <2> HIDE DEF m, n
  <2>4. Sentence(w, NumSentences(p) + k) = SubSeq(w, m + Len(p), n + Len(p))
    <3>1. Sentences(w)[NumSentences(p) + k].first = m + Len(p) /\ Sentences(w)[NumSentences(p) + k].last = n + Len(p)
      BY <2>3
    <3> HIDE DEF w
    <3>2. QED
      BY <3>1, Zenon DEF Sentence
  <2>5. Len(p) \in Nat
    OBVIOUS
  <2>6. /\ m + Len(p) \in Len(p) + 1 .. Len(p) + Len(r) /\ n + Len(p) \in Len(p) + 1 .. Len(p) + Len(r)
        /\ (m + Len(p)) - Len(p) = m /\ (n + Len(p)) - Len(p) = n
    BY <2>1, <2>5
  <2>7. SubSeq(w, m + Len(p), n + Len(p)) = SubSeq(r, (m + Len(p)) - Len(p), (n + Len(p)) - Len(p))
    BY <2>6, SubSeqOfConcat2
  <2>8. QED
    BY <2>2, <2>4, <2>6, <2>7
<1>4. QED
  BY <1>2, <1>3

\* Words with no delimiter before the last.
Single(words) == words # <<>> /\ \A i \in 1 .. Len(words) : i < Len(words) => ~Ends(words[i])

\* They are one sentence.
LEMMA SingleSentence ==
  ASSUME NEW w \in Seq(Words), Single(w), Len(w) <= MaxSentences
  PROVE  /\ NumSentences(w) = 1 /\ Sentences(w)[1] = [first |-> 1, last |-> Len(w)]
         /\ Sentence(w, 1) = w
<1> DEFINE at == [first |-> 1, last |-> Len(w)]
           s == <<at>>
<1>1. Len(w) \in Nat /\ Len(w) > 0
  BY EmptySeq DEF Single
<1>2. at \in Spans /\ at.first = 1 /\ at.last = Len(w)
  BY <1>1 DEF Spans
<1> HIDE DEF at
<1>3. s \in Seq(Spans) /\ Len(s) = 1 /\ s[1] = at
  BY <1>2
<1> HIDE DEF s
<1>4. Follow(s)
  BY <1>1, <1>2, <1>3 DEF Follow
<1>5. OneIn(w, at)
  BY <1>2 DEF OneIn, Single
<1>6. \A k \in 1 .. 1 : k = 1
  OBVIOUS
<1>7. Parse(w, s)
  BY <1>1, <1>2, <1>3, <1>4, <1>5, <1>6 DEF Parse
<1>8. Parse(w, Sentences(w))
  BY SentencesParse
<1>9. Sentences(w) = s
  BY <1>7, <1>8, ParseUnique
<1>10. NumSentences(w) = 1 /\ Sentences(w)[1] = at
  BY <1>3, <1>9 DEF NumSentences
<1>11. Sentence(w, 1) = SubSeq(w, 1, Len(w))
  BY <1>2, <1>10 DEF Sentence
<1>12. QED
  BY <1>10, <1>11, SubSeqFull DEF at

\* A text has sentences if it has words.
LEMMA NumZero ==
  ASSUME NEW w \in Seq(Words), Len(w) <= MaxSentences
  PROVE  w = <<>> <=> NumSentences(w) = 0
<1>1. Parse(w, Sentences(w))
  BY SentencesParse
<1>2. Len(w) = 0 <=> NumSentences(w) = 0
  BY <1>1, ParseEmpty DEF NumSentences
<1>3. w = <<>> <=> Len(w) = 0
  BY EmptySeq
<1>4. QED
  BY <1>2, <1>3

-----------------------------------------------------------------------------
(* A text cut at a sentence *)

\* The sentences end in their order.
LEMMA FollowOrder ==
  ASSUME NEW words \in Seq(Words), NEW s, Parse(words, s), NEW i \in 1 .. Len(s), NEW j \in 1 .. Len(s), i <= j
  PROVE  s[i].last <= s[j].last
<1>1. Len(s) \in Nat /\ \A k \in 1 .. Len(s) : s[k].first \in Nat /\ s[k].last \in Nat /\ s[k].first <= s[k].last
  BY ParseTypes
<1> DEFINE S == {n \in Nat : i + n \in 1 .. Len(s) => s[i].last <= s[i + n].last}
<1>2. 0 \in S
  BY <1>1
<1>3. ASSUME NEW n \in Nat, n \in S PROVE n + 1 \in S
  <2>1. SUFFICES ASSUME i + (n + 1) \in 1 .. Len(s) PROVE s[i].last <= s[i + (n + 1)].last
    OBVIOUS
  <2>2. i + n \in 1 .. Len(s) /\ i + n < Len(s) /\ (i + n) + 1 = i + (n + 1)
    BY <1>1, <2>1
  <2>3. s[(i + n) + 1].first = s[i + n].last + 1
    BY <2>2 DEF Parse, Follow
  <2>4. s[i].last <= s[i + n].last
    BY <1>3, <2>2
  <2>5. s[i + n].last \in Nat /\ s[i].last \in Nat
    BY <1>1, <2>2
  <2>6. s[i + (n + 1)].first \in Nat /\ s[i + (n + 1)].last \in Nat /\ s[i + (n + 1)].first <= s[i + (n + 1)].last
    BY <1>1, <2>1
  <2>7. QED
    BY <2>2, <2>3, <2>4, <2>5, <2>6
<1> HIDE DEF S
<1>4. Nat \subseteq S
  BY <1>2, <1>3, Induction
<1>5. j - i \in Nat /\ i + (j - i) = j
  BY <1>1
<1>6. QED
  BY <1>4, <1>5 DEF S

\* The words after sentence k.
Rest(words, k) == SubSeq(words, Sentences(words)[k].last + 1, Len(words))

\* The sentences before the cut.
LEMMA CutBefore ==
  ASSUME NEW w \in Seq(Words), Len(w) <= MaxSentences, NEW k \in 1 .. NumSentences(w)
  PROVE  /\ Before(w, k) \in Seq(Words) /\ Len(Before(w, k)) = Sentences(w)[k].first - 1
         /\ NumSentences(Before(w, k)) = k - 1 /\ Complete(Before(w, k))
<1> DEFINE s == Sentences(w)
           m == s[k].first
           p == Before(w, k)
           u == SubSeq(s, 1, k - 1)
<1>1. Parse(w, s) /\ NumSentences(w) = Len(s)
  BY SentencesParse DEF NumSentences
<1> HIDE DEF s
<1>2. /\ s \in Seq(Spans) /\ Len(s) \in Nat /\ Len(w) \in Nat /\ k \in 1 .. Len(s)
      /\ \A i \in 1 .. Len(s) : /\ s[i] \in Spans /\ s[i].first \in Nat /\ s[i].last \in Nat
                                /\ 1 <= s[i].first /\ s[i].first <= s[i].last /\ s[i].last <= Len(w)
  BY <1>1, ParseTypes
<1>3. m \in Nat /\ 1 <= m /\ m <= Len(w)
  BY <1>2
<1>4. p = SubSeq(w, 1, m - 1)
  BY DEF Before, s
<1>5. /\ p \in Seq(Words) /\ Len(p) = m - 1
      /\ \A i \in 1 .. m - 1 : p[i] = w[i]
  <2>1. \A i \in 1 .. m - 1 : w[i] \in Words
    BY <1>2, <1>3, ElementOfSeq
  <2>2. m - 1 \in Int /\ 1 \in Int
    BY <1>3
  <2>3. /\ SubSeq(w, 1, m - 1) \in Seq(Words)
        /\ Len(SubSeq(w, 1, m - 1)) = IF 1 <= m - 1 THEN (m - 1) - 1 + 1 ELSE 0
        /\ \A i \in 1 .. (m - 1) - 1 + 1 : SubSeq(w, 1, m - 1)[i] = w[1 + i - 1]
    BY <2>1, <2>2, SubSeqProperties
  <2> HIDE DEF m, p
  <2>4. (m - 1) - 1 + 1 = m - 1 /\ \A i \in 1 .. m - 1 : 1 + i - 1 = i
    BY <1>3
  <2>5. QED
    BY <1>3, <1>4, <2>3, <2>4
<1> HIDE DEF p
<1>6. CASE k = 1
  <2>1. m = 1
    BY <1>1, <1>2, <1>6 DEF Parse, Follow
  <2>2. p = <<>>
    BY <1>5, <2>1, EmptySeq
  <2>3. NumSentences(p) = 0
    <3>1. Len(p) <= MaxSentences
      BY <1>5, <2>1, MaxSentencesAssumption
    <3>2. QED
      BY <1>5, <2>2, <3>1, NumZero
  <2>4. QED
    BY <1>5, <1>6, <2>2, <2>3 DEF p, m, s, Complete
<1>7. CASE k # 1
  <2>0. k - 1 \in 1 .. Len(s) /\ k - 1 < Len(s) /\ (k - 1) + 1 = k
    BY <1>2, <1>7
  <2>1. m = s[k - 1].last + 1
    BY <1>1, <2>0 DEF Parse, Follow
  <2>2. u \in Seq(Spans) /\ Len(u) = k - 1 /\ \A i \in 1 .. k - 1 : u[i] = s[i]
    <3>1. \A i \in 1 .. k - 1 : s[i] \in Spans
      BY <1>2
    <3>2. 1 \in Int /\ k - 1 \in Int
      BY <2>0
    <3>3. /\ u \in Seq(Spans) /\ Len(u) = IF 1 <= k - 1 THEN (k - 1) - 1 + 1 ELSE 0
          /\ \A i \in 1 .. (k - 1) - 1 + 1 : u[i] = s[1 + i - 1]
      BY <3>1, <3>2, SubSeqProperties
    <3> HIDE DEF u
    <3>4. (k - 1) - 1 + 1 = k - 1 /\ \A i \in 1 .. k - 1 : 1 + i - 1 = i
      BY <2>0
    <3>5. QED
      BY <2>0, <3>3, <3>4
  <2> HIDE DEF u, m
  <2>3. \A i \in 1 .. k - 1 : i \in 1 .. Len(s) /\ i <= k - 1 /\ s[i].last <= m - 1
    <3> SUFFICES ASSUME NEW i \in 1 .. k - 1
                 PROVE  i \in 1 .. Len(s) /\ i <= k - 1 /\ s[i].last <= m - 1
      OBVIOUS
    <3>1. i \in 1 .. Len(s) /\ i <= k - 1
      BY <1>2, <2>0
    <3>2. s[i].last <= s[k - 1].last
      BY <1>1, <2>0, <3>1, FollowOrder
    <3>3. s[k - 1].last \in Nat
      BY <1>2, <2>0
    <3>4. QED
      BY <2>1, <3>1, <3>2, <3>3
  <2>4. Follow(u)
    <3>1. 1 \in 1 .. k - 1 /\ s[1].first = 1
      BY <1>1, <1>2, <2>0 DEF Parse, Follow
    <3>2. \A i \in 1 .. k - 1 : 1 <= u[i].first /\ u[i].first <= u[i].last
      BY <1>2, <2>2, <2>3
    <3>3. ASSUME NEW i \in 1 .. k - 1, i < k - 1 PROVE u[i + 1].first = u[i].last + 1
      <4>1. i + 1 \in 1 .. k - 1 /\ i \in 1 .. Len(s) /\ i < Len(s)
        BY <2>0, <2>3, <3>3
      <4>2. s[i + 1].first = s[i].last + 1
        BY <1>1, <4>1 DEF Parse, Follow
      <4>3. QED
        BY <2>2, <4>1, <4>2
    <3>4. QED
      BY <2>2, <3>1, <3>2, <3>3 DEF Follow
  <2>5. Len(u) > 0 /\ Len(u) # 0 /\ u[Len(u)].last = Len(p)
    <3>1. u[k - 1] = s[k - 1] /\ k - 1 > 0
      BY <2>0, <2>2
    <3>2. s[k - 1].last \in Nat
      BY <1>2, <2>0
    <3>3. s[k - 1].last = Len(p)
      BY <1>5, <2>1, <3>2 DEF m
    <3>4. QED
      BY <2>2, <3>1, <3>3
  <2>6. ASSUME NEW i \in 1 .. Len(u)
        PROVE  u[i].last <= Len(p) /\ OneIn(p, u[i]) /\ Ends(p[u[i].last])
    <3>1. i \in 1 .. k - 1 /\ i \in 1 .. Len(s) /\ u[i] = s[i] /\ s[i].last <= m - 1
      BY <2>2, <2>3
    <3>2. s[i].first \in Nat /\ s[i].last \in Nat /\ 1 <= s[i].first /\ s[i].first <= s[i].last
      BY <1>2, <3>1
    <3>3. i < Len(s)
      BY <1>2, <2>0, <3>1
    <3>4. OneIn(w, s[i]) /\ Ends(w[s[i].last])
      BY <1>1, <3>1, <3>3 DEF Parse
    <3>5. \A j \in s[i].first .. s[i].last : j \in 1 .. m - 1
      BY <1>3, <3>1, <3>2 DEF m
    <3>6. \A j \in s[i].first .. s[i].last : p[j] = w[j]
      BY <1>5, <3>5 DEF m
    <3>7. OneIn(p, s[i])
      BY <3>4, <3>6 DEF OneIn
    <3>8. s[i].last \in s[i].first .. s[i].last
      BY <3>2
    <3>9. Ends(p[s[i].last])
      BY <3>4, <3>6, <3>8
    <3>10. Len(p) = m - 1
      BY <1>5 DEF m
    <3>11. QED
      BY <3>1, <3>7, <3>9, <3>10
  <2>7. Parse(p, u)
    BY <2>4, <2>5, <2>6 DEF Parse
  <2>8. Parse(p, Sentences(p))
    <3>1. Len(p) <= MaxSentences
      BY <1>2, <1>3, <1>5, MaxSentencesAssumption DEF m
    <3>2. QED
      BY <1>5, <3>1, SentencesParse
  <2>9. Sentences(p) = u
    BY <1>5, <2>7, <2>8, ParseUnique
  <2>10. NumSentences(p) = k - 1
    BY <2>2, <2>9 DEF NumSentences
  <2>11. Complete(p)
    <3>1. Len(u) \in 1 .. Len(u)
      BY <2>0, <2>2
    <3>2. Ends(p[Len(p)])
      BY <2>5, <2>6, <3>1
    <3>3. QED
      BY <3>2 DEF Complete, Final
  <2>12. QED
    BY <1>5, <2>10, <2>11 DEF p, m, s
<1>8. QED
  BY <1>6, <1>7

\* The cut: what stands before sentence k, the sentence, and the rest.
LEMMA Cut ==
  ASSUME NEW w \in Seq(Words), Len(w) <= MaxSentences, NEW k \in 1 .. NumSentences(w)
  PROVE  /\ Sentence(w, k) \in Seq(Words) /\ Rest(w, k) \in Seq(Words)
         /\ w = Before(w, k) \o (Sentence(w, k) \o Rest(w, k))
         /\ Single(Sentence(w, k)) /\ Final(Sentence(w, k)) = w[Sentences(w)[k].last]
         /\ Rest(w, k) # <<>> => Complete(Sentence(w, k))
<1> DEFINE s == Sentences(w)
           m == s[k].first
           n == s[k].last
<1>1. Parse(w, s) /\ NumSentences(w) = Len(s)
  BY SentencesParse DEF NumSentences
<1>2. Len(w) \in Nat /\ m \in Nat /\ n \in Nat /\ 1 <= m /\ m <= n /\ n <= Len(w)
  BY SentencePlace
<1>3. Before(w, k) = SubSeq(w, 1, m - 1) /\ Sentence(w, k) = SubSeq(w, m, n) /\ Rest(w, k) = SubSeq(w, n + 1, Len(w))
  BY DEF Before, Sentence, Rest
<1>4. OneIn(w, s[k]) /\ (k < Len(s) => Ends(w[n])) /\ (k = Len(s) => n = Len(w))
  BY <1>1 DEF Parse
<1>5. \A i \in m .. n : i < n => ~Ends(w[i])
  BY <1>4 DEF OneIn
<1>6. n # Len(w) => Ends(w[n])
  <2>1. k <= Len(s) /\ Len(s) \in Nat
    BY <1>1, ParseTypes
  <2>2. QED
    BY <1>4, <2>1
<1> HIDE DEF s, m, n
<1>7. \A i \in 1 .. Len(w) : w[i] \in Words
  BY ElementOfSeq
<1>8. /\ SubSeq(w, m, n) \in Seq(Words) /\ Len(SubSeq(w, m, n)) = n - m + 1
      /\ \A i \in 1 .. n - m + 1 : SubSeq(w, m, n)[i] = w[m + i - 1]
  <2>1. m \in Int /\ n \in Int /\ \A i \in m .. n : w[i] \in Words
    BY <1>2, <1>7
  <2>2. QED
    BY <1>2, <2>1, SubSeqProperties
<1>9. SubSeq(w, n + 1, Len(w)) \in Seq(Words) /\ (SubSeq(w, n + 1, Len(w)) # <<>> => n # Len(w))
  <2>1. n + 1 \in Int /\ Len(w) \in Int /\ \A i \in n + 1 .. Len(w) : w[i] \in Words
    BY <1>2, <1>7
  <2>2. SubSeq(w, n + 1, Len(w)) \in Seq(Words)
    BY <2>1, SubSeqProperties
  <2>3. n = Len(w) => Len(w) < n + 1
    BY <1>2
  <2>4. n = Len(w) => SubSeq(w, n + 1, Len(w)) = <<>>
    BY <2>1, <2>3, SubSeqEmpty
  <2>5. QED
    BY <2>2, <2>4
<1> DEFINE x == SubSeq(w, m, n)
<1> HIDE DEF x
<1>10. x \in Seq(Words) /\ Len(x) = n - m + 1 /\ \A i \in 1 .. n - m + 1 : x[i] = w[m + i - 1]
  BY <1>8 DEF x
<1>11. Final(x) = w[n]
  <2>1. n - m + 1 \in 1 .. n - m + 1 /\ m + (n - m + 1) - 1 = n
    BY <1>2
  <2>2. QED
    BY <1>10, <2>1 DEF Final
<1>12. Single(x)
  <2>1. x # <<>>
    BY <1>2, <1>10, EmptySeq
  <2>2. ASSUME NEW i \in 1 .. Len(x), i < Len(x) PROVE ~Ends(x[i])
    <3>1. i \in 1 .. n - m + 1 /\ m + i - 1 \in m .. n /\ m + i - 1 < n
      BY <1>2, <1>10, <2>2
    <3>2. QED
      BY <1>5, <1>10, <3>1
  <2>3. QED
    BY <2>1, <2>2 DEF Single
<1>13. SubSeq(w, n + 1, Len(w)) # <<>> => Complete(x)
  BY <1>6, <1>9, <1>11 DEF Complete
<1>14. w = SubSeq(w, 1, m - 1) \o (x \o SubSeq(w, n + 1, Len(w)))
  <2>1. x \o SubSeq(w, n + 1, Len(w)) = SubSeq(w, m, Len(w))
    <3>1. m \in 1 .. Len(w) + 1 /\ n \in m - 1 .. Len(w) /\ Len(w) \in n .. Len(w)
      BY <1>2
    <3>2. QED
      BY <3>1, ConcatAdjacentSubSeq DEF x
  <2>2. SubSeq(w, 1, m - 1) \o SubSeq(w, m, Len(w)) = SubSeq(w, 1, Len(w))
    <3>1. 1 \in 1 .. Len(w) + 1 /\ m - 1 \in 1 - 1 .. Len(w) /\ Len(w) \in m - 1 .. Len(w) /\ (m - 1) + 1 = m
      BY <1>2
    <3>2. SubSeq(w, 1, m - 1) \o SubSeq(w, (m - 1) + 1, Len(w)) = SubSeq(w, 1, Len(w))
      BY <3>1, ConcatAdjacentSubSeq
    <3>3. QED
      BY <3>1, <3>2
  <2>3. QED
    BY <2>1, <2>2, SubSeqFull
<1>15. Sentence(w, k) = x
  BY <1>3 DEF x
<1>16. QED
  BY <1>3, <1>9, <1>10, <1>11, <1>12, <1>13, <1>14, <1>15 DEF n, s

\* A text of one sentence is that sentence.
LEMMA OneSentence ==
  ASSUME NEW w \in Seq(Words), Len(w) <= MaxSentences, NumSentences(w) = 1
  PROVE  Sentence(w, 1) = w
<1> DEFINE s == Sentences(w)
<1>1. Parse(w, s) /\ Len(s) = 1
  BY SentencesParse DEF NumSentences
<1>2. s[1].first = 1 /\ s[1].last = Len(w)
  BY <1>1 DEF Parse, Follow
<1>3. Sentence(w, 1) = SubSeq(w, 1, Len(w))
  BY <1>2 DEF Sentence
<1>4. QED
  BY <1>3, SubSeqFull

-----------------------------------------------------------------------------
(* A text of three parts *)

\* What stands before the seam.
LEMMA PrefixOfConcat ==
  ASSUME NEW p \in Seq(Words), NEW r \in Seq(Words)
  PROVE  SubSeq(p \o r, 1, Len(p)) = p
<1> DEFINE w == p \o r
           x == SubSeq(w, 1, Len(p))
<1>1. /\ w \in Seq(Words) /\ Len(p) \in Nat /\ Len(r) \in Nat /\ Len(w) = Len(p) + Len(r)
      /\ \A i \in 1 .. Len(p) : w[i] = p[i]
  BY ConcatWords
<1> HIDE DEF w
<1>2. \A i \in 1 .. Len(p) : w[i] \in Words
  BY <1>1, ElementOfSeq
<1>3. 1 \in Int /\ Len(p) \in Int
  BY <1>1
<1>4. /\ x \in Seq(Words) /\ Len(x) = IF 1 <= Len(p) THEN Len(p) - 1 + 1 ELSE 0
      /\ \A i \in 1 .. Len(p) - 1 + 1 : x[i] = w[1 + i - 1]
  BY <1>2, <1>3, SubSeqProperties
<1> HIDE DEF x
<1>5. Len(x) = Len(p)
  BY <1>1, <1>4
<1>6. ASSUME NEW i \in 1 .. Len(x) PROVE x[i] = p[i]
  <2>1. i \in 1 .. Len(p) /\ i \in 1 .. Len(p) - 1 + 1 /\ 1 + i - 1 = i
    BY <1>1, <1>5
  <2>2. QED
    BY <1>1, <1>4, <2>1
<1>7. x = p
  BY <1>4, <1>5, <1>6, SeqEqual
<1>8. QED
  BY <1>7 DEF x, w

\* What stands after the seam, from word d on.
LEMMA SuffixOfConcat ==
  ASSUME NEW p \in Seq(Words), NEW r \in Seq(Words), NEW d \in Nat, d <= Len(r)
  PROVE  SubSeq(p \o r, Len(p) + d + 1, Len(p) + Len(r)) = SubSeq(r, d + 1, Len(r))
<1> DEFINE w == p \o r
           m == Len(p) + d + 1
           n == Len(p) + Len(r)
           x == SubSeq(w, m, n)
           y == SubSeq(r, d + 1, Len(r))
<1>1. /\ w \in Seq(Words) /\ Len(p) \in Nat /\ Len(r) \in Nat /\ Len(w) = Len(p) + Len(r)
      /\ \A i \in 1 .. Len(r) : w[Len(p) + i] = r[i]
  BY ConcatWords
<1> HIDE DEF w
<1>2. m \in Int /\ n \in Int /\ \A i \in m .. n : i \in 1 .. Len(w)
  BY <1>1
<1>3. \A i \in m .. n : w[i] \in Words
  BY <1>1, <1>2, ElementOfSeq
<1>4. d + 1 \in Int /\ Len(r) \in Int /\ \A i \in d + 1 .. Len(r) : r[i] \in Words
  BY <1>1, ElementOfSeq
<1>5. /\ y \in Seq(Words) /\ Len(y) = IF d + 1 <= Len(r) THEN Len(r) - (d + 1) + 1 ELSE 0
      /\ \A i \in 1 .. Len(r) - (d + 1) + 1 : y[i] = r[(d + 1) + i - 1]
  BY <1>4, SubSeqProperties
<1> HIDE DEF y, m, n
<1>6. /\ x \in Seq(Words) /\ Len(x) = IF m <= n THEN n - m + 1 ELSE 0
      /\ \A i \in 1 .. n - m + 1 : x[i] = w[m + i - 1]
  BY <1>2, <1>3, SubSeqProperties
<1> HIDE DEF x
<1>7. Len(y) = Len(r) - d
  BY <1>1, <1>5
<1>8. n - m + 1 = Len(r) - d /\ (m <= n <=> d < Len(r))
  BY <1>1 DEF m, n
<1>9. Len(x) = Len(r) - d
  BY <1>1, <1>6, <1>8
<1>10. ASSUME NEW i \in 1 .. Len(x) PROVE x[i] = y[i]
  <2>1. i \in 1 .. Len(r) - d /\ i \in 1 .. Len(r) - (d + 1) + 1 /\ (d + 1) + i - 1 = d + i /\ d + i \in 1 .. Len(r)
        /\ i \in 1 .. n - m + 1
    BY <1>1, <1>8, <1>9
  <2>2. m + i - 1 = Len(p) + (d + i)
    BY <1>1, <2>1 DEF m
  <2>3. x[i] = w[Len(p) + (d + i)]
    BY <1>6, <2>1, <2>2
  <2>4. y[i] = r[d + i]
    BY <1>5, <2>1
  <2>5. QED
    BY <1>1, <2>1, <2>3, <2>4
<1>11. x = y
  BY <1>5, <1>6, <1>7, <1>9, <1>10, SeqEqual
<1>12. QED
  BY <1>11 DEF x, y, w, m, n

\* The words from d on of a first part, and the second part behind them.
LEMMA SuffixAcross ==
  ASSUME NEW p \in Seq(Words), NEW r \in Seq(Words), NEW d \in Nat, d <= Len(p)
  PROVE  SubSeq(p \o r, d + 1, Len(p) + Len(r)) = SubSeq(p, d + 1, Len(p)) \o r
<1> DEFINE a == SubSeq(p, 1, d)
           b == SubSeq(p, d + 1, Len(p))
<1>1. Len(p) \in Nat /\ Len(r) \in Nat
  OBVIOUS
<1>2. a \in Seq(Words) /\ Len(a) = d
  <2>1. 1 \in Int /\ d \in Int /\ \A i \in 1 .. d : p[i] \in Words
    BY <1>1, ElementOfSeq
  <2>2. a \in Seq(Words) /\ Len(a) = IF 1 <= d THEN d - 1 + 1 ELSE 0
    BY <2>1, SubSeqProperties
  <2>3. QED
    BY <2>2
<1>3. b \in Seq(Words)
  <2>1. d + 1 \in Int /\ Len(p) \in Int /\ \A i \in d + 1 .. Len(p) : p[i] \in Words
    BY <1>1, ElementOfSeq
  <2>2. QED
    BY <2>1, SubSeqProperties
<1>4. a \o b = p
  <2>1. 1 \in 1 .. Len(p) + 1 /\ d \in 1 - 1 .. Len(p) /\ Len(p) \in d .. Len(p)
    BY <1>1
  <2>2. a \o b = SubSeq(p, 1, Len(p))
    BY <2>1, ConcatAdjacentSubSeq
  <2>3. QED
    BY <2>2, SubSeqFull
<1> HIDE DEF a, b
<1>5. p \o r = a \o (b \o r)
  <2>1. (a \o b) \o r = a \o (b \o r)
    BY <1>2, <1>3, ConcatAssociative
  <2>2. QED
    BY <1>4, <2>1
<1>6. b \o r \in Seq(Words) /\ Len(b \o r) = Len(b) + Len(r) /\ Len(p) = Len(a) + Len(b) /\ Len(b) \in Nat
  <2>1. b \o r \in Seq(Words) /\ Len(b \o r) = Len(b) + Len(r)
    BY <1>3, ConcatWords
  <2>2. Len(a \o b) = Len(a) + Len(b) /\ Len(b) \in Nat
    BY <1>2, <1>3, ConcatWords
  <2>3. QED
    BY <1>4, <2>1, <2>2
<1>7. SubSeq(a \o (b \o r), Len(a) + 0 + 1, Len(a) + Len(b \o r)) = SubSeq(b \o r, 0 + 1, Len(b \o r))
  BY <1>2, <1>6, SuffixOfConcat
<1>8. Len(a) + 0 + 1 = d + 1 /\ Len(a) + Len(b \o r) = Len(p) + Len(r) /\ 0 + 1 = 1
  BY <1>1, <1>2, <1>6
<1>9. SubSeq(b \o r, 1, Len(b \o r)) = b \o r
  BY <1>6, SubSeqFull
<1>10. QED
  BY <1>5, <1>7, <1>8, <1>9 DEF b

\* A text of three parts.
Joined(c, p, x, q) == c = p \o (x \o q)

\* Its sentences: those of p, those of x, of which the first is sentence k, and those of q.
Divided(c, k, p, x, q) ==
  /\ NumSentences(p) \in Nat /\ NumSentences(x) \in Nat /\ NumSentences(q) \in Nat /\ NumSentences(x) > 0
  /\ NumSentences(c) = NumSentences(p) + (NumSentences(x) + NumSentences(q))
  /\ k \in 1 .. NumSentences(c)
  /\ Sentence(c, k) = Sentence(x, 1)
  /\ Before(c, k) = p
  /\ Rest(c, k) = Rest(x, 1) \o q
  /\ \A j \in 1 .. NumSentences(p) : Sentence(c, j) = Sentence(p, j)
  /\ \A j \in 1 .. NumSentences(x) : Sentence(c, NumSentences(p) + j) = Sentence(x, j)
  /\ \A j \in 1 .. NumSentences(q) :
       Sentence(c, NumSentences(p) + (NumSentences(x) + j)) = Sentence(q, j)

\* They are the sentences if p and x are complete.
LEMMA Middle ==
  ASSUME NEW p \in Seq(Words), NEW x \in Seq(Words), NEW q \in Seq(Words),
         Len(p) + (Len(x) + Len(q)) <= MaxSentences, Complete(p), x # <<>>, q # <<>> => Complete(x),
         NEW k, k = NumSentences(p) + 1, NEW c, Joined(c, p, x, q)
  PROVE  Divided(c, k, p, x, q)
<1> DEFINE r == x \o q
           w == p \o r
<1>0. MaxSentences \in Nat /\ Len(p) \in Nat /\ Len(x) \in Nat /\ Len(q) \in Nat
  BY MaxSentencesAssumption
<1>1. r \in Seq(Words) /\ Len(r) = Len(x) + Len(q)
  BY ConcatWords
<1>2. Len(x) + Len(q) <= MaxSentences /\ Len(x) <= MaxSentences /\ Len(q) <= MaxSentences
  BY <1>0
<1>3. /\ NumSentences(x) \in Nat /\ NumSentences(q) \in Nat
      /\ NumSentences(r) = NumSentences(x) + NumSentences(q)
      /\ \A j \in 1 .. NumSentences(x) : Sentences(r)[j] = Sentences(x)[j]
  BY <1>2, ConcatSentences
<1>4. /\ \A j \in 1 .. NumSentences(x) : Sentence(r, j) = Sentence(x, j)
      /\ \A j \in 1 .. NumSentences(q) : Sentence(r, NumSentences(x) + j) = Sentence(q, j)
  BY <1>2, ConcatSentence
<1> HIDE DEF r
<1>5. Len(p) + Len(r) <= MaxSentences
  BY <1>1
<1>6. /\ NumSentences(p) \in Nat /\ NumSentences(r) \in Nat
      /\ NumSentences(w) = NumSentences(p) + NumSentences(r)
      /\ \A j \in 1 .. NumSentences(r) :
           Sentences(w)[NumSentences(p) + j] = [first |-> Sentences(r)[j].first + Len(p), last |-> Sentences(r)[j].last + Len(p)]
  BY <1>1, <1>5, ConcatSentences
<1>7. /\ \A j \in 1 .. NumSentences(p) : Sentence(w, j) = Sentence(p, j)
      /\ \A j \in 1 .. NumSentences(r) : Sentence(w, NumSentences(p) + j) = Sentence(r, j)
  BY <1>1, <1>5, ConcatSentence
<1>8. NumSentences(x) > 0
  <2>1. NumSentences(x) # 0
    BY <1>2, NumZero
  <2>2. QED
    BY <1>3, <2>1
<1>9. 1 \in 1 .. NumSentences(x) /\ 1 \in 1 .. NumSentences(r) /\ k \in 1 .. NumSentences(w)
  BY <1>3, <1>6, <1>8
<1>10. \A j \in 1 .. NumSentences(x) : j \in 1 .. NumSentences(r)
  BY <1>3
<1>11. \A j \in 1 .. NumSentences(x) : Sentence(w, NumSentences(p) + j) = Sentence(x, j)
  BY <1>4, <1>7, <1>10
<1>12. \A j \in 1 .. NumSentences(q) : Sentence(w, NumSentences(p) + (NumSentences(x) + j)) = Sentence(q, j)
  <2>1. \A j \in 1 .. NumSentences(q) : NumSentences(x) + j \in 1 .. NumSentences(r)
    BY <1>3
  <2>2. QED
    BY <1>4, <1>7, <2>1
<1> DEFINE e == Sentences(x)[1].last
<1>13. Sentences(x)[1].first = 1
  <2>1. Parse(x, Sentences(x)) /\ Len(Sentences(x)) > 0
    BY <1>2, <1>8, SentencesParse DEF NumSentences
  <2>2. QED
    BY <2>1 DEF Parse, Follow
<1>14. e \in Nat /\ e <= Len(x)
  BY <1>9, SentencePlace
<1>15. Sentences(w)[k].first = 1 + Len(p) /\ Sentences(w)[k].last = e + Len(p)
  <2>1. Sentences(r)[1].first = 1 /\ Sentences(r)[1].last = e
    BY <1>3, <1>9, <1>13
  <2> HIDE DEF e, w
  <2>2. Sentences(w)[k] = [first |-> Sentences(r)[1].first + Len(p), last |-> Sentences(r)[1].last + Len(p)]
    BY <1>6, <1>9
  <2>3. QED
    BY <2>1, <2>2
<1> HIDE DEF e
<1>16. w \in Seq(Words) /\ Len(w) = Len(p) + Len(r) /\ Len(r) \in Nat
  BY <1>1, ConcatWords
<1>17. Before(w, k) = p
  <2>1. Sentences(w)[k].first - 1 = Len(p)
    BY <1>0, <1>15
  <2>2. Before(w, k) = SubSeq(w, 1, Len(p))
    BY <2>1 DEF Before
  <2>3. QED
    BY <1>1, <2>2, PrefixOfConcat
<1>18. Rest(w, k) = Rest(x, 1) \o q
  <2>1. Sentences(w)[k].last + 1 = Len(p) + e + 1
    BY <1>0, <1>14, <1>15
  <2>2. Rest(w, k) = SubSeq(w, Len(p) + e + 1, Len(p) + Len(r))
    BY <1>16, <2>1 DEF Rest
  <2>3. e <= Len(r)
    BY <1>0, <1>1, <1>14
  <2>4. SubSeq(w, Len(p) + e + 1, Len(p) + Len(r)) = SubSeq(r, e + 1, Len(r))
    BY <1>1, <1>14, <2>3, SuffixOfConcat
  <2>5. SubSeq(x \o q, e + 1, Len(x) + Len(q)) = SubSeq(x, e + 1, Len(x)) \o q
    BY <1>14, SuffixAcross
  <2>6. Rest(x, 1) = SubSeq(x, e + 1, Len(x))
    BY DEF Rest, e
  <2>7. QED
    BY <1>1, <2>2, <2>4, <2>5, <2>6 DEF r
<1>19. Sentence(w, k) = Sentence(x, 1)
  BY <1>9, <1>11
<1>20. NumSentences(w) = NumSentences(p) + (NumSentences(x) + NumSentences(q))
  BY <1>3, <1>6
<1>21. c = w
  BY DEF Joined, w, r
<1> HIDE DEF w
<1>22. QED
  BY <1>3, <1>6, <1>7, <1>8, <1>9, <1>11, <1>12, <1>17, <1>18, <1>19, <1>20, <1>21 DEF Divided

-----------------------------------------------------------------------------
(* No blank words *)

RealWords == {word \in Words : ~Blank(word)}

\* A text is a sequence of words that are not blank.
LEMMA TextSeq ==
  ASSUME NEW w
  PROVE  IsText(w) <=> w \in Seq(RealWords)
<1>1. ASSUME IsText(w) PROVE w \in Seq(RealWords)
  <2>1. w \in Seq(Words) /\ Len(w) \in Nat /\ \A i \in 1 .. Len(w) : ~Blank(w[i])
    BY <1>1 DEF IsText
  <2>2. w \in [1 .. Len(w) -> Words]
    BY <2>1, LenProperties
  <2>3. \A i \in 1 .. Len(w) : w[i] \in RealWords
    BY <2>1, <2>2 DEF RealWords
  <2>4. w \in [1 .. Len(w) -> RealWords]
    BY <2>2, <2>3
  <2>5. QED
    BY <2>1, <2>4, SeqDef
<1>2. ASSUME w \in Seq(RealWords) PROVE IsText(w)
  <2>1. RealWords \subseteq Words
    BY DEF RealWords
  <2>2. w \in Seq(Words)
    BY <1>2, <2>1, SeqMonotonic
  <2>3. \A i \in 1 .. Len(w) : w[i] \in RealWords
    BY <1>2, ElementOfSeq
  <2>4. QED
    BY <2>2, <2>3 DEF IsText, RealWords
<1>3. QED
  BY <1>1, <1>2

\* Such a text is a text of words.
LEMMA RealIsWords ==
  ASSUME NEW w \in Seq(RealWords)
  PROVE  w \in Seq(Words) /\ Len(w) \in Nat /\ \A i \in 1 .. Len(w) : w[i] \in RealWords
<1>1. RealWords \subseteq Words
  BY DEF RealWords
<1>2. w \in Seq(Words)
  BY <1>1, SeqMonotonic
<1>3. QED
  BY <1>2, ElementOfSeq, LenProperties

\* Parts of it.
LEMMA RealPart ==
  ASSUME NEW w \in Seq(RealWords), NEW m \in Int, NEW n \in Int, 1 <= m, n <= Len(w)
  PROVE  /\ SubSeq(w, m, n) \in Seq(RealWords)
         /\ Len(SubSeq(w, m, n)) = IF m <= n THEN n - m + 1 ELSE 0
         /\ \A i \in 1 .. n - m + 1 : SubSeq(w, m, n)[i] = w[m + i - 1]
<1>1. Len(w) \in Nat
  BY RealIsWords
<1>2. \A i \in m .. n : i \in 1 .. Len(w)
  BY <1>1
<1>3. \A i \in m .. n : w[i] \in RealWords
  BY <1>2, RealIsWords
<1>4. QED
  BY <1>3, SubSeqProperties

\* A sentence and what stands around it.
LEMMA RealSentence ==
  ASSUME NEW w \in Seq(RealWords), NEW k \in 1 .. NumSentences(w)
  PROVE  /\ Before(w, k) \in Seq(RealWords) /\ Sentence(w, k) \in Seq(RealWords) /\ Rest(w, k) \in Seq(RealWords)
         /\ Len(Sentence(w, k)) \in Nat /\ Len(Sentence(w, k)) > 0
         /\ Final(Sentence(w, k)) = w[Sentences(w)[k].last]
         /\ Len(Before(w, k)) + (Len(Sentence(w, k)) + Len(Rest(w, k))) = Len(w)
<1> DEFINE m == Sentences(w)[k].first
           n == Sentences(w)[k].last
<1>1. w \in Seq(Words)
  BY RealIsWords
<1>2. Len(w) \in Nat /\ m \in Nat /\ n \in Nat /\ 1 <= m /\ m <= n /\ n <= Len(w)
  BY <1>1, SentencePlace
<1>3. Before(w, k) = SubSeq(w, 1, m - 1) /\ Sentence(w, k) = SubSeq(w, m, n) /\ Rest(w, k) = SubSeq(w, n + 1, Len(w))
  BY DEF Before, Sentence, Rest
<1> HIDE DEF m, n
<1>4. SubSeq(w, 1, m - 1) \in Seq(RealWords) /\ Len(SubSeq(w, 1, m - 1)) = m - 1
  <2>1. 1 \in Int /\ m - 1 \in Int /\ 1 <= 1 /\ m - 1 <= Len(w)
    BY <1>2
  <2>2. SubSeq(w, 1, m - 1) \in Seq(RealWords) /\ Len(SubSeq(w, 1, m - 1)) = IF 1 <= m - 1 THEN (m - 1) - 1 + 1 ELSE 0
    BY <2>1, RealPart
  <2>3. QED
    BY <1>2, <2>2
<1>5. SubSeq(w, n + 1, Len(w)) \in Seq(RealWords) /\ Len(SubSeq(w, n + 1, Len(w))) = Len(w) - n
  <2>1. n + 1 \in Int /\ Len(w) \in Int /\ 1 <= n + 1 /\ Len(w) <= Len(w)
    BY <1>2
  <2>2. SubSeq(w, n + 1, Len(w)) \in Seq(RealWords)
        /\ Len(SubSeq(w, n + 1, Len(w))) = IF n + 1 <= Len(w) THEN Len(w) - (n + 1) + 1 ELSE 0
    BY <2>1, RealPart
  <2>3. QED
    BY <1>2, <2>2
<1>6. /\ SubSeq(w, m, n) \in Seq(RealWords) /\ Len(SubSeq(w, m, n)) = n - m + 1
      /\ SubSeq(w, m, n)[n - m + 1] = w[n]
  <2>1. m \in Int /\ n \in Int
    BY <1>2
  <2>2. /\ SubSeq(w, m, n) \in Seq(RealWords) /\ Len(SubSeq(w, m, n)) = IF m <= n THEN n - m + 1 ELSE 0
        /\ \A i \in 1 .. n - m + 1 : SubSeq(w, m, n)[i] = w[m + i - 1]
    BY <1>2, <2>1, RealPart
  <2>3. n - m + 1 \in 1 .. n - m + 1 /\ m + (n - m + 1) - 1 = n
    BY <1>2
  <2>4. QED
    BY <1>2, <2>2, <2>3
<1>7. Final(SubSeq(w, m, n)) = w[n]
  BY <1>6 DEF Final
<1>8. (m - 1) + ((n - m + 1) + (Len(w) - n)) = Len(w) /\ n - m + 1 \in Nat /\ n - m + 1 > 0
  BY <1>2
<1>9. QED
  BY <1>3, <1>4, <1>5, <1>6, <1>7, <1>8 DEF n

\* A word loses or gets a delimiter.
LEMMA Marks ==
  ASSUME NEW word \in RealWords
  PROVE  /\ Close(word) \in RealWords /\ Ends(Close(word))
         /\ Ends(word) /\ ~Blank(Strip(word)) => Strip(word) \in RealWords
<1>1. word \in Words /\ word.marks \in Nat /\ word.base \in STRING
  BY DEF RealWords, Words
<1>2. Close(word) \in Words /\ Close(word).marks = word.marks + 1
  BY <1>1 DEF Close, Words
<1>3. word.marks > 0 => Strip(word) \in Words
  BY <1>1 DEF Strip, Words
<1>4. word.marks + 1 > 0 /\ word.marks + 1 # 0
  BY <1>1
<1>5. Ends(Close(word)) /\ ~Blank(Close(word))
  BY <1>2, <1>4 DEF Ends, Blank
<1>6. QED
  BY <1>2, <1>3, <1>5 DEF RealWords, Ends

\* All words but the last, and the last.
LEMMA RealFront ==
  ASSUME NEW w \in Seq(RealWords), Len(w) > 0
  PROVE  Front(w) \in Seq(RealWords) /\ Len(Front(w)) = Len(w) - 1 /\ Final(w) \in RealWords
<1>1. Len(w) \in Nat
  OBVIOUS
<1> DEFINE n == Len(w) - 1
<1>2. n \in Int /\ n <= Len(w) /\ 0 <= n
  BY <1>1
<1> HIDE DEF n
<1>3. SubSeq(w, 1, n) \in Seq(RealWords) /\ Len(SubSeq(w, 1, n)) = IF 1 <= n THEN n - 1 + 1 ELSE 0
  BY <1>2, RealPart
<1>4. (IF 1 <= n THEN n - 1 + 1 ELSE 0) = n
  BY <1>2
<1>5. Front(w) = SubSeq(w, 1, n)
  BY DEF Front, n
<1>6. Len(w) \in 1 .. Len(w)
  BY <1>1
<1>7. Final(w) \in RealWords
  BY <1>6, ElementOfSeq DEF Final
<1>8. QED
  BY <1>3, <1>4, <1>5, <1>7 DEF n

\* The sentence without its delimiter.
LEMMA RealBody ==
  ASSUME NEW w \in Seq(RealWords), NEW k \in 1 .. NumSentences(w)
  PROVE  Body(w, k) \in Seq(RealWords) /\ Len(Body(w, k)) \in Nat /\ Len(Body(w, k)) <= Len(Sentence(w, k))
<1> DEFINE x == Sentence(w, k)
<1>1. x \in Seq(RealWords) /\ Len(x) \in Nat /\ Len(x) > 0
  BY RealSentence
<1>2. Body(w, k) = IF ~Ends(Final(x)) THEN x
                   ELSE IF Blank(Strip(Final(x))) THEN Front(x) ELSE Append(Front(x), Strip(Final(x)))
  BY DEF Body
<1> HIDE DEF x
<1>3. Front(x) \in Seq(RealWords) /\ Len(Front(x)) = Len(x) - 1
  BY <1>1, RealFront
<1>4. Final(x) \in RealWords
  BY <1>1, RealFront
<1>5. CASE ~Ends(Final(x))
  BY <1>1, <1>2, <1>5 DEF x
<1>6. CASE Ends(Final(x)) /\ Blank(Strip(Final(x)))
  <2>1. Body(w, k) = Front(x)
    BY <1>2, <1>6
  <2>2. QED
    BY <1>1, <1>3, <2>1 DEF x
<1>7. CASE Ends(Final(x)) /\ ~Blank(Strip(Final(x)))
  <2>1. Body(w, k) = Append(Front(x), Strip(Final(x)))
    BY <1>2, <1>7
  <2>2. Strip(Final(x)) \in RealWords
    BY <1>4, <1>7, Marks
  <2>3. Append(Front(x), Strip(Final(x))) \in Seq(RealWords) /\ Len(Append(Front(x), Strip(Final(x)))) = Len(Front(x)) + 1
    BY <1>3, <2>2, AppendProperties
  <2>4. QED
    BY <1>1, <1>3, <2>1, <2>3 DEF x
<1>8. QED
  BY <1>5, <1>6, <1>7

\* Texts that are put together.
LEMMA RealConcat ==
  ASSUME NEW p \in Seq(RealWords), NEW r \in Seq(RealWords)
  PROVE  p \o r \in Seq(RealWords) /\ Len(p) \in Nat /\ Len(r) \in Nat /\ Len(p \o r) = Len(p) + Len(r)
<1>1. p \o r \in Seq(RealWords) /\ Len(p \o r) = Len(p) + Len(r)
  BY ConcatProperties
<1>2. QED
  BY <1>1, LenProperties

\* What an edit line makes of a sentence of the text: a text with words, delimited if the
\* sentence was.
EditOf(words, k, new, e) ==
  /\ e \in Seq(RealWords) /\ e # <<>>
  /\ Ends(words[Sentences(words)[k].last]) => Ends(Final(e))
  /\ Len(e) <= Len(Sentence(words, k)) + Len(new)

\* An edit line changes one sentence of the text it is applied to.
LEMMA InsertParts ==
  ASSUME NEW w \in Seq(RealWords), NEW k \in 1 .. NumSentences(w), NEW idx \in Nat, InsertOK(w, k, idx),
         NEW new \in Seq(RealWords), new # <<>>
  PROVE  \E e : EditOf(w, k, new, e) /\ Insert(w, k, idx, new) = (Before(w, k) \o e) \o Rest(w, k)
<1> DEFINE body == Body(w, k)
           stop == Sentences(w)[k].last
           a == SubSeq(body, 1, idx - 1)
           b == SubSeq(body, idx, Len(body))
           edited == (a \o new) \o b
           e == IF Ends(w[stop]) THEN Append(Front(edited), Close(Final(edited))) ELSE edited
<1>1. NumSentences(w) \in Nat /\ ~(k > NumSentences(w))
  <2>1. NumSentences(w) \in Nat
    BY RealIsWords, NumType
  <2>2. QED
    BY <2>1
<1>2. body \in Seq(RealWords) /\ Len(body) \in Nat /\ Len(body) <= Len(Sentence(w, k))
  BY RealBody
<1>3. 1 <= idx /\ idx <= Len(body) + 1
  BY <1>1 DEF InsertOK
<1>4. Insert(w, k, idx, new) = (Before(w, k) \o e) \o Rest(w, k)
  BY <1>1 DEF Insert, Rest
<1>5. Len(Sentence(w, k)) \in Nat
  BY RealSentence
<1> HIDE DEF body, stop
<1>6. a \in Seq(RealWords) /\ Len(a) = idx - 1
  <2>1. 1 \in Int /\ idx - 1 \in Int /\ 1 <= 1 /\ idx - 1 <= Len(body)
    BY <1>2, <1>3
  <2>2. a \in Seq(RealWords) /\ Len(a) = IF 1 <= idx - 1 THEN (idx - 1) - 1 + 1 ELSE 0
    BY <1>2, <2>1, RealPart
  <2>3. (IF 1 <= idx - 1 THEN (idx - 1) - 1 + 1 ELSE 0) = idx - 1
    BY <1>3
  <2>4. QED
    BY <2>2, <2>3
<1>7. b \in Seq(RealWords) /\ Len(b) = Len(body) - idx + 1
  <2>1. idx \in Int /\ Len(body) \in Int /\ Len(body) <= Len(body)
    BY <1>2
  <2>2. b \in Seq(RealWords) /\ Len(b) = IF idx <= Len(body) THEN Len(body) - idx + 1 ELSE 0
    BY <1>2, <1>3, <2>1, RealPart
  <2>3. (IF idx <= Len(body) THEN Len(body) - idx + 1 ELSE 0) = Len(body) - idx + 1
    BY <1>2, <1>3
  <2>4. QED
    BY <2>2, <2>3
<1> HIDE DEF a, b
<1>8. Len(new) \in Nat /\ Len(new) > 0
  BY EmptySeq
<1>9. edited \in Seq(RealWords) /\ Len(edited) = Len(body) + Len(new)
  <2>1. a \o new \in Seq(RealWords) /\ Len(a \o new) = Len(a) + Len(new)
    BY <1>6, RealConcat
  <2>2. edited \in Seq(RealWords) /\ Len(edited) = Len(a \o new) + Len(b)
    BY <1>7, <2>1, RealConcat
  <2>3. ((idx - 1) + Len(new)) + (Len(body) - idx + 1) = Len(body) + Len(new)
    BY <1>2, <1>3, <1>8
  <2>4. QED
    BY <1>6, <1>7, <2>1, <2>2, <2>3
<1> HIDE DEF edited
<1>10. Len(edited) > 0 /\ Len(edited) \in Nat
  BY <1>2, <1>8, <1>9
<1>11. Len(edited) <= Len(Sentence(w, k)) + Len(new)
  BY <1>2, <1>5, <1>8, <1>9
<1>12. CASE ~Ends(w[stop])
  <2>1. e = edited
    BY <1>12
  <2>2. edited # <<>>
    BY <1>10, EmptySeq
  <2> HIDE DEF e
  <2>3. EditOf(w, k, new, e)
    BY <1>9, <1>11, <1>12, <2>1, <2>2 DEF EditOf, stop
  <2>4. QED
    BY <1>4, <2>3 DEF e
<1>13. CASE Ends(w[stop])
  <2> DEFINE f == Front(edited)
             c == Close(Final(edited))
  <2>1. e = Append(f, c)
    BY <1>13
  <2>2. f \in Seq(RealWords) /\ Len(f) = Len(edited) - 1 /\ Final(edited) \in RealWords
    BY <1>9, <1>10, RealFront
  <2>3. c \in RealWords /\ Ends(c)
    BY <2>2, Marks
  <2> HIDE DEF f, c
  <2>4. /\ Append(f, c) \in Seq(RealWords) /\ Append(f, c) # <<>> /\ Len(Append(f, c)) = Len(f) + 1
        /\ Append(f, c)[Len(f) + 1] = c
    BY <2>2, <2>3, AppendProperties
  <2> HIDE DEF e
  <2>5. Final(e) = c
    BY <2>1, <2>4 DEF Final
  <2>6. Len(e) = Len(edited)
    BY <1>10, <2>1, <2>2, <2>4
  <2>7. EditOf(w, k, new, e)
    BY <1>11, <2>1, <2>3, <2>4, <2>5, <2>6 DEF EditOf
  <2>8. QED
    BY <1>4, <2>7 DEF e
<1>14. QED
  BY <1>12, <1>13

\* A text is never merged to a text with blank words.
LEMMA RealMerge ==
  ASSUME NEW w \in Seq(RealWords), NEW x \in Seq(RealWords), NEW k \in Nat, k > 0
  PROVE  Merge(w, x, k) \in Seq(RealWords)
<1> DEFINE n == NumSentences(w)
           m == NumSentences(x)
           mid == IF k <= m THEN Sentence(x, k) ELSE <<>>
           tail == SubSeq(w, Sentences(w)[k].last + 1, Sentences(w)[n].last)
<1>1. n \in Nat /\ m \in Nat
  BY RealIsWords, NumType
<1>2. CASE n = 0
  BY <1>2 DEF Merge
<1>3. CASE n # 0 /\ k > n
  <2>1. CASE m > 0
    <3>1. m \in 1 .. m
      BY <1>1, <2>1
    <3>2. Sentence(x, m) \in Seq(RealWords)
      BY <3>1, RealSentence
    <3>3. w \o Sentence(x, m) \in Seq(RealWords)
      BY <3>2, RealConcat
    <3>4. QED
      BY <1>3, <2>1, <3>3 DEF Merge
  <2>2. CASE ~(m > 0)
    BY <1>3, <2>2 DEF Merge
  <2>3. QED
    BY <2>1, <2>2
<1>4. CASE n # 0 /\ ~(k > n)
  <2>1. k \in 1 .. n /\ n \in 1 .. n
    BY <1>1, <1>4
  <2>2. Before(w, k) \in Seq(RealWords)
    BY <2>1, RealSentence
  <2>3. mid \in Seq(RealWords)
    <3>1. CASE k <= m
      <4>1. k \in 1 .. m
        BY <1>1, <3>1
      <4>2. Sentence(x, k) \in Seq(RealWords)
        BY <4>1, RealSentence
      <4>3. QED
        BY <3>1, <4>2
    <3>2. CASE ~(k <= m)
      <4>1. <<>> \in Seq(RealWords)
        OBVIOUS
      <4>2. QED
        BY <3>2, <4>1
    <3>3. QED
      BY <3>1, <3>2
  <2>4. tail \in Seq(RealWords)
    <3>1. w \in Seq(Words)
      BY RealIsWords
    <3>2. Sentences(w)[k].last \in Nat
      BY <2>1, <3>1, SentencePlace
    <3>3. Sentences(w)[n].last \in Nat /\ Sentences(w)[n].last <= Len(w)
      BY <2>1, <3>1, SentencePlace
    <3>4. Sentences(w)[k].last + 1 \in Int /\ Sentences(w)[n].last \in Int /\ 1 <= Sentences(w)[k].last + 1
      BY <3>2, <3>3
    <3>5. QED
      BY <3>3, <3>4, RealPart
  <2>5. Merge(w, x, k) = (Before(w, k) \o mid) \o tail
    BY <1>4 DEF Merge
  <2> HIDE DEF mid, tail
  <2>6. Before(w, k) \o mid \in Seq(RealWords)
    BY <2>2, <2>3, RealConcat
  <2>7. QED
    BY <2>4, <2>5, <2>6, RealConcat
<1>5. QED
  BY <1>2, <1>3, <1>4

\* The texts of a session.
TextInv ==
  /\ doc \in Seq(RealWords)
  /\ swap # NoCopy => swap \in Seq(RealWords)
  /\ sent \in Nat

\* An edit line makes a text.
LEMMA RealInsert ==
  ASSUME NEW w \in Seq(RealWords), NEW k \in Nat, k > 0, NEW idx \in Nat, InsertOK(w, k, idx),
         NEW new \in Seq(RealWords), new # <<>>
  PROVE  Insert(w, k, idx, new) \in Seq(RealWords)
<1>1. NumSentences(w) \in Nat
  BY RealIsWords, NumType
<1>2. CASE k > NumSentences(w)
  <2>1. Insert(w, k, idx, new) = w \o new
    BY <1>2 DEF Insert
  <2>2. QED
    BY <2>1, RealConcat
<1>3. CASE ~(k > NumSentences(w))
  <2>1. k \in 1 .. NumSentences(w)
    BY <1>1, <1>3
  <2>2. PICK e : EditOf(w, k, new, e) /\ Insert(w, k, idx, new) = (Before(w, k) \o e) \o Rest(w, k)
    BY <2>1, InsertParts
  <2>3. e \in Seq(RealWords)
    BY <2>2 DEF EditOf
  <2>4. Before(w, k) \in Seq(RealWords) /\ Rest(w, k) \in Seq(RealWords)
    BY <2>1, RealSentence
  <2>5. Before(w, k) \o e \in Seq(RealWords)
    BY <2>3, <2>4, RealConcat
  <2>6. QED
    BY <2>2, <2>4, <2>5, RealConcat
<1>4. QED
  BY <1>2, <1>3

\* Init, and every step, keep the documents texts.
LEMMA TextInductive ==
  /\ Init => TextInv
  /\ TextInv /\ [Next]_vars => TextInv'
<1>1. ASSUME Init PROVE TextInv
  <2>1. IsText(doc)
    BY <1>1, DocsAssumption DEF Init
  <2>2. doc \in Seq(RealWords)
    BY <2>1, TextSeq
  <2>3. QED
    BY <1>1, <2>2 DEF Init, TextInv
<1>2. ASSUME TextInv, [Next]_vars PROVE TextInv'
  <2>1. ASSUME NEW k \in 1 .. MaxDocWords + 1, Write(k) PROVE TextInv'
    BY <1>2, <2>1, BoundAssumption DEF TextInv, Write
  <2>2. ASSUME NEW idx \in 1 .. MaxDocWords + 1, NEW new \in Inputs, Edit(idx, new) PROVE TextInv'
    <3>1. Copies \in Seq(RealWords) /\ idx \in Nat /\ sent \in Nat /\ sent > 0
      BY <1>2, <2>2, BoundAssumption DEF TextInv, Copies, Edit
    <3>2. new \in Seq(RealWords) /\ new # <<>>
      BY InputsAssumption, TextSeq
    <3>3. InsertOK(Copies, sent, idx)
      BY <2>2 DEF Edit
    <3>4. Insert(Copies, sent, idx, new) \in Seq(RealWords)
      BY <3>1, <3>2, <3>3, RealInsert
    <3>5. QED
      BY <1>2, <2>2, <3>4 DEF TextInv, Edit
  <2>3. CASE Etirw
    <3>1. CASE swap = NoCopy
      BY <1>2, <2>3, <3>1 DEF TextInv, Etirw
    <3>2. CASE swap # NoCopy
      <4>1. Merge(doc, swap, sent) \in Seq(RealWords)
        BY <1>2, <2>3, <3>2, RealMerge DEF TextInv, Etirw
      <4>2. QED
        BY <1>2, <2>3, <3>2, <4>1 DEF TextInv, Etirw
    <3>3. QED
      BY <3>1, <3>2
  <2>4. CASE UNCHANGED vars
    BY <1>2, <2>4 DEF TextInv, vars
  <2>5. QED
    BY <1>2, <2>1, <2>2, <2>3, <2>4 DEF Next
<1>3. QED
  BY <1>1, <1>2

\* No edit line and no commit leaves a blank word in the document or in the edited copy,
\* whatever the texts and however many sentences they have.
THEOREM NoBlank == Spec => []NoBlankWord
<1>1. TextInv => NoBlankWord
  <2>1. SUFFICES ASSUME TextInv PROVE NoBlankWord
    OBVIOUS
  <2>2. IsText(doc)
    BY <2>1, TextSeq DEF TextInv
  <2>3. swap # NoCopy => IsText(swap)
    BY <2>1, TextSeq DEF TextInv
  <2>4. QED
    BY <2>2, <2>3 DEF NoBlankWord, IsText
<1>2. QED
  BY <1>1, TextInductive, PTL DEF Spec

-----------------------------------------------------------------------------
(* The session: the sentence that is locked and the copy that is edited *)

\* The text d around sentence k: p before it, s the sentence, q after it; s and q are empty if
\* the sentence is to be added behind a complete text.
Frame(d, k, p, s, q) ==
  /\ p \in Seq(Words) /\ s \in Seq(Words) /\ q \in Seq(Words)
  /\ d = p \o (s \o q)
  /\ k = NumSentences(p) + 1 /\ Complete(p)
  /\ Single(s) \/ (s = <<>> /\ q = <<>>)
  /\ q # <<>> => Complete(s)

\* What stands in the place of s in an edited copy: it ends with a delimiter if s does or if
\* more sentences follow.
Held(s, q, x) ==
  /\ x \in Seq(Words)
  /\ x = <<>> => s = <<>> /\ q = <<>>
  /\ q # <<>> => Complete(x)
  /\ s # <<>> /\ Complete(s) => Complete(x)

\* The empty text.
LEMMA EmptyText ==
  /\ <<>> \in Seq(Words) /\ Len(<<>>) = 0 /\ NumSentences(<<>>) = 0 /\ Complete(<<>>)
<1>1. <<>> \in Seq(Words) /\ Len(<<>>) = 0
  BY EmptySeq
<1>2. Len(<<>>) <= MaxSentences
  BY <1>1, MaxSentencesAssumption
<1>3. NumSentences(<<>>) = 0
  BY <1>1, <1>2, NumZero
<1>4. QED
  BY <1>1, <1>3 DEF Complete

\* A sentence and the words before and after it are no longer than the text.
LEMMA CutLen ==
  ASSUME NEW w \in Seq(Words), Len(w) <= MaxSentences, NEW k \in 1 .. NumSentences(w)
  PROVE  /\ Len(Sentence(w, k)) \in Nat /\ Len(Rest(w, k)) \in Nat /\ Len(Before(w, k)) \in Nat
         /\ Len(w) = Len(Before(w, k)) + (Len(Sentence(w, k)) + Len(Rest(w, k)))
<1> DEFINE p == Before(w, k)
           s == Sentence(w, k)
           q == Rest(w, k)
<1>1. p \in Seq(Words) /\ s \in Seq(Words) /\ q \in Seq(Words) /\ w = p \o (s \o q)
  BY Cut, CutBefore
<1> HIDE DEF p, s, q
<1>2. s \o q \in Seq(Words) /\ Len(s \o q) = Len(s) + Len(q) /\ Len(s) \in Nat /\ Len(q) \in Nat
  BY <1>1, ConcatWords
<1>3. Len(p \o (s \o q)) = Len(p) + Len(s \o q) /\ Len(p) \in Nat
  BY <1>1, <1>2, ConcatWords
<1>4. QED
  BY <1>1, <1>2, <1>3 DEF p, s, q

\* The words of a text of three parts.
LEMMA ThreeParts ==
  ASSUME NEW p \in Seq(Words), NEW s \in Seq(Words), NEW q \in Seq(Words)
  PROVE  /\ p \o (s \o q) \in Seq(Words) /\ Len(p) \in Nat /\ Len(s) \in Nat /\ Len(q) \in Nat
         /\ Len(p \o (s \o q)) = Len(p) + (Len(s) + Len(q))
<1>1. s \o q \in Seq(Words) /\ Len(s \o q) = Len(s) + Len(q) /\ Len(s) \in Nat /\ Len(q) \in Nat
  BY ConcatWords
<1>2. p \o (s \o q) \in Seq(Words) /\ Len(p \o (s \o q)) = Len(p) + Len(s \o q) /\ Len(p) \in Nat
  BY <1>1, ConcatWords
<1>3. QED
  BY <1>1, <1>2

\* A sentence that WRITE accepts is a sentence of the text or the next one after a complete text.
LEMMA WriteFrame ==
  ASSUME NEW d \in Seq(Words), Len(d) <= MaxSentences, NEW k \in Nat, k > 0, k <= Available(d, d)
  PROVE  \E p, s, q : Frame(d, k, p, s, q)
<1> DEFINE n == NumSentences(d)
           stop == Sentences(d)[n].last
<1>1. n \in Nat
  BY NumType
<1>2. CASE d = <<>>
  <2>1. Available(d, d) = 1
    BY <1>2 DEF Available
  <2>2. k = 1
    BY <2>1
  <2>3. <<>> \o <<>> = <<>> /\ <<>> \o (<<>> \o <<>>) = <<>>
    BY EmptyText, ConcatEmptySeq
  <2>4. Frame(d, k, <<>>, <<>>, <<>>)
    BY <1>2, <2>2, <2>3, EmptyText DEF Frame
  <2>5. QED
    BY <2>4
<1>3. CASE d # <<>> /\ k \in 1 .. n
  <2> DEFINE p == Before(d, k)
             s == Sentence(d, k)
             q == Rest(d, k)
  <2>1. p \in Seq(Words) /\ NumSentences(p) = k - 1 /\ Complete(p)
    BY <1>3, CutBefore
  <2>2. s \in Seq(Words) /\ q \in Seq(Words) /\ d = p \o (s \o q) /\ Single(s) /\ (q # <<>> => Complete(s))
    BY <1>3, Cut
  <2> HIDE DEF p, s, q
  <2>3. k = NumSentences(p) + 1
    BY <2>1
  <2>4. Frame(d, k, p, s, q)
    BY <2>1, <2>2, <2>3 DEF Frame
  <2>5. QED
    BY <2>4
<1>4. CASE d # <<>> /\ ~(k \in 1 .. n)
  <2>1. n # 0
    BY <1>4, NumZero
  <2>2. Available(d, d) = IF stop < Len(d) \/ (stop = Len(d) /\ Ends(d[stop])) THEN n + 1 ELSE n
    BY <1>4, <2>1 DEF Available
  <2>3. stop = Len(d)
    <3>1. Parse(d, Sentences(d)) /\ Len(Sentences(d)) = n
      BY SentencesParse DEF NumSentences
    <3>2. n > 0
      BY <1>1, <2>1
    <3>3. QED
      BY <3>1, <3>2 DEF Parse
  <2> HIDE DEF stop
  <2>4. ~(stop < Len(d))
    <3>1. Len(d) \in Nat
      OBVIOUS
    <3>2. QED
      BY <2>3, <3>1
  <2>5. k > n
    BY <1>1, <1>4
  <2> HIDE DEF n
  <2>6. Ends(d[stop]) /\ k = n + 1
    <3>1. CASE Ends(d[stop])
      <4>1. Available(d, d) = n + 1
        BY <2>2, <2>3, <3>1
      <4>2. k <= n + 1
        BY <4>1
      <4>3. QED
        BY <1>1, <2>5, <3>1, <4>2
    <3>2. CASE ~Ends(d[stop])
      <4>1. Available(d, d) = n
        BY <2>2, <2>4, <3>2
      <4>2. k <= n
        BY <4>1
      <4>3. QED
        BY <1>1, <2>5, <4>2
    <3>3. QED
      BY <3>1, <3>2
  <2>7. Complete(d)
    BY <2>3, <2>6 DEF Complete, Final
  <2>8. d = d \o (<<>> \o <<>>)
    <3>1. <<>> \o <<>> = <<>>
      BY EmptyText, ConcatEmptySeq
    <3>2. d \o <<>> = d
      BY ConcatEmptySeq
    <3>3. QED
      BY <3>1, <3>2
  <2>9. Frame(d, k, d, <<>>, <<>>)
    BY <2>6, <2>7, <2>8, EmptyText DEF Frame, n
  <2>10. QED
    BY <2>9
<1>5. QED
  BY <1>2, <1>3, <1>4

\* The brackets of four parts.
Bracketed(p, e, v, q) == (p \o e) \o (v \o q) = p \o ((e \o v) \o q)

\* They do not matter.
LEMMA FourParts ==
  ASSUME NEW p \in Seq(Words), NEW e \in Seq(Words), NEW v \in Seq(Words), NEW q \in Seq(Words)
  PROVE  Bracketed(p, e, v, q)
<1>1. v \o q \in Seq(Words)
  BY ConcatWords
<1>2. (p \o e) \o (v \o q) = p \o (e \o (v \o q))
  BY <1>1, ConcatAssociative
<1>3. (e \o v) \o q = e \o (v \o q)
  BY ConcatAssociative
<1>4. QED
  BY <1>2, <1>3 DEF Bracketed

\* An edit line keeps the parts before and after the sentence.
LEMMA EditFrame ==
  ASSUME NEW d, NEW k \in Nat, k > 0, NEW p, NEW s, NEW q, Frame(d, k, p, s, q), NEW y, Held(s, q, y),
         NEW c \in Seq(RealWords), Joined(c, p, y, q),
         NEW idx \in Nat, InsertOK(c, k, idx), NEW new \in Seq(RealWords), new # <<>>,
         Len(c) + Len(new) <= MaxDocWords, MaxDocWords <= MaxSentences
  PROVE  \E x : /\ Held(s, q, x) /\ x # <<>>
                /\ Joined(Insert(c, k, idx, new), p, x, q)
                /\ Len(Insert(c, k, idx, new)) <= MaxDocWords
<1>0. p \in Seq(Words) /\ s \in Seq(Words) /\ q \in Seq(Words) /\ y \in Seq(Words) /\ new \in Seq(Words)
  BY RealIsWords DEF Frame, Held
<1>1. MaxSentences \in Nat /\ MaxDocWords \in Nat
  BY MaxSentencesAssumption, BoundAssumption
<1>2. Complete(p) /\ k = NumSentences(p) + 1
  BY DEF Frame
<1>3. Len(c) = Len(p) + (Len(y) + Len(q)) /\ Len(p) \in Nat /\ Len(y) \in Nat /\ Len(q) \in Nat
  BY <1>0, ThreeParts DEF Joined
<1>4. Len(new) \in Nat /\ Len(c) \in Nat
  BY <1>0, <1>3
<1>5. CASE y = <<>>
  <2>1. s = <<>> /\ q = <<>>
    BY <1>5 DEF Held
  <2>2. c = p
    <3>1. <<>> \o <<>> = <<>>
      BY EmptyText, ConcatEmptySeq
    <3>2. p \o <<>> = p
      BY <1>0, ConcatEmptySeq
    <3>3. QED
      BY <1>5, <2>1, <3>1, <3>2 DEF Joined
  <2>3. NumSentences(p) \in Nat
    BY <1>0, NumType
  <2>4. k > NumSentences(c)
    BY <1>2, <2>2, <2>3
  <2>5. Insert(c, k, idx, new) = p \o new
    BY <2>2, <2>4 DEF Insert
  <2>6. new \o q = new
    BY <1>0, <2>1, ConcatEmptySeq
  <2>7. Len(p \o new) = Len(p) + Len(new)
    BY <1>0, ConcatWords
  <2>8. Held(s, q, new)
    BY <1>0, <2>1 DEF Held
  <2>9. QED
    BY <2>2, <2>5, <2>6, <2>7, <2>8 DEF Joined
<1>6. CASE y # <<>>
  <2>1. q # <<>> => Complete(y)
    BY DEF Held
  <2>2. Len(p) + (Len(y) + Len(q)) <= MaxSentences
    BY <1>1, <1>3, <1>4
  <2>3. /\ k \in 1 .. NumSentences(c) /\ Sentence(c, k) = Sentence(y, 1) /\ Before(c, k) = p
        /\ Rest(c, k) = Rest(y, 1) \o q /\ NumSentences(y) \in Nat /\ NumSentences(y) > 0
    <3>1. Divided(c, k, p, y, q)
      BY <1>0, <1>2, <1>6, <2>1, <2>2, Middle
    <3>2. QED
      BY <3>1 DEF Divided
  <2>4. 1 \in 1 .. NumSentences(y) /\ Len(y) <= MaxSentences
    BY <1>1, <1>3, <2>2, <2>3
  <2> DEFINE u == Sentence(y, 1)
             v == Rest(y, 1)
  <2>5. /\ u \in Seq(Words) /\ v \in Seq(Words) /\ y = Before(y, 1) \o (u \o v) /\ (v # <<>> => Complete(u))
        /\ Single(u)
    BY <1>0, <2>4, Cut
  <2>6. y = u \o v
    <3>1. Before(y, 1) \in Seq(Words) /\ NumSentences(Before(y, 1)) = 1 - 1 /\ Len(Before(y, 1)) \in Nat
          /\ Len(Before(y, 1)) <= Len(y)
      <4>1. Len(Before(y, 1)) \in Nat /\ Len(y) = Len(Before(y, 1)) + (Len(u) + Len(v)) /\ Len(u) \in Nat /\ Len(v) \in Nat
        BY <1>0, <2>4, CutLen
      <4>2. Before(y, 1) \in Seq(Words) /\ NumSentences(Before(y, 1)) = 1 - 1
        BY <1>0, <2>4, CutBefore
      <4>3. \A i, j, m \in Nat : i <= i + (j + m)
        OBVIOUS
      <4>4. QED
        BY <4>1, <4>2, <4>3
    <3>2. Len(Before(y, 1)) <= MaxSentences
      BY <1>1, <1>3, <2>4, <3>1
    <3>3. Before(y, 1) = <<>>
      BY <3>1, <3>2, NumZero
    <3>4. u \o v \in Seq(Words)
      BY <2>5, ConcatWords
    <3>5. <<>> \o (u \o v) = u \o v
      BY <3>4, ConcatEmptySeq
    <3>6. QED
      BY <2>5, <3>3, <3>5
  <2>7. PICK e : EditOf(c, k, new, e) /\ Insert(c, k, idx, new) = (Before(c, k) \o e) \o Rest(c, k)
    BY <2>3, InsertParts
  <2>8. e \in Seq(Words) /\ e # <<>> /\ Len(e) <= Len(u) + Len(new) /\ Len(e) \in Nat
    <3>1. e \in Seq(RealWords) /\ e # <<>> /\ Len(e) <= Len(u) + Len(new)
      BY <2>3, <2>7 DEF EditOf
    <3>2. QED
      BY <3>1, RealIsWords
  <2>9. Ends(Final(u)) => Ends(Final(e))
    <3>1. Final(u) = c[Sentences(c)[k].last]
      BY <2>3, RealSentence
    <3>2. QED
      BY <2>7, <3>1 DEF EditOf
  <2>10. u # <<>>
    BY <2>5 DEF Single
  <2> HIDE DEF u, v
  <2> DEFINE x == e \o v
  <2>11. x \in Seq(Words) /\ Len(x) = Len(e) + Len(v) /\ Len(v) \in Nat
    BY <2>5, <2>8, ConcatWords
  <2>12. x # <<>>
    BY <2>5, <2>8, ConcatEqualIffEmpty
  <2>13. Insert(c, k, idx, new) = p \o (x \o q)
    <3>1. Rest(c, k) = v \o q
      BY <2>3 DEF v
    <3>2. v \in Seq(Words) /\ e \in Seq(Words)
      BY <2>5, <2>8
    <3>3. (p \o e) \o (v \o q) = p \o ((e \o v) \o q)
      <4>1. Bracketed(p, e, v, q)
        BY <1>0, <3>2, FourParts
      <4>2. QED
        BY <4>1 DEF Bracketed
    <3>4. Insert(c, k, idx, new) = (p \o e) \o (v \o q)
      BY <2>3, <2>7, <3>1
    <3>5. QED
      BY <3>3, <3>4
  <2>14. Complete(y) => Complete(x)
    <3>1. CASE v = <<>>
      <4>1. x = e /\ y = u
        BY <2>5, <2>6, <2>8, <3>1, ConcatEmptySeq
      <4>2. QED
        BY <2>9, <2>10, <4>1 DEF Complete
    <3>2. CASE v # <<>>
      <4>1. Len(v) \in Nat /\ Len(v) > 0
        BY <2>5, <3>2, EmptySeq
      <4>2. Len(v) \in 1 .. Len(v)
        BY <4>1
      <4>3. Final(x) = v[Len(v)]
        BY <2>5, <2>8, <2>11, <4>2, ConcatWords DEF Final
      <4>4. Final(y) = v[Len(v)]
        <5>1. Len(u \o v) = Len(u) + Len(v) /\ (u \o v)[Len(u) + Len(v)] = v[Len(v)]
          BY <2>5, <4>2, ConcatWords
        <5>2. QED
          BY <2>6, <5>1 DEF Final
      <4>5. QED
        BY <1>6, <4>3, <4>4 DEF Complete
    <3>3. QED
      BY <3>1, <3>2
  <2>15. Len(y) = Len(u) + Len(v) /\ Len(u) \in Nat
    BY <2>5, <2>6, ConcatWords
  <2> HIDE DEF x
  <2>16. Held(s, q, x)
    BY <2>11, <2>12, <2>14 DEF Held
  <2>17. Len(p \o (x \o q)) = Len(p) + (Len(x) + Len(q))
    BY <1>0, <2>11, ThreeParts
  <2>18. Len(p) + (Len(x) + Len(q)) <= MaxDocWords
    BY <1>1, <1>3, <1>4, <2>8, <2>11, <2>15
  <2>19. QED
    BY <2>12, <2>13, <2>16, <2>17, <2>18 DEF Joined
<1>7. QED
  BY <1>5, <1>6

-----------------------------------------------------------------------------
(* The commit *)

\* The sentences of a document around the locked one.
LEMMA FrameSentences ==
  ASSUME NEW d, NEW k, NEW p, NEW s, NEW q, Frame(d, k, p, s, q), Len(d) <= MaxSentences
  PROVE  /\ d \in Seq(Words) /\ Len(d) = Len(p) + (Len(s) + Len(q))
         /\ s = <<>> => d = p /\ q = <<>> /\ k = NumSentences(d) + 1
         /\ s # <<>> => Divided(d, k, p, s, q) /\ NumSentences(s) = 1 /\ Rest(d, k) = q
<1>0. p \in Seq(Words) /\ s \in Seq(Words) /\ q \in Seq(Words) /\ Complete(p) /\ k = NumSentences(p) + 1
      /\ (q # <<>> => Complete(s))
  BY DEF Frame
<1>1. Joined(d, p, s, q)
  BY DEF Frame, Joined
<1>2. /\ d \in Seq(Words) /\ Len(d) = Len(p) + (Len(s) + Len(q))
      /\ Len(p) \in Nat /\ Len(s) \in Nat /\ Len(q) \in Nat
  BY <1>0, <1>1, ThreeParts DEF Joined
<1>3. ASSUME s = <<>> PROVE d = p /\ q = <<>> /\ k = NumSentences(d) + 1
  <2>1. ~Single(s)
    BY <1>3 DEF Single
  <2>2. q = <<>>
    BY <2>1 DEF Frame
  <2>3. <<>> \o <<>> = <<>>
    BY EmptyText, ConcatEmptySeq
  <2>4. p \o <<>> = p
    BY <1>0, ConcatEmptySeq
  <2>5. d = p
    BY <1>1, <1>3, <2>2, <2>3, <2>4 DEF Joined
  <2>6. QED
    BY <1>0, <2>2, <2>5
<1>4. ASSUME s # <<>> PROVE Divided(d, k, p, s, q) /\ NumSentences(s) = 1 /\ Rest(d, k) = q
  <2>1. Single(s)
    BY <1>4 DEF Frame
  <2>2. MaxSentences \in Nat /\ Len(s) <= MaxSentences /\ Len(p) + (Len(s) + Len(q)) <= MaxSentences
    BY <1>2, MaxSentencesAssumption
  <2>3. NumSentences(s) = 1 /\ Sentences(s)[1] = [first |-> 1, last |-> Len(s)]
    BY <1>0, <2>1, <2>2, SingleSentence
  <2>4. Divided(d, k, p, s, q)
    BY <1>0, <1>1, <1>4, <2>2, Middle
  <2>5. Sentences(s)[1].last = Len(s)
    BY <2>3
  <2>6. Rest(s, 1) = SubSeq(s, Len(s) + 1, Len(s))
    BY <2>5 DEF Rest
  <2>7. Len(s) + 1 \in Int /\ Len(s) \in Int /\ Len(s) < Len(s) + 1
    BY <1>2
  <2>8. Rest(s, 1) = <<>>
    BY <2>6, <2>7, SubSeqEmpty
  <2>9. Rest(d, k) = Rest(s, 1) \o q
    BY <2>4 DEF Divided
  <2>10. <<>> \o q = q
    BY <1>0, ConcatEmptySeq
  <2>11. QED
    BY <2>3, <2>4, <2>8, <2>9, <2>10
<1>5. QED
  BY <1>2, <1>3, <1>4

\* What a commit puts in the place of the locked sentence: what was typed there, or one
\* sentence of it.
Committed(m, p, s, q, x, y) ==
  /\ Joined(m, p, y, q)
  /\ y \in Seq(Words) /\ y # <<>> /\ Len(y) <= Len(x)
  /\ q # <<>> => Complete(y)
  /\ s # <<>> => NumSentences(y) = 1
  /\ NumSentences(x) = 1 => y = x

\* Three parts, put together from the left.
LEMMA JoinedLeft ==
  ASSUME NEW p \in Seq(Words), NEW y \in Seq(Words), NEW q \in Seq(Words), NEW m, m = (p \o y) \o q
  PROVE  Joined(m, p, y, q)
<1>1. (p \o y) \o q = p \o (y \o q)
  BY ConcatAssociative
<1>2. QED
  BY <1>1 DEF Joined

\* ETIRW replaces the locked sentence and nothing else.
LEMMA MergeFrame ==
  ASSUME NEW d, NEW k \in Nat, NEW p, NEW s, NEW q, Frame(d, k, p, s, q), Len(d) <= MaxSentences,
         NEW c, NEW x, Held(s, q, x), x # <<>>, Joined(c, p, x, q), Len(c) <= MaxSentences
  PROVE  \E y : Committed(Merge(d, c, k), p, s, q, x, y)
<1>0. p \in Seq(Words) /\ s \in Seq(Words) /\ q \in Seq(Words) /\ x \in Seq(Words) /\ Complete(p)
      /\ k = NumSentences(p) + 1 /\ (q # <<>> => Complete(x))
  BY DEF Frame, Held
<1>1. /\ c \in Seq(Words) /\ Len(c) = Len(p) + (Len(x) + Len(q))
      /\ Len(p) \in Nat /\ Len(x) \in Nat /\ Len(q) \in Nat /\ MaxSentences \in Nat
  BY <1>0, ThreeParts, MaxSentencesAssumption DEF Joined
<1>2. /\ d \in Seq(Words)
      /\ s = <<>> => d = p /\ q = <<>> /\ k = NumSentences(d) + 1
      /\ s # <<>> => Divided(d, k, p, s, q) /\ NumSentences(s) = 1 /\ Rest(d, k) = q
  BY FrameSentences
<1>3. Len(x) <= MaxSentences /\ Len(p) + (Len(x) + Len(q)) <= MaxSentences
  BY <1>1
<1>4. Divided(c, k, p, x, q)
  BY <1>0, <1>3, Middle
<1>5. NumSentences(x) \in Nat /\ NumSentences(x) > 0 /\ NumSentences(p) \in Nat /\ NumSentences(q) \in Nat
      /\ NumSentences(c) = NumSentences(p) + (NumSentences(x) + NumSentences(q))
  BY <1>4 DEF Divided
<1>6. NumSentences(d) = 0 <=> d = <<>>
  BY <1>2, NumZero
<1>7. ASSUME NEW j \in 1 .. NumSentences(x)
      PROVE  /\ Sentence(x, j) \in Seq(Words) /\ Sentence(x, j) # <<>> /\ Single(Sentence(x, j))
             /\ Len(Sentence(x, j)) \in Nat /\ Len(Sentence(x, j)) <= Len(x)
  <2>1. Sentence(x, j) \in Seq(Words) /\ Single(Sentence(x, j))
    BY <1>0, <1>3, Cut
  <2>2. /\ Len(Sentence(x, j)) \in Nat /\ Len(Rest(x, j)) \in Nat /\ Len(Before(x, j)) \in Nat
        /\ Len(x) = Len(Before(x, j)) + (Len(Sentence(x, j)) + Len(Rest(x, j)))
    BY <1>0, <1>3, CutLen
  <2>3. Len(Sentence(x, j)) <= Len(x)
    BY <2>2
  <2>4. QED
    BY <2>1, <2>2, <2>3 DEF Single
<1>8. NumSentences(x) = 1 => Sentence(x, 1) = x
  BY <1>0, <1>3, OneSentence
<1>9. CASE s = <<>> /\ d = <<>>
  <2>1. NumSentences(d) = 0
    BY <1>6, <1>9
  <2>2. Merge(d, c, k) = c
    BY <2>1 DEF Merge
  <2>3. Committed(c, p, s, q, x, x)
    BY <1>0, <1>1, <1>9 DEF Committed
  <2>4. QED
    BY <2>2, <2>3
<1>10. CASE s = <<>> /\ d # <<>>
  <2> DEFINE n == NumSentences(d)
             m == NumSentences(c)
             j == NumSentences(x)
             y == Sentence(x, j)
  <2>1. d = p /\ q = <<>> /\ k = n + 1 /\ n # 0 /\ n \in Nat
    BY <1>2, <1>5, <1>6, <1>10
  <2>2. NumSentences(q) = 0
    BY <2>1, EmptyText
  <2>3. m = NumSentences(p) + j /\ m > 0 /\ j \in 1 .. j
    BY <1>5, <2>2
  <2>4. Sentence(c, NumSentences(p) + j) = Sentence(x, j)
    BY <1>4, <2>3 DEF Divided
  <2>5. Sentence(c, m) = y
    BY <2>3, <2>4
  <2>6. k > n
    BY <2>1
  <2>7. Merge(d, c, k) = IF n = 0 THEN c ELSE IF k > n THEN IF m > 0 THEN d \o Sentence(c, m) ELSE d
                         ELSE (Before(d, k) \o (IF k <= m THEN Sentence(c, k) ELSE <<>>))
                                \o SubSeq(d, Sentences(d)[k].last + 1, Sentences(d)[n].last)
    BY DEF Merge
  <2>8. Merge(d, c, k) = p \o y
    BY <2>1, <2>3, <2>5, <2>6, <2>7
  <2>9. y \in Seq(Words) /\ y # <<>> /\ Len(y) <= Len(x)
    BY <1>7, <2>3
  <2>10. j = 1 => y = x
    BY <1>8
  <2> HIDE DEF y
  <2>11. y \o q = y
    BY <2>1, <2>9, ConcatEmptySeq
  <2>12. Joined(p \o y, p, y, q)
    BY <2>11 DEF Joined
  <2>13. Committed(p \o y, p, s, q, x, y)
    BY <1>10, <2>1, <2>9, <2>10, <2>12 DEF Committed
  <2>14. QED
    BY <2>8, <2>13
<1>11. CASE s # <<>>
  <2> DEFINE n == NumSentences(d)
             m == NumSentences(c)
             y == Sentence(x, 1)
  <2>1. /\ Divided(d, k, p, s, q) /\ Rest(d, k) = q
    BY <1>2, <1>11
  <2>2. k \in 1 .. n /\ Before(d, k) = p /\ n \in Nat
    <3>1. k \in 1 .. n /\ Before(d, k) = p
      BY <2>1 DEF Divided
    <3>2. QED
      BY <1>2, <3>1, NumType
  <2>3. k \in 1 .. m /\ Sentence(c, k) = y /\ m \in Nat
    <3>1. k \in 1 .. m /\ Sentence(c, k) = y
      BY <1>4 DEF Divided
    <3>2. QED
      BY <1>1, <3>1, NumType
  <2>4. n # 0 /\ ~(k > n) /\ k <= m
    BY <2>2, <2>3
  <2>5. Sentences(d)[n].last = Len(d)
    <3>1. Parse(d, Sentences(d)) /\ Len(Sentences(d)) = n
      BY <1>2, SentencesParse DEF NumSentences
    <3>2. n > 0
      BY <2>2, <2>4
    <3>3. QED
      BY <3>1, <3>2 DEF Parse
  <2>6. SubSeq(d, Sentences(d)[k].last + 1, Sentences(d)[n].last) = q
    BY <2>1, <2>5 DEF Rest
  <2>7. Merge(d, c, k) = IF n = 0 THEN c ELSE IF k > n THEN IF m > 0 THEN d \o Sentence(c, m) ELSE d
                         ELSE (Before(d, k) \o (IF k <= m THEN Sentence(c, k) ELSE <<>>))
                                \o SubSeq(d, Sentences(d)[k].last + 1, Sentences(d)[n].last)
    BY DEF Merge
  <2>8. Merge(d, c, k) = (p \o y) \o q
    BY <2>2, <2>3, <2>4, <2>6, <2>7
  <2>9. 1 \in 1 .. NumSentences(x)
    BY <1>5
  <2>10. y \in Seq(Words) /\ y # <<>> /\ Len(y) <= Len(x) /\ Single(y) /\ Len(y) \in Nat
    BY <1>7, <2>9
  <2>11. NumSentences(y) = 1
    <3>1. Len(y) <= MaxSentences
      BY <1>1, <1>3, <2>10
    <3>2. QED
      BY <2>10, <3>1, SingleSentence
  <2>12. q # <<>> => Complete(y)
    <3>1. SUFFICES ASSUME q # <<>> PROVE Complete(y)
      OBVIOUS
    <3>2. CASE Rest(x, 1) # <<>>
      BY <1>0, <1>3, <2>9, <3>2, Cut
    <3>3. CASE Rest(x, 1) = <<>>
      <4>1. /\ Rest(x, 1) \in Seq(Words) /\ x = Before(x, 1) \o (y \o Rest(x, 1))
        BY <1>0, <1>3, <2>9, Cut
      <4>2. Before(x, 1) \in Seq(Words) /\ NumSentences(Before(x, 1)) = 1 - 1
        BY <1>0, <1>3, <2>9, CutBefore
      <4>3. Len(Before(x, 1)) <= MaxSentences
        <5>1. /\ Len(y) \in Nat /\ Len(Rest(x, 1)) \in Nat /\ Len(Before(x, 1)) \in Nat
              /\ Len(x) = Len(Before(x, 1)) + (Len(y) + Len(Rest(x, 1)))
          BY <1>0, <1>3, <2>9, CutLen
        <5>2. QED
          BY <1>1, <1>3, <5>1
      <4>4. Before(x, 1) = <<>>
        BY <4>2, <4>3, NumZero
      <4>5. y \o <<>> = y /\ <<>> \o y = y
        BY <2>10, ConcatEmptySeq
      <4>6. x = y
        BY <3>3, <4>1, <4>4, <4>5
      <4>7. QED
        BY <1>0, <3>1, <4>6
    <3>4. QED
      BY <3>2, <3>3
  <2>13. NumSentences(x) = 1 => y = x
    BY <1>8
  <2> HIDE DEF y
  <2>14. y \in Seq(Words)
    BY <2>10
  <2>15. Joined(Merge(d, c, k), p, y, q)
    BY <1>0, <2>8, <2>14, JoinedLeft
  <2>16. Committed(Merge(d, c, k), p, s, q, x, y)
    BY <2>10, <2>11, <2>12, <2>13, <2>15 DEF Committed
  <2>17. QED
    BY <2>16
<1>12. QED
  BY <1>9, <1>10, <1>11

\* What CommitTouchesOnlyTarget says of a commit l and the document d it left.
Touches(l, d) ==
  \A k \in 1 .. NumSentences(l.from) :
    k # l.sent => k <= NumSentences(d) /\ Sentence(d, k) = Sentence(l.from, k)

\* What CommitKeepsUnsplitEdits says of it.
Keeps(l, d) == NumSentences(l.copy) = Expected(l.from, l.sent) => d = l.copy

\* A commit keeps its promises and the bound on the document.
LEMMA CommitFrame ==
  ASSUME NEW d, NEW k \in Nat, NEW p, NEW s, NEW q, Frame(d, k, p, s, q), Len(d) <= MaxSentences,
         NEW c, NEW x, Held(s, q, x), x # <<>>, Joined(c, p, x, q), Len(c) <= MaxSentences,
         NEW l, l.sent = k, l.from = d, l.copy = c, NEW m, m = Merge(d, c, k)
  PROVE  Touches(l, m) /\ Keeps(l, m) /\ Len(m) <= Len(c)
<1>0. p \in Seq(Words) /\ s \in Seq(Words) /\ q \in Seq(Words) /\ x \in Seq(Words) /\ Complete(p)
      /\ k = NumSentences(p) + 1 /\ (q # <<>> => Complete(x))
  BY DEF Frame, Held
<1>1. PICK y : Committed(m, p, s, q, x, y)
  BY MergeFrame
<1>2. /\ Joined(m, p, y, q) /\ y \in Seq(Words) /\ y # <<>> /\ Len(y) <= Len(x) /\ (q # <<>> => Complete(y))
      /\ (s # <<>> => NumSentences(y) = 1) /\ (NumSentences(x) = 1 => y = x)
  BY <1>1 DEF Committed
<1>3. /\ Len(c) = Len(p) + (Len(x) + Len(q))
      /\ Len(p) \in Nat /\ Len(x) \in Nat /\ Len(q) \in Nat /\ MaxSentences \in Nat
  BY <1>0, ThreeParts, MaxSentencesAssumption DEF Joined
<1>4. Len(m) = Len(p) + (Len(y) + Len(q)) /\ Len(y) \in Nat
  BY <1>0, <1>2, ThreeParts DEF Joined
<1>5. Len(m) <= Len(c)
  BY <1>2, <1>3, <1>4
<1>6. Len(p) + (Len(x) + Len(q)) <= MaxSentences /\ Len(p) + (Len(y) + Len(q)) <= MaxSentences
  BY <1>2, <1>3, <1>4
<1>7. Divided(c, k, p, x, q)
  BY <1>0, <1>6, Middle
<1>8. Divided(m, k, p, y, q)
  <2>1. y \in Seq(Words) /\ y # <<>> /\ (q # <<>> => Complete(y)) /\ Joined(m, p, y, q)
    BY <1>2
  <2>2. QED
    BY <1>0, <1>6, <2>1, Middle
<1>9. /\ d \in Seq(Words)
      /\ s = <<>> => d = p /\ q = <<>> /\ k = NumSentences(d) + 1
      /\ s # <<>> => Divided(d, k, p, s, q) /\ NumSentences(s) = 1
  BY FrameSentences
<1>10. /\ NumSentences(p) \in Nat /\ NumSentences(x) \in Nat /\ NumSentences(q) \in Nat
       /\ NumSentences(c) = NumSentences(p) + (NumSentences(x) + NumSentences(q))
  BY <1>7 DEF Divided
<1>11. /\ NumSentences(y) \in Nat /\ NumSentences(y) > 0
       /\ NumSentences(m) = NumSentences(p) + (NumSentences(y) + NumSentences(q))
       /\ \A j \in 1 .. NumSentences(p) : Sentence(m, j) = Sentence(p, j)
       /\ \A j \in 1 .. NumSentences(q) : Sentence(m, NumSentences(p) + (NumSentences(y) + j)) = Sentence(q, j)
  BY <1>8 DEF Divided
<1>12. CASE s = <<>>
  <2>1. d = p /\ q = <<>> /\ NumSentences(q) = 0
    BY <1>9, <1>12, EmptyText
  <2>2. Touches(l, m)
    <3>1. \A j \in 1 .. NumSentences(p) : j <= NumSentences(m)
      BY <1>10, <1>11
    <3>2. QED
      BY <1>11, <2>1, <3>1 DEF Touches
  <2>3. Keeps(l, m)
    <3>1. SUFFICES ASSUME NumSentences(c) = Expected(d, k) PROVE m = c
      BY DEF Keeps
    <3>2. k > NumSentences(d)
      BY <1>0, <1>10, <2>1
    <3>3. Expected(d, k) = NumSentences(p) + 1
      BY <2>1, <3>2 DEF Expected
    <3>4. NumSentences(x) = 1
      BY <1>10, <2>1, <3>1, <3>3
    <3>5. y = x
      BY <1>2, <3>4
    <3>6. QED
      BY <1>2, <3>5 DEF Joined
  <2>4. QED
    BY <1>5, <2>2, <2>3
<1>13. CASE s # <<>>
  <2>1. Divided(d, k, p, s, q) /\ NumSentences(s) = 1 /\ NumSentences(y) = 1
    BY <1>2, <1>9, <1>13
  <2>2. /\ NumSentences(d) = NumSentences(p) + (1 + NumSentences(q))
        /\ \A j \in 1 .. NumSentences(p) : Sentence(d, j) = Sentence(p, j)
        /\ \A j \in 1 .. NumSentences(q) : Sentence(d, NumSentences(p) + (1 + j)) = Sentence(q, j)
    BY <2>1 DEF Divided
  <2>3. NumSentences(m) = NumSentences(d)
    BY <1>11, <2>1, <2>2
  <2>4. ASSUME NEW j \in 1 .. NumSentences(d), j # k
        PROVE  j <= NumSentences(m) /\ Sentence(m, j) = Sentence(d, j)
    <3>1. j <= NumSentences(m)
      BY <1>10, <2>2, <2>3
    <3>2. CASE j < k
      <4>1. j \in 1 .. NumSentences(p)
        BY <1>0, <1>10, <2>2, <3>2
      <4>2. QED
        BY <1>11, <2>2, <3>1, <4>1
    <3>3. CASE j > k
      <4>1. j - k \in 1 .. NumSentences(q) /\ j = NumSentences(p) + (1 + (j - k))
        <5>1. \A a, b, i \in Nat : i > a + 1 /\ i <= a + (1 + b) =>
                i - (a + 1) \in 1 .. b /\ i = a + (1 + (i - (a + 1)))
          OBVIOUS
        <5>2. j \in Nat /\ j <= NumSentences(p) + (1 + NumSentences(q)) /\ j > NumSentences(p) + 1
          BY <1>0, <1>10, <2>2, <3>3
        <5>3. QED
          BY <1>0, <1>10, <5>1, <5>2, Zenon
      <4>2. Sentence(d, j) = Sentence(q, j - k)
        BY <2>2, <4>1
      <4>3. Sentence(m, j) = Sentence(q, j - k)
        BY <1>11, <2>1, <4>1
      <4>4. QED
        BY <3>1, <4>2, <4>3
    <3>4. j < k \/ j > k
      BY <1>0, <1>10, <2>2, <2>4
    <3>5. QED
      BY <3>2, <3>3, <3>4
  <2>5. Touches(l, m)
    BY <2>4 DEF Touches
  <2>6. Keeps(l, m)
    <3>1. SUFFICES ASSUME NumSentences(c) = Expected(d, k) PROVE m = c
      BY DEF Keeps
    <3>2. ~(k > NumSentences(d))
      BY <1>0, <1>10, <2>2
    <3>3. Expected(d, k) = NumSentences(d)
      BY <3>2 DEF Expected
    <3>4. NumSentences(x) = 1
      BY <1>10, <2>2, <3>1, <3>3
    <3>5. y = x
      BY <1>2, <3>4
    <3>6. QED
      BY <1>2, <3>5 DEF Joined
  <2>7. QED
    BY <1>5, <2>5, <2>6
<1>14. QED
  BY <1>12, <1>13

\* The inductive invariant of the session: the edited copy differs from the document in one
\* place, the locked sentence.
SessionInv ==
  /\ TextInv
  /\ Len(doc) <= MaxDocWords
  /\ sent = 0 => swap = NoCopy
  /\ sent > 0 => \E p, s, q : /\ Frame(doc, sent, p, s, q)
                              /\ swap # NoCopy => /\ Len(swap) <= MaxDocWords
                                                  /\ \E x : Held(s, q, x) /\ x # <<>> /\ Joined(swap, p, x, q)
  /\ last # NoCopy => Touches(last, doc) /\ Keeps(last, doc)

\* What stands at the place of the locked sentence before the first edit line is the sentence.
LEMMA HeldFirst ==
  ASSUME NEW d, NEW k, NEW p, NEW s, NEW q, Frame(d, k, p, s, q)
  PROVE  Held(s, q, s) /\ Joined(d, p, s, q)
<1>1. s = <<>> => q = <<>>
  BY DEF Frame, Single
<1>2. QED
  BY <1>1 DEF Frame, Held, Joined

\* WRITE starts a session at a sentence of the document.
LEMMA SessionWrite ==
  ASSUME MaxDocWords <= MaxSentences, SessionInv, NEW k \in 1 .. MaxDocWords + 1, Write(k), TextInv'
  PROVE  SessionInv'
<1>1. doc \in Seq(Words) /\ Len(doc) \in Nat /\ Len(doc) <= MaxDocWords /\ swap = NoCopy /\ sent = 0
  BY RealIsWords DEF SessionInv, TextInv, Write
<1>2. Len(doc) <= MaxSentences /\ k \in Nat /\ k > 0
  BY <1>1, MaxSentencesAssumption, BoundAssumption
<1>3. PICK p, s, q : Frame(doc, k, p, s, q)
  BY <1>1, <1>2, WriteFrame DEF Write
<1>4. doc' = doc /\ sent' = k /\ swap' = NoCopy /\ last' = NoCopy
  BY <1>1 DEF Write
<1>5. Frame(doc', sent', p, s, q)
  BY <1>3, <1>4
<1>6. QED
  BY <1>1, <1>2, <1>4, <1>5 DEF SessionInv

\* An edit line changes the place of the locked sentence.
LEMMA SessionEdit ==
  ASSUME MaxDocWords <= MaxSentences, SessionInv, NEW idx \in 1 .. MaxDocWords + 1, NEW new \in Inputs,
         Edit(idx, new), TextInv'
  PROVE  SessionInv'
<1>1. sent \in Nat /\ sent > 0 /\ idx \in Nat /\ doc' = doc /\ sent' = sent /\ last' = last
      /\ Copies \in Seq(RealWords)
  BY BoundAssumption DEF SessionInv, TextInv, Edit, Copies
<1>2. new \in Seq(RealWords) /\ new # <<>>
  BY InputsAssumption, TextSeq
<1>3. PICK p, s, q : /\ Frame(doc, sent, p, s, q)
                     /\ swap # NoCopy => /\ Len(swap) <= MaxDocWords
                                         /\ \E x : Held(s, q, x) /\ x # <<>> /\ Joined(swap, p, x, q)
  BY <1>1 DEF SessionInv
<1>4. PICK y : Held(s, q, y) /\ Joined(Copies, p, y, q)
  <2>1. CASE swap = NoCopy
    BY <1>3, <2>1, HeldFirst DEF Copies
  <2>2. CASE swap # NoCopy
    BY <1>3, <2>2 DEF Copies
  <2>3. QED
    BY <2>1, <2>2
<1>5. InsertOK(Copies, sent, idx) /\ Len(Copies) + Len(new) <= MaxDocWords /\ swap' = Insert(Copies, sent, idx, new)
  BY DEF Edit
<1>6. PICK x : /\ Held(s, q, x) /\ x # <<>> /\ Joined(swap', p, x, q) /\ Len(swap') <= MaxDocWords
  <2>1. \E x : /\ Held(s, q, x) /\ x # <<>>
               /\ Joined(Insert(Copies, sent, idx, new), p, x, q)
               /\ Len(Insert(Copies, sent, idx, new)) <= MaxDocWords
    BY <1>1, <1>2, <1>3, <1>4, <1>5, EditFrame
  <2>2. QED
    BY <1>5, <2>1
<1>7. Frame(doc', sent', p, s, q)
  BY <1>1, <1>3
<1>8. sent' > 0 /\ sent' # 0
  BY <1>1
<1>9. \E p1, s1, q1 : /\ Frame(doc', sent', p1, s1, q1)
                      /\ swap' # NoCopy => /\ Len(swap') <= MaxDocWords
                                           /\ \E x1 : Held(s1, q1, x1) /\ x1 # <<>> /\ Joined(swap', p1, x1, q1)
  BY <1>6, <1>7
<1>10. Len(doc') <= MaxDocWords /\ (last' # NoCopy => Touches(last', doc') /\ Keeps(last', doc'))
  BY <1>1 DEF SessionInv
<1>11. QED
  BY <1>8, <1>9, <1>10 DEF SessionInv

\* ETIRW replaces the sentence.
LEMMA SessionEtirw ==
  ASSUME MaxDocWords <= MaxSentences, SessionInv, Etirw, TextInv'
  PROVE  SessionInv'
<1>1. sent \in Nat /\ sent > 0 /\ sent' = 0 /\ swap' = NoCopy /\ ~(sent' > 0)
  BY DEF SessionInv, TextInv, Etirw
<1>2. CASE swap = NoCopy
  <2>1. doc' = doc /\ last' = last
    BY <1>2 DEF Etirw
  <2>2. QED
    BY <1>1, <2>1 DEF SessionInv
<1>3. CASE swap # NoCopy
  <2>1. PICK p, s, q : /\ Frame(doc, sent, p, s, q)
                       /\ Len(swap) <= MaxDocWords
                       /\ \E x : Held(s, q, x) /\ x # <<>> /\ Joined(swap, p, x, q)
    BY <1>1, <1>3 DEF SessionInv
  <2>2. PICK x : Held(s, q, x) /\ x # <<>> /\ Joined(swap, p, x, q)
    BY <2>1
  <2>3. /\ Len(doc) \in Nat /\ Len(swap) \in Nat /\ Len(doc) <= MaxSentences /\ Len(swap) <= MaxSentences
    <3>1. doc \in Seq(RealWords) /\ swap \in Seq(RealWords) /\ Len(doc) <= MaxDocWords
      BY <1>3 DEF SessionInv, TextInv
    <3>2. Len(doc) \in Nat /\ Len(swap) \in Nat
      BY <3>1, RealIsWords
    <3>3. QED
      BY <2>1, <3>1, <3>2, MaxSentencesAssumption, BoundAssumption
  <2>4. doc' = Merge(doc, swap, sent) /\ last' = [sent |-> sent, from |-> doc, copy |-> swap]
    BY <1>3 DEF Etirw
  <2>5. last'.sent = sent /\ last'.from = doc /\ last'.copy = swap
    BY <2>4
  <2>6. Touches(last', doc') /\ Keeps(last', doc') /\ Len(doc') <= Len(swap)
    BY <1>1, <2>1, <2>2, <2>3, <2>4, <2>5, CommitFrame
  <2>7. Len(doc') <= MaxDocWords
    <3>1. Len(doc') \in Nat
      BY RealIsWords DEF TextInv
    <3>2. QED
      BY <2>1, <2>3, <2>6, <3>1, BoundAssumption
  <2>8. QED
    BY <1>1, <2>6, <2>7 DEF SessionInv
<1>4. QED
  BY <1>2, <1>3

\* The session invariant is inductive.
LEMMA SessionInductive ==
  ASSUME MaxDocWords <= MaxSentences
  PROVE  /\ Init => SessionInv
         /\ SessionInv /\ [Next]_vars => SessionInv'
<1>1. ASSUME Init PROVE SessionInv
  <2>1. TextInv
    BY <1>1, TextInductive
  <2>2. Len(doc) <= MaxDocWords /\ sent = 0 /\ ~(sent > 0) /\ swap = NoCopy /\ last = NoCopy
    BY <1>1, DocsAssumption DEF Init
  <2>3. QED
    BY <2>1, <2>2 DEF SessionInv
<1>2. ASSUME SessionInv, [Next]_vars PROVE SessionInv'
  <2>1. TextInv'
    BY <1>2, TextInductive DEF SessionInv
  <2>2. ASSUME NEW k \in 1 .. MaxDocWords + 1, Write(k) PROVE SessionInv'
    BY <1>2, <2>1, <2>2, SessionWrite
  <2>3. ASSUME NEW idx \in 1 .. MaxDocWords + 1, NEW new \in Inputs, Edit(idx, new) PROVE SessionInv'
    BY <1>2, <2>1, <2>3, SessionEdit
  <2>4. CASE Etirw
    BY <1>2, <2>1, <2>4, SessionEtirw
  <2>5. CASE UNCHANGED vars
    <3>1. doc' = doc /\ sent' = sent /\ swap' = swap /\ last' = last
      BY <2>5 DEF vars
    <3>2. QED
      BY <1>2, <2>1, <3>1 DEF SessionInv
  <2>6. QED
    BY <1>2, <2>2, <2>3, <2>4, <2>5 DEF Next
<1>3. QED
  BY <1>1, <1>2

\* The parse of a document is what SentencesPartitionText says.
LEMMA ParsePartitions ==
  ASSUME doc \in Seq(Words), Parse(doc, Sentences(doc))
  PROVE  SentencesPartitionText
<1> DEFINE s == Sentences(doc)
           n == NumSentences(doc)
<1>1. Len(s) = n /\ n \in Nat /\ Len(doc) \in Nat
  BY NumType DEF NumSentences
<1>2. (n = 0) <=> (doc = <<>>)
  <2>1. Len(doc) = 0 <=> Len(s) = 0
    BY ParseEmpty
  <2>2. doc = <<>> <=> Len(doc) = 0
    BY EmptySeq
  <2>3. QED
    BY <1>1, <2>1, <2>2
<1>3. n > 0 => s[1].first = 1 /\ s[n].last = Len(doc)
  BY <1>1 DEF Parse, Follow
<1>4. ASSUME NEW k \in 1 .. n - 1 PROVE s[k + 1].first = s[k].last + 1
  <2>1. k \in 1 .. Len(s) /\ k < Len(s)
    BY <1>1
  <2>2. QED
    BY <2>1 DEF Parse, Follow
<1>5. ASSUME NEW k \in 1 .. n
      PROVE  /\ s[k].first <= s[k].last
             /\ \A i \in s[k].first .. s[k].last - 1 : ~Ends(doc[i])
             /\ k < n => Ends(doc[s[k].last])
  <2>1. k \in 1 .. Len(s)
    BY <1>1
  <2>2. s[k].first \in Nat /\ s[k].last \in Nat /\ s[k].first <= s[k].last
    BY <2>1, ParseTypes
  <2>3. OneIn(doc, s[k]) /\ (k < n => Ends(doc[s[k].last]))
    BY <1>1, <2>1 DEF Parse
  <2>4. \A i \in s[k].first .. s[k].last - 1 : i \in s[k].first .. s[k].last /\ i < s[k].last
    BY <2>2
  <2>5. \A i \in s[k].first .. s[k].last - 1 : ~Ends(doc[i])
    BY <2>3, <2>4 DEF OneIn
  <2>6. QED
    BY <2>2, <2>3, <2>5
<1>6. QED
  BY <1>2, <1>3, <1>4, <1>5 DEF SentencesPartitionText

\* The scan finds the sentences of every document of the session, if the array has room for a
\* sentence per word.
THEOREM ScanPartitions ==
  ASSUME MaxDocWords <= MaxSentences
  PROVE  Spec => []SentencesPartitionText
<1>1. SessionInv => SentencesPartitionText
  <2>1. SUFFICES ASSUME SessionInv PROVE SentencesPartitionText
    OBVIOUS
  <2>2. doc \in Seq(Words) /\ Len(doc) \in Nat /\ Len(doc) <= MaxDocWords
    BY <2>1, RealIsWords DEF SessionInv, TextInv
  <2>3. Len(doc) <= MaxSentences
    BY <2>2, MaxSentencesAssumption, BoundAssumption
  <2>4. Parse(doc, Sentences(doc))
    BY <2>2, <2>3, SentencesParse
  <2>5. QED
    BY <2>2, <2>4, ParsePartitions
<1>2. QED
  BY <1>1, SessionInductive, PTL DEF Spec

\* A commit leaves every sentence but the locked one at its number and word for word, for
\* documents and edit lines of any size up to the array.
THEOREM CommitTouches ==
  ASSUME MaxDocWords <= MaxSentences
  PROVE  Spec => []CommitTouchesOnlyTarget
<1>1. SessionInv => CommitTouchesOnlyTarget
  BY DEF SessionInv, CommitTouchesOnlyTarget, Touches
<1>2. QED
  BY <1>1, SessionInductive, PTL DEF Spec

\* The commit of edits that leave the sentence one sentence is the edited copy.
THEOREM CommitKeeps ==
  ASSUME MaxDocWords <= MaxSentences
  PROVE  Spec => []CommitKeepsUnsplitEdits
<1>1. SessionInv => CommitKeepsUnsplitEdits
  BY DEF SessionInv, CommitKeepsUnsplitEdits, Keeps
<1>2. QED
  BY <1>1, SessionInductive, PTL DEF Spec
=============================================================================
