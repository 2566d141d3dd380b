--------------------------- MODULE MetadataProofs ---------------------------
(***************************************************************************)
(* Proofs about Metadata, for any threads, files, users and bounds: as     *)
(* long as no two threads change names or owners at once, file_count stays *)
(* in the array and the table follows the commands; access lists hold      *)
(* grants that are in force as long as no change was overtaken; and        *)
(* metadata.txt holds what was saved alone.                                *)
(***************************************************************************)
EXTENDS Metadata, SequenceTheorems, WellFoundedInduction, TLAPS

-----------------------------------------------------------------------------
(* The inductive invariant *)

Listable == Users \cup {None}
Entries == [name : Names, owner : Owners, acl : [1 .. MaxAcl -> Listable], n : Nat]
Rows    == [name : Names, owner : Owners, acl : Seq(Listable)]
Lines   == [entry : Rows, cut : Cuts]
Labels  == {"idle", "find", "fill", "fields", "shift", "change", "append", "count", "open",
            "print"}

\* The operation that a thread executes where it stands.
CallOK(label, o) ==
  /\ IF label = "idle" THEN o = Nobody ELSE o \in Requests
  /\ label \in {"fill", "fields"} => o.kind = "add"
  /\ label = "shift" => o.kind = "remove"
  /\ label = "change" => o.kind \in {"owner", "grant", "revoke"}
  /\ label \in {"append", "count"} => o.kind = "grant"

\* The index it holds; what its save has printed is what lies before the index.
IndexOK(label, i) ==
  /\ label = "idle" => i = 1
  /\ label \in {"change", "append", "count"} => i <= MaxFiles
BufOK(label, i, b) == Len(b) = IF label = "print" THEN i - 1 ELSE 0

TableTypes ==
  /\ count \in 0 .. MaxFiles
  /\ slots \in [1 .. MaxFiles -> Entries]
ThreadTypes ==
  /\ pc \in [Threads -> Labels]
  /\ op \in [Threads -> Requests \cup {Nobody}]
  /\ at \in [Threads -> 1 .. MaxFiles + 1]
  /\ \A t \in Threads : CallOK(pc[t], op[t]) /\ IndexOK(pc[t], at[t])
FileTypes ==
  /\ disk \in Seq(Lines)
  /\ buf \in [Threads -> Seq(Lines)]
  /\ \A t \in Threads : BufOK(pc[t], at[t], buf[t])
  /\ stored \in Seq(Rows)
HistTypes ==
  /\ solo \subseteq Threads
  /\ kept \in BOOLEAN /\ raced \in BOOLEAN /\ sound \in BOOLEAN
  /\ torn \in BOOLEAN /\ wild \in BOOLEAN /\ hand \in Threads
TypeInv == TableTypes /\ ThreadTypes /\ FileTypes /\ HistTypes

\* As long as no two threads change names or owners at once: only one thread does, it
\* finds room for an entry and shifts inside the table.
SoleInv ==
  /\ ~torn =>
       /\ \A t \in Active : op[t].kind \in Naming => t = hand
       /\ pc[hand] \in {"fill", "fields"} => count < MaxFiles
       /\ pc[hand] = "shift" => at[hand] <= count
  /\ wild => torn
  /\ torn => raced

\* The entries that count: while entries move down, all but the one that is written next.
Live == (1 .. count) \ (IF pc[hand] = "shift" THEN {at[hand]} ELSE {})

\* What that thread knows of the table: only it moves entries.
HandKnows ==
  LET f == op[hand].file IN
  /\ pc[hand] = "find" => \A i \in 1 .. count : i < at[hand] => slots[i].name # f
  /\ pc[hand] \in {"fill", "fields"} => \A i \in 1 .. count : slots[i].name # f
  /\ pc[hand] = "fields" /\ count < MaxFiles => slots[count + 1].name = f
  /\ pc[hand] = "change" => at[hand] <= count /\ slots[at[hand]].name = f

TableInv ==
  sound /\ ~torn =>
    /\ \A i, j \in Live : slots[i].name = slots[j].name => i = j
    /\ \A i \in Live : /\ slots[i].name \in DOMAIN books
                       /\ slots[i].owner = books[slots[i].name]
    /\ \A f \in DOMAIN books :
         (pc[hand] = "shift" /\ f = op[hand].file) \/ \E i \in Live : slots[i].name = f
    /\ pc[hand] = "shift" => \A i \in Live : slots[i].name # op[hand].file
    /\ HandKnows

\* As long as no change was overtaken: the index of a thread is that of its file,
Holding(t) ==
  pc[t] \in {"change", "append", "count"} =>
    /\ at[t] <= count /\ slots[at[t]].name = op[t].file
    /\ pc[t] \in {"append", "count"} => Listed(slots[at[t]], op[t].user) = {}
    /\ pc[t] = "count" => /\ slots[at[t]].n < MaxAcl
                          /\ slots[at[t]].acl[slots[at[t]].n + 1] = op[t].user
\* a grant under way is in force, and lists fit and name nobody twice.
ListOK(e) == e.n <= MaxAcl /\ \A j, k \in 1 .. e.n : e.acl[j] = e.acl[k] => j = k
ListInv ==
  ~raced =>
    /\ \A s, t \in Active : s # t => ~Overtakes(op[s], op[t])
    /\ \A t \in Threads : Holding(t)
    /\ \A t \in Active : op[t].kind = "grant" => <<op[t].file, op[t].user>> \in asked
    /\ \A i \in 1 .. MaxFiles : ListOK(slots[i])
    /\ GrantsInForce

\* A thread that runs alone, and the file it writes: the lines of the table printed so far,
\* the last of them perhaps cut.
Begun(lines, all) ==
  /\ Len(lines) <= Len(all)
  /\ \A i \in 1 .. Len(lines) :
       /\ lines[i].entry = all[i].entry
       /\ lines[i].cut \in CutsOf(lines[i].entry) \cup {"whole"}
       /\ i < Len(lines) => lines[i].cut = "whole"
SoloInv ==
  /\ \A t \in solo : pc[t] # "idle" => Active = {t}
  /\ kept => Active \subseteq solo
  /\ \A t \in solo : pc[t] = "print" =>
       /\ at[t] <= count + 1
       /\ \A i \in 1 .. Len(buf[t]) : buf[t][i] = Line(Printed(slots[i]), "whole")
       /\ Begun(disk, buf[t])

\* What load_metadata makes of a table that was saved alone.
Reads(l, table) ==
  /\ Len(l) = Len(table)
  /\ \A i \in 1 .. Len(l) :
       /\ l[i].name = table[i].name /\ l[i].owner = table[i].owner
       /\ Len(table[i].acl) <= MaxAcl => l[i] = table[i]
Unchanged == {"idle", "find", "fill", "change", "append"}
StoredInv ==
  kept =>
    /\ (\A t \in Threads : pc[t] # "print") => Reads(Loaded(disk), stored)
    /\ (\A t \in Threads : pc[t] \in Unchanged) => stored = Table
    /\ sound /\ ~torn => \A i, j \in 1 .. Len(stored) : stored[i].name = stored[j].name => i = j

IndInv == TypeInv /\ SoleInv /\ TableInv /\ ListInv /\ SoloInv /\ StoredInv

-----------------------------------------------------------------------------
(* Induction, and the loop of load_metadata *)

\* Induction over the naturals, for a set in place of a predicate: a number that is not in
\* S would have a least one, which has a predecessor.
LEMMA Induction ==
  ASSUME NEW S, 0 \in S, \A n \in Nat : n \in S => n + 1 \in S
  PROVE  Nat \subseteq S
<1> DEFINE R == OpToRel(<, Nat)
           T == Nat \ S
<1>1. \A x, y \in Nat : y < x => <<y, x>> \in R
  BY Zenon DEF OpToRel
<1>2. IsWellFoundedOn(R, Nat)
  BY Zenon, NatLessThanWellFounded
<1> HIDE DEF R
<1>3. SUFFICES ASSUME T # {} PROVE FALSE
  OBVIOUS
<1>4. T \subseteq Nat
  OBVIOUS
<1>5. PICK x \in T : \A y \in T : ~(<<y, x>> \in R)
  BY <1>2, <1>3, <1>4, WFMin
<1>6. x \in Nat /\ x # 0 /\ x - 1 \in Nat /\ x - 1 < x /\ (x - 1) + 1 = x
  BY <1>4, <1>5
<1>7. x - 1 \in T
  BY <1>5, <1>6
<1>8. QED
  BY <1>1, <1>5, <1>6, <1>7

\* The rows that load_metadata has read after i lines.
Loop(lines, g) ==
  g = [i \in 0 .. Len(lines) |-> IF i = 0 THEN <<>> ELSE g[i - 1] \o Parsed(lines[i])]

\* There is such a function for any lines: it grows with them.
LEMMA LoopExists ==
  ASSUME NEW lines, Len(lines) \in Nat
  PROVE  \E g : Loop(lines, g)
<1> DEFINE Upto(n, g) == g = [i \in 0 .. n |-> IF i = 0 THEN <<>> ELSE g[i - 1] \o Parsed(lines[i])]
           S == {n \in Nat : \E g : Upto(n, g)}
<1>1. 0 \in S
  <2>1. Upto(0, [i \in 0 .. 0 |-> <<>>])
    OBVIOUS
  <2>2. QED
    BY <2>1
<1>2. ASSUME NEW n \in Nat, n \in S PROVE n + 1 \in S
  <2>1. PICK g : Upto(n, g)
    BY <1>2
  <2> DEFINE h == [i \in 0 .. n + 1 |-> IF i = n + 1 THEN g[n] \o Parsed(lines[n + 1]) ELSE g[i]]
  <2>2. \A i \in 0 .. n : h[i] = g[i]
    OBVIOUS
  <2>3. \A i \in 0 .. n : g[i] = IF i = 0 THEN <<>> ELSE g[i - 1] \o Parsed(lines[i])
    BY <2>1
  <2>4. h[n + 1] = g[n] \o Parsed(lines[n + 1])
    OBVIOUS
  <2>5. DOMAIN h = 0 .. n + 1 /\ h = [i \in 0 .. n + 1 |-> h[i]]
    OBVIOUS
  <2> HIDE DEF h
  <2>6. \A i \in 0 .. n + 1 : h[i] = IF i = 0 THEN <<>> ELSE h[i - 1] \o Parsed(lines[i])
    <3> SUFFICES ASSUME NEW i \in 0 .. n + 1
                 PROVE  h[i] = IF i = 0 THEN <<>> ELSE h[i - 1] \o Parsed(lines[i])
      OBVIOUS
    <3>1. CASE i = n + 1
      <4>1. i # 0 /\ i - 1 = n /\ n \in 0 .. n
        BY <3>1
      <4>2. h[i - 1] = g[n]
        BY <4>1, <2>2
      <4>3. QED
        BY <3>1, <4>1, <4>2, <2>4
    <3>2. CASE i # n + 1
      <4>1. i \in 0 .. n /\ (i # 0 => i - 1 \in 0 .. n)
        BY <3>2
      <4>2. h[i] = g[i] /\ (i # 0 => h[i - 1] = g[i - 1])
        BY <4>1, <2>2
      <4>3. QED
        BY <4>1, <4>2, <2>3
    <3>3. QED
      BY <3>1, <3>2
  <2>7. Upto(n + 1, h)
    BY <2>5, <2>6
  <2>8. QED
    BY <2>7
<1> HIDE DEF S
<1>3. Nat \subseteq S
  BY <1>1, <1>2, Induction
<1>4. QED
  BY <1>3 DEF S, Loop

\* What load_metadata returns: the rows after the last line, as far as the table goes.
LEMMA LoadedLoop ==
  ASSUME NEW lines, Len(lines) \in Nat
  PROVE  \E g : /\ g[0] = <<>>
                /\ \A i \in 1 .. Len(lines) : g[i] = g[i - 1] \o Parsed(lines[i])
                /\ Loaded(lines) =
                     SubSeq(g[Len(lines)], 1,
                            IF Len(g[Len(lines)]) < MaxFiles THEN Len(g[Len(lines)]) ELSE MaxFiles)
<1> DEFINE load == CHOOSE g : g = [i \in 0 .. Len(lines) |->
                                     IF i = 0 THEN <<>> ELSE g[i - 1] \o Parsed(lines[i])]
<1>1. \E g : g = [i \in 0 .. Len(lines) |-> IF i = 0 THEN <<>> ELSE g[i - 1] \o Parsed(lines[i])]
  BY LoopExists DEF Loop
<1>2. load = [i \in 0 .. Len(lines) |-> IF i = 0 THEN <<>> ELSE load[i - 1] \o Parsed(lines[i])]
  BY <1>1, Zenon
<1>3. Loaded(lines) = SubSeq(load[Len(lines)], 1,
            IF Len(load[Len(lines)]) < MaxFiles THEN Len(load[Len(lines)]) ELSE MaxFiles)
  BY Zenon DEF Loaded
<1> HIDE DEF load
<1>4. load[0] = <<>> /\ \A i \in 1 .. Len(lines) : load[i] = load[i - 1] \o Parsed(lines[i])
  BY <1>2
<1>5. QED
  BY <1>3, <1>4

\* The rows that load_metadata makes of lines: their lists fit.
ReadRows == {r \in Rows : Len(r.acl) <= MaxAcl}

\* The beginning of a list.
LEMMA ListPrefix ==
  ASSUME NEW r \in Rows, NEW n \in Int, n <= Len(r.acl), n <= MaxAcl
  PROVE  /\ SubSeq(r.acl, 1, n) \in Seq(Listable)
         /\ [r EXCEPT !.acl = SubSeq(r.acl, 1, n)] \in ReadRows
         /\ n = Len(r.acl) => [r EXCEPT !.acl = SubSeq(r.acl, 1, n)] = r
<1>1. r.acl \in Seq(Listable) /\ MaxAcl \in Nat
  BY BoundAssumption DEF Rows
<1>2. SubSeq(r.acl, 1, n) \in Seq(Listable) /\ Len(SubSeq(r.acl, 1, n)) = (IF n >= 1 THEN n ELSE 0)
  <2>1. CASE n >= 1
    BY <1>1, <2>1, SubSeqProperties
  <2>2. CASE n < 1
    BY <1>1, <2>2, SubSeqEmpty
  <2>3. QED
    BY <2>1, <2>2
<1>3. n = Len(r.acl) => SubSeq(r.acl, 1, n) = r.acl
  BY <1>1, SubSeqFull
<1> DEFINE a == SubSeq(r.acl, 1, n)
<1> HIDE DEF a
<1>4. a \in Seq(Listable) /\ Len(a) <= MaxAcl
  BY <1>1, <1>2 DEF a
<1>5. [r EXCEPT !.acl = a] \in Rows /\ [r EXCEPT !.acl = a].acl = a
  BY <1>4 DEF Rows
<1>6. [r EXCEPT !.acl = a] \in ReadRows
  BY <1>4, <1>5 DEF ReadRows
<1>7. a = r.acl => [r EXCEPT !.acl = a] = r
  BY DEF Rows
<1>8. QED
  BY <1>2, <1>3, <1>6, <1>7 DEF a

\* A line gives one row, or none when fields are missing.
LEMMA ParsedType ==
  ASSUME NEW l \in Lines
  PROVE  /\ l.cut = "fields" => Parsed(l) = <<>>
         /\ l.cut # "fields" => \E r \in ReadRows : Parsed(l) = <<r>>
<1>1. l.entry \in Rows /\ l.cut \in Cuts /\ l.entry.acl \in Seq(Listable) /\ Len(l.entry.acl) \in Nat
      /\ MaxAcl \in Nat
  BY BoundAssumption DEF Lines, Rows
<1>2. <<>> \in Seq(Listable) /\ Len(<<>>) = 0
  OBVIOUS
<1> DEFINE n == Len(l.entry.acl)
           w == IF n < MaxAcl THEN n ELSE MaxAcl
           c == IF n <= MaxAcl THEN n - 1 ELSE MaxAcl
<1>3. w \in Int /\ c \in Int /\ w <= n /\ w <= MaxAcl /\ c <= n /\ c <= MaxAcl
  BY <1>1
<1>4. CASE l.cut = "whole"
  <2>1. Parsed(l) = <<[l.entry EXCEPT !.acl = SubSeq(l.entry.acl, 1, w)]>>
    BY <1>4 DEF Parsed
  <2>2. QED
    BY <1>1, <1>3, <1>4, <2>1, ListPrefix
<1>5. CASE l.cut = "fields"
  BY <1>5 DEF Parsed
<1>6. CASE l.cut = "times"
  <2>1. Parsed(l) = <<[name |-> l.entry.name, owner |-> None, acl |-> <<>>]>>
    BY <1>6 DEF Parsed
  <2>3. l.entry.name \in Names /\ None \in Owners
    BY <1>1 DEF Rows, Owners
  <2>4. [name |-> l.entry.name, owner |-> None, acl |-> <<>>] \in ReadRows
    BY <1>1, <1>2, <2>3 DEF ReadRows, Rows
  <2>5. QED
    BY <1>6, <2>1, <2>4
<1>7. CASE l.cut = "owner"
  <2>1. Parsed(l) = <<[name |-> l.entry.name, owner |-> Short, acl |-> <<>>]>>
    BY <1>7 DEF Parsed
  <2>3. l.entry.name \in Names /\ Short \in Owners
    BY <1>1 DEF Rows, Owners
  <2>4. [name |-> l.entry.name, owner |-> Short, acl |-> <<>>] \in ReadRows
    BY <1>1, <1>2, <2>3 DEF ReadRows, Rows
  <2>5. QED
    BY <1>7, <2>1, <2>4
<1>8. CASE l.cut = "acl"
  <2>1. Parsed(l) = <<[l.entry EXCEPT !.acl = SubSeq(l.entry.acl, 1, c)]>>
    BY <1>8 DEF Parsed
  <2>2. QED
    BY <1>1, <1>3, <1>8, <2>1, ListPrefix
<1>9. CASE l.cut = "middle"
  <2>1. Parsed(l) = <<[name |-> Junk, owner |-> None, acl |-> <<>>]>>
    BY <1>9 DEF Parsed
  <2>2. [name |-> Junk, owner |-> None, acl |-> <<>>] \in ReadRows
    BY <1>1, <1>2 DEF ReadRows, Rows, Owners, Names
  <2>3. QED
    BY <1>9, <2>1, <2>2
<1>10. QED
  BY <1>1, <1>4, <1>5, <1>6, <1>7, <1>8, <1>9 DEF Cuts

\* The first rows of a sequence.
LEMMA FirstRows ==
  ASSUME NEW s \in Seq(ReadRows)
  PROVE  LET n == IF Len(s) < MaxFiles THEN Len(s) ELSE MaxFiles IN
         /\ SubSeq(s, 1, n) \in Seq(ReadRows) /\ Len(SubSeq(s, 1, n)) = n
         /\ Len(s) <= MaxFiles => SubSeq(s, 1, n) = s
<1> DEFINE n == IF Len(s) < MaxFiles THEN Len(s) ELSE MaxFiles
<1>1. n \in Nat /\ n <= Len(s) /\ Len(s) \in Nat /\ MaxFiles \in Nat
  BY BoundAssumption
<1>2. Len(s) <= MaxFiles => n = Len(s)
  BY <1>1
<1> HIDE DEF n
<1>3. SubSeq(s, 1, n) \in Seq(ReadRows) /\ Len(SubSeq(s, 1, n)) = n
  <2>1. CASE n >= 1
    BY <1>1, <2>1, SubSeqProperties
  <2>2. CASE n < 1
    BY <1>1, <2>2, SubSeqEmpty
  <2>3. QED
    BY <1>1, <2>1, <2>2
<1>4. n = Len(s) => SubSeq(s, 1, n) = s
  BY <1>1, SubSeqFull
<1>5. QED
  BY <1>2, <1>3, <1>4 DEF n

\* load_metadata fills a part of the table, with lists that fit.
LEMMA LoadedType ==
  ASSUME NEW lines \in Seq(Lines)
  PROVE  Loaded(lines) \in Seq(ReadRows) /\ Len(Loaded(lines)) <= MaxFiles
<1>0. Len(lines) \in Nat
  OBVIOUS
<1>1. PICK g : /\ g[0] = <<>>
               /\ \A i \in 1 .. Len(lines) : g[i] = g[i - 1] \o Parsed(lines[i])
               /\ Loaded(lines) =
                     SubSeq(g[Len(lines)], 1,
                            IF Len(g[Len(lines)]) < MaxFiles THEN Len(g[Len(lines)]) ELSE MaxFiles)
  BY <1>0, LoadedLoop
<1> DEFINE S == {i \in Nat : i <= Len(lines) => g[i] \in Seq(ReadRows)}
<1>2. 0 \in S
  <2>1. <<>> \in Seq(ReadRows) /\ Len(<<>>) = 0 /\ 0 \in Nat
    OBVIOUS
  <2>2. QED
    BY <1>1, <2>1
<1>3. ASSUME NEW n \in Nat, n \in S PROVE n + 1 \in S
  <2>1. SUFFICES ASSUME n + 1 <= Len(lines) PROVE g[n + 1] \in Seq(ReadRows)
    OBVIOUS
  <2>2. g[n] \in Seq(ReadRows) /\ n + 1 \in 1 .. Len(lines) /\ (n + 1) - 1 = n
    BY <1>3, <2>1
  <2>3. lines[n + 1] \in Lines
    BY <2>2
  <2>4. Parsed(lines[n + 1]) \in Seq(ReadRows)
    <3>1. <<>> \in Seq(ReadRows) /\ \A r \in ReadRows : <<r>> \in Seq(ReadRows)
      OBVIOUS
    <3>2. QED
      BY <2>3, <3>1, ParsedType
  <2>5. g[n + 1] = g[n] \o Parsed(lines[n + 1])
    BY <1>1, <2>2
  <2>6. QED
    BY <2>2, <2>4, <2>5, ConcatProperties
<1> HIDE DEF S
<1>4. Nat \subseteq S
  BY <1>2, <1>3, Induction
<1>5. g[Len(lines)] \in Seq(ReadRows)
  BY <1>0, <1>4 DEF S
<1>6. QED
  BY <1>1, <1>5, FirstRows, BoundAssumption

\* Lines of which only the last may be cut: each of the others gives its row.
LEMMA LoadedInOrder ==
  ASSUME NEW lines \in Seq(Lines), Len(lines) <= MaxFiles,
         \A i \in 1 .. Len(lines) : i < Len(lines) => lines[i].cut = "whole"
  PROVE  /\ Len(Loaded(lines)) <= Len(lines)
         /\ \A i \in 1 .. Len(Loaded(lines)) : Parsed(lines[i]) = <<Loaded(lines)[i]>>
         /\ Len(lines) - 1 <= Len(Loaded(lines))
         /\ (\A i \in 1 .. Len(lines) : lines[i].cut # "fields") => Len(Loaded(lines)) = Len(lines)
<1>0. Len(lines) \in Nat
  OBVIOUS
<1>1. PICK g : /\ g[0] = <<>>
               /\ \A i \in 1 .. Len(lines) : g[i] = g[i - 1] \o Parsed(lines[i])
               /\ Loaded(lines) =
                     SubSeq(g[Len(lines)], 1,
                            IF Len(g[Len(lines)]) < MaxFiles THEN Len(g[Len(lines)]) ELSE MaxFiles)
  BY <1>0, LoadedLoop
<1> DEFINE Good(i) == /\ g[i] \in Seq(ReadRows) /\ Len(g[i]) = i
                      /\ \A k \in 1 .. i : Parsed(lines[k]) = <<g[i][k]>>
           S == {i \in Nat : i < Len(lines) => Good(i)}
<1>2. 0 \in S
  <2>1. <<>> \in Seq(ReadRows) /\ Len(<<>>) = 0 /\ 0 \in Nat
    OBVIOUS
  <2>2. Good(0)
    BY <1>1, <2>1
  <2>3. QED
    BY <2>2
<1>3. ASSUME NEW n \in Nat, n < Len(lines), Good(n), lines[n + 1].cut # "fields"
      PROVE  Good(n + 1)
  <2>1. n + 1 \in 1 .. Len(lines) /\ (n + 1) - 1 = n
    BY <1>3
  <2>2. lines[n + 1] \in Lines
    BY <2>1
  <2>3. PICK r \in ReadRows : Parsed(lines[n + 1]) = <<r>>
    BY <1>3, <2>2, ParsedType
  <2>4. g[n + 1] = g[n] \o <<r>>
    BY <1>1, <2>1, <2>3
  <2>5. g[n + 1] \in Seq(ReadRows) /\ Len(g[n + 1]) = n + 1
        /\ \A k \in 1 .. n + 1 : g[n + 1][k] = IF k <= n THEN g[n][k] ELSE r
    BY <1>3, <2>3, <2>4
  <2>6. ASSUME NEW k \in 1 .. n + 1 PROVE Parsed(lines[k]) = <<g[n + 1][k]>>
    <3>1. CASE k = n + 1
      BY <2>3, <2>5, <3>1
    <3>2. CASE k # n + 1
      <4>1. k \in 1 .. n
        BY <3>2
      <4>2. QED
        BY <1>3, <2>5, <4>1
    <3>3. QED
      BY <3>1, <3>2
  <2>7. QED
    BY <2>5, <2>6
<1>4. ASSUME NEW n \in Nat, n \in S PROVE n + 1 \in S
  <2>1. SUFFICES ASSUME n + 1 < Len(lines) PROVE Good(n + 1)
    OBVIOUS
  <2>2. n < Len(lines) /\ Good(n) /\ n + 1 \in 1 .. Len(lines)
    BY <1>4, <2>1
  <2>3. lines[n + 1].cut = "whole"
    BY <2>1, <2>2
  <2>4. QED
    BY <1>3, <2>2, <2>3
<1> HIDE DEF S
<1>5. Nat \subseteq S
  BY <1>2, <1>4, Induction
<1>6. CASE Len(lines) = 0
  <2>1. g[Len(lines)] = <<>> /\ <<>> \in Seq(ReadRows) /\ Len(<<>>) = 0
    BY <1>1, <1>6
  <2>2. Loaded(lines) = <<>>
    BY <1>1, <2>1, FirstRows, BoundAssumption
  <2>3. QED
    BY <1>6, <2>2
<1>7. CASE Len(lines) # 0
  <2> DEFINE m == Len(lines) - 1
  <2>1. m \in Nat /\ m < Len(lines) /\ m + 1 = Len(lines) /\ m + 1 \in 1 .. Len(lines)
    BY <1>0, <1>7
  <2>2. Good(m)
    <3>1. m \in S
      BY <1>5, <2>1
    <3>2. QED
      BY <2>1, <3>1 DEF S
  <2>3. lines[m + 1] \in Lines
    BY <2>1
  <2> HIDE DEF m
  <2>4. CASE lines[m + 1].cut = "fields"
    <3>0. (m + 1) - 1 = m /\ Parsed(lines[m + 1]) = <<>>
      BY <2>1, <2>3, <2>4, ParsedType
    <3>1. g[m + 1] = g[m] \o <<>>
      BY <1>1, <2>1, <3>0
    <3>2. g[Len(lines)] = g[m]
      BY <2>1, <2>2, <3>1, ConcatEmptySeq
    <3>3. Len(g[m]) <= MaxFiles
      BY <2>1, <2>2, BoundAssumption
    <3>4. Loaded(lines) = g[m]
      BY <1>1, <2>2, <3>2, <3>3, FirstRows
    <3>5. QED
      BY <2>1, <2>2, <2>4, <3>4
  <2>5. CASE lines[m + 1].cut # "fields"
    <3>1. Good(m + 1)
      BY <1>3, <2>1, <2>2, <2>5
    <3>2. Loaded(lines) = g[m + 1]
      BY <1>1, <2>1, <3>1, FirstRows
    <3>3. QED
      BY <2>1, <3>1, <3>2
  <2>6. QED
    BY <2>4, <2>5
<1>8. QED
  BY <1>6, <1>7

-----------------------------------------------------------------------------
(* Types *)

\* Who adds, removes and sets owners, as long as no two threads do so at once.
LEMMA SoleHand ==
  ASSUME ThreadTypes, SoleInv, ~torn, NEW t \in Threads
  PROVE  /\ pc[t] \in {"fill", "fields", "shift"} => t = hand
         /\ pc[t] # "idle" /\ op[t].kind \in Naming => t = hand
         /\ pc[t] \in {"fill", "fields"} => count < MaxFiles
         /\ pc[t] = "shift" => at[t] <= count
<1>1. pc[t] # "idle" /\ op[t].kind \in Naming => t = hand
  BY DEF SoleInv, Active
<1>2. pc[t] \in {"fill", "fields", "shift"} => op[t].kind \in Naming /\ pc[t] # "idle"
  BY DEF ThreadTypes, CallOK, Naming
<1>3. QED
  BY <1>1, <1>2 DEF SoleInv

\* What an operation that ends leaves behind.
LEMMA DoneTypes ==
  ASSUME ThreadTypes, FileTypes, NEW t \in Threads, Done(t)
  PROVE  ThreadTypes' /\ buf' \in [Threads -> Seq(Lines)]
         /\ \A s \in Threads : BufOK(pc'[s], at'[s], buf'[s])
<1>1. pc' = [pc EXCEPT ![t] = "idle"] /\ op' = [op EXCEPT ![t] = Nobody]
      /\ at' = [at EXCEPT ![t] = 1] /\ buf' = [buf EXCEPT ![t] = <<>>]
  BY DEF Done, Goto
<1>2. 1 \in 1 .. MaxFiles + 1 /\ <<>> \in Seq(Lines) /\ Len(<<>>) = 0
  BY BoundAssumption
<1>3. pc' \in [Threads -> Labels] /\ op' \in [Threads -> Requests \cup {Nobody}]
      /\ at' \in [Threads -> 1 .. MaxFiles + 1] /\ buf' \in [Threads -> Seq(Lines)]
  BY <1>1, <1>2 DEF ThreadTypes, FileTypes, Labels
<1>4. ASSUME NEW s \in Threads
      PROVE  /\ CallOK(pc'[s], op'[s]) /\ IndexOK(pc'[s], at'[s])
             /\ BufOK(pc'[s], at'[s], buf'[s])
  <2>1. CASE s = t
    <3>1. pc'[s] = "idle" /\ op'[s] = Nobody /\ at'[s] = 1 /\ buf'[s] = <<>>
      BY <1>1, <2>1 DEF ThreadTypes, FileTypes
    <3>2. QED
      BY <1>2, <3>1 DEF CallOK, IndexOK, BufOK
  <2>2. CASE s # t
    <3>1. pc'[s] = pc[s] /\ op'[s] = op[s] /\ at'[s] = at[s] /\ buf'[s] = buf[s]
      BY <1>1, <2>2 DEF ThreadTypes, FileTypes
    <3>2. QED
      BY <3>1 DEF ThreadTypes, FileTypes
  <2>3. QED
    BY <2>1, <2>2
<1>5. QED
  BY <1>3, <1>4 DEF ThreadTypes

\* A step of one thread to another label, with its operation, index and buffer.
LEMMA StepTypes ==
  ASSUME ThreadTypes, FileTypes, NEW t \in Threads, NEW label \in Labels \ {"idle"},
         NEW o \in Requests, NEW i \in 1 .. MaxFiles + 1, NEW b \in Seq(Lines),
         pc' = [pc EXCEPT ![t] = label], op' = [op EXCEPT ![t] = o],
         at' = [at EXCEPT ![t] = i], buf' = [buf EXCEPT ![t] = b],
         CallOK(label, o), IndexOK(label, i), BufOK(label, i, b)
  PROVE  ThreadTypes' /\ buf' \in [Threads -> Seq(Lines)]
         /\ \A s \in Threads : BufOK(pc'[s], at'[s], buf'[s])
<1>1. pc' \in [Threads -> Labels] /\ op' \in [Threads -> Requests \cup {Nobody}]
      /\ at' \in [Threads -> 1 .. MaxFiles + 1] /\ buf' \in [Threads -> Seq(Lines)]
  BY DEF ThreadTypes, FileTypes
<1>2. ASSUME NEW s \in Threads
      PROVE  /\ CallOK(pc'[s], op'[s]) /\ IndexOK(pc'[s], at'[s])
             /\ BufOK(pc'[s], at'[s], buf'[s])
  <2>1. CASE s = t
    BY <2>1 DEF ThreadTypes, FileTypes
  <2>2. CASE s # t
    <3>1. pc'[s] = pc[s] /\ op'[s] = op[s] /\ at'[s] = at[s] /\ buf'[s] = buf[s]
      BY <2>2 DEF ThreadTypes, FileTypes
    <3>2. IndexOK(pc[s], at[s])
      BY <2>2 DEF ThreadTypes, IndexOK
    <3>3. QED
      BY <3>1, <3>2 DEF ThreadTypes, FileTypes
  <2>3. QED
    BY <2>1, <2>2
<1>3. QED
  BY <1>1, <1>2 DEF ThreadTypes

\* The same for a thread that goes on with its operation.
LEMMA GotoTypes ==
  ASSUME ThreadTypes, FileTypes, NEW t \in Threads, pc[t] # "idle", NEW label \in Labels \ {"idle"},
         NEW i \in 1 .. MaxFiles + 1, NEW b \in Seq(Lines),
         pc' = [pc EXCEPT ![t] = label], op' = op,
         at' = [at EXCEPT ![t] = i], buf' = [buf EXCEPT ![t] = b],
         CallOK(label, op[t]), IndexOK(label, i), BufOK(label, i, b)
  PROVE  ThreadTypes' /\ buf' \in [Threads -> Seq(Lines)]
         /\ \A s \in Threads : BufOK(pc'[s], at'[s], buf'[s])
<1>1. op[t] \in Requests /\ op' = [op EXCEPT ![t] = op[t]]
  BY DEF ThreadTypes, CallOK
<1>2. QED
  BY <1>1, StepTypes

\* The same where only the label changes.
LEMMA LabelTypes ==
  ASSUME ThreadTypes, FileTypes, NEW t \in Threads, pc[t] \notin {"idle", "print"},
         NEW label \in Labels \ {"idle", "print"},
         Goto(t, label), op' = op, at' = at, buf' = buf,
         CallOK(label, op[t]), IndexOK(label, at[t])
  PROVE  ThreadTypes' /\ buf' \in [Threads -> Seq(Lines)]
         /\ \A s \in Threads : BufOK(pc'[s], at'[s], buf'[s])
<1>1. at' = [at EXCEPT ![t] = at[t]] /\ buf' = [buf EXCEPT ![t] = buf[t]]
      /\ at[t] \in 1 .. MaxFiles + 1 /\ buf[t] \in Seq(Lines) /\ BufOK(label, at[t], buf[t])
  BY DEF ThreadTypes, FileTypes, BufOK
<1>2. pc' = [pc EXCEPT ![t] = label]
  BY DEF Goto
<1>3. QED
  BY <1>1, <1>2, GotoTypes

\* Entries and how they are printed.
LEMMA PrintedType ==
  ASSUME NEW e \in Entries
  PROVE  /\ Printed(e) \in Rows /\ Len(Printed(e).acl) = e.n
         /\ Printed(e).name = e.name /\ Printed(e).owner = e.owner
         /\ \A j \in 1 .. e.n : Printed(e).acl[j] = Acl(e, j) /\ Acl(e, j) \in Listable
         /\ \A c \in Cuts : Line(Printed(e), c) \in Lines
<1>1. e.n \in Nat /\ e.name \in Names /\ e.owner \in Owners /\ e.acl \in [1 .. MaxAcl -> Listable]
  BY DEF Entries
<1>2. \A j \in 1 .. e.n : Acl(e, j) \in Listable
  BY <1>1, BoundAssumption DEF Acl, Listable
<1> DEFINE a == [j \in 1 .. e.n |-> Acl(e, j)]
<1>3. a \in Seq(Listable) /\ Len(a) = e.n
  BY <1>1, <1>2
<1>4. \A j \in 1 .. e.n : a[j] = Acl(e, j)
  OBVIOUS
<1>5. Printed(e) = [name |-> e.name, owner |-> e.owner, acl |-> a]
  BY DEF Printed
<1> HIDE DEF a
<1>6. Printed(e) \in Rows
  BY <1>1, <1>3, <1>5 DEF Rows
<1>7. QED
  BY <1>2, <1>3, <1>4, <1>5, <1>6 DEF Line, Lines

\* The table is a sequence of rows.
LEMMA TableType ==
  ASSUME TableTypes
  PROVE  Table \in Seq(Rows) /\ Len(Table) = count
         /\ \A i \in 1 .. count : i \in 1 .. MaxFiles /\ slots[i] \in Entries /\ Table[i] = Printed(slots[i])
<1>1. count \in Nat /\ count <= MaxFiles
  BY BoundAssumption DEF TableTypes
<1>2. \A i \in 1 .. count : i \in 1 .. MaxFiles /\ slots[i] \in Entries /\ Printed(slots[i]) \in Rows
  BY <1>1, PrintedType, BoundAssumption DEF TableTypes
<1>3. QED
  BY <1>1, <1>2 DEF Table

\* The initial state.
LEMMA TypeInit == Init => TypeInv
<1> SUFFICES ASSUME Init PROVE TypeInv
  OBVIOUS
<1>1. Blank \in Entries
  BY BoundAssumption DEF Blank, Entries, Names, Owners, Listable
<1>2. TableTypes
  BY <1>1, BoundAssumption DEF Init, TableTypes
<1>3. 1 \in 1 .. MaxFiles + 1
  BY BoundAssumption
<1>4. ThreadTypes
  BY <1>3 DEF Init, ThreadTypes, Labels, CallOK, IndexOK
<1>5. <<>> \in Seq(Lines) /\ <<>> \in Seq(Rows) /\ Len(<<>>) = 0
  OBVIOUS
<1>6. FileTypes
  BY <1>5 DEF Init, FileTypes, BufOK
<1>7. HistTypes
  BY ThreadsAssumption DEF Init, HistTypes
<1>8. QED
  BY <1>2, <1>4, <1>6, <1>7 DEF TypeInv

\* A command begins: the thread searches from the first entry, its buffer empty.
LEMMA BeginTypes ==
  ASSUME TypeInv, NEW t \in Threads, NEW o \in Requests, Begin(t, o)
  PROVE  TypeInv'
<1> USE DEF TypeInv
<1>1. TableTypes'
  BY DEF Begin, TableTypes, tableVars
<1>2. at[t] \in 1 .. MaxFiles + 1 /\ buf[t] \in Seq(Lines) /\ Len(buf[t]) = 0
  BY DEF Begin, ThreadTypes, FileTypes, BufOK
<1>3. /\ pc' = [pc EXCEPT ![t] = "find"] /\ op' = [op EXCEPT ![t] = o]
      /\ at' = [at EXCEPT ![t] = at[t]] /\ buf' = [buf EXCEPT ![t] = buf[t]]
  BY DEF Begin, Goto, tableVars, ThreadTypes, FileTypes
<1>4. "find" \in Labels \ {"idle"} /\ CallOK("find", o) /\ IndexOK("find", at[t])
      /\ BufOK("find", at[t], buf[t])
  BY <1>2 DEF Labels, CallOK, IndexOK, BufOK
<1>5. ThreadTypes' /\ buf' \in [Threads -> Seq(Lines)]
      /\ \A s \in Threads : BufOK(pc'[s], at'[s], buf'[s])
  BY <1>2, <1>3, <1>4, StepTypes
<1>6. FileTypes'
  BY <1>5 DEF FileTypes, Begin
<1>7. HistTypes'
  BY DEF HistTypes, Begin
<1>8. QED
  BY <1>1, <1>5, <1>6, <1>7

\* A round of the search, and where it leads: the index stays in the array.
LEMMA FindTypes ==
  ASSUME TypeInv, NEW t \in Threads, persist_find_file(t)
  PROVE  TypeInv'
<1> USE DEF TypeInv
<1>1. TableTypes' /\ HistTypes' /\ count' = count /\ disk' = disk /\ stored' = stored
  BY DEF persist_find_file, TableTypes, HistTypes, tableVars, history
<1>2. pc[t] = "find" /\ op[t] \in Requests /\ at[t] \in 1 .. MaxFiles + 1 /\ count \in Nat
      /\ count <= MaxFiles /\ buf[t] \in Seq(Lines) /\ Len(buf[t]) = 0
  BY BoundAssumption DEF persist_find_file, ThreadTypes, FileTypes, TableTypes, CallOK, BufOK
<1>3. ThreadTypes' /\ buf' \in [Threads -> Seq(Lines)]
      /\ \A s \in Threads : BufOK(pc'[s], at'[s], buf'[s])
  <2>1. CASE at[t] <= count /\ at' = [at EXCEPT ![t] = @ + 1] /\ UNCHANGED <<pc, op, buf>>
    <3>1. at[t] + 1 \in 1 .. MaxFiles + 1 /\ at' = [at EXCEPT ![t] = at[t] + 1]
      BY <1>2, <2>1, BoundAssumption DEF ThreadTypes
    <3>2. pc' = [pc EXCEPT ![t] = "find"] /\ buf' = [buf EXCEPT ![t] = buf[t]] /\ op' = op
      BY <1>2, <2>1 DEF ThreadTypes, FileTypes
    <3>3. "find" \in Labels \ {"idle"} /\ CallOK("find", op[t]) /\ IndexOK("find", at[t] + 1)
          /\ BufOK("find", at[t] + 1, buf[t])
      BY <1>2 DEF Labels, CallOK, IndexOK, BufOK
    <3>4. QED
      BY <1>1, <1>2, <3>1, <3>2, <3>3, GotoTypes
  <2>2. CASE Done(t)
    BY <1>1, <2>2, DoneTypes
  <2>3. CASE at[t] <= count /\ op[t].kind # "add" /\ Goto(t, Then(op[t].kind)) /\ UNCHANGED <<op, at, buf>>
    <3>1. op[t].kind \in Operations \ {"add"}
      BY <1>2, <2>3 DEF Requests, Operations
    <3>2. Then(op[t].kind) \in {"shift", "open", "change"} /\ CallOK(Then(op[t].kind), op[t])
      <4>1. CASE op[t].kind = "remove"
        BY <1>2, <4>1 DEF Then, CallOK
      <4>2. CASE op[t].kind = "touch"
        BY <1>2, <4>2 DEF Then, CallOK
      <4>3. CASE op[t].kind \in {"owner", "grant", "revoke"}
        BY <1>2, <4>3 DEF Then, CallOK
      <4>4. QED
        BY <3>1, <4>1, <4>2, <4>3 DEF Operations
    <3>3. IndexOK(Then(op[t].kind), at[t])
      BY <1>1, <1>2, <2>3, <3>2, BoundAssumption DEF IndexOK
    <3> DEFINE label == Then(op[t].kind)
    <3> HIDE DEF label
    <3>4. label \in Labels \ {"idle", "print"}
      BY <3>2 DEF Labels, label
    <3>5. QED
      BY <1>1, <1>2, <2>3, <3>2, <3>3, <3>4, LabelTypes DEF label
  <2>4. CASE op[t].kind = "add" /\ count < MaxFiles /\ Goto(t, "fill") /\ UNCHANGED <<op, at, buf>>
    <3>1. CallOK("fill", op[t]) /\ IndexOK("fill", at[t]) /\ "fill" \in Labels \ {"idle", "print"}
      BY <1>1, <1>2, <2>4 DEF CallOK, IndexOK, Labels
    <3>2. QED
      BY <1>1, <1>2, <2>4, <3>1, LabelTypes
  <2>5. QED
    BY <2>1, <2>2, <2>3, <2>4 DEF persist_find_file
<1>4. FileTypes'
  BY <1>1, <1>3 DEF FileTypes
<1>5. QED
  BY <1>1, <1>3, <1>4

\* A new entry, in its two steps: it lies in the array.
LEMMA AddTypes ==
  ASSUME TypeInv, NEW t \in Threads, add_metadata_entry(t)
  PROVE  TypeInv'
<1> USE DEF TypeInv
<1>1. pc[t] \in {"fill", "fields"} /\ count < MaxFiles /\ count \in Nat /\ op[t] \in Requests /\ op[t].kind = "add"
      /\ op[t].file \in Files
  BY BoundAssumption DEF add_metadata_entry, ThreadTypes, TableTypes, CallOK, Requests
<1>2. count + 1 \in 1 .. MaxFiles /\ slots[count + 1] \in Entries
  BY <1>1, BoundAssumption DEF TableTypes
<1>3. op' = op /\ at' = at /\ buf' = buf /\ disk' = disk /\ stored' = stored /\ HistTypes'
  BY DEF add_metadata_entry, HistTypes
<1>4. \A label \in {"fields", "open"} :
        label \in Labels \ {"idle", "print"} /\ CallOK(label, op[t]) /\ IndexOK(label, at[t])
  BY <1>1 DEF Labels, CallOK, IndexOK
<1>5. PICK label \in {"fields", "open"} : Goto(t, label)
  BY DEF add_metadata_entry
<1>6. ThreadTypes' /\ buf' \in [Threads -> Seq(Lines)]
      /\ \A s \in Threads : BufOK(pc'[s], at'[s], buf'[s])
  BY <1>1, <1>3, <1>4, <1>5, LabelTypes
<1>7. CASE pc[t] = "fill"
  <2>1. slots' = [slots EXCEPT ![count + 1].name = op[t].file] /\ count' = count
    BY <1>7 DEF add_metadata_entry
  <2>2. TableTypes'
    BY <1>1, <1>2, <2>1 DEF TableTypes, Entries, Names
  <2>3. QED
    BY <1>3, <1>6, <2>2 DEF FileTypes
<1>8. CASE pc[t] = "fields"
  <2>1. slots' = [slots EXCEPT ![count + 1] = [@ EXCEPT !.owner = None, !.n = 0]] /\ count' = count + 1
    BY <1>2, <1>8 DEF add_metadata_entry, TableTypes
  <2>2. [slots[count + 1] EXCEPT !.owner = None, !.n = 0] \in Entries
    BY <1>2 DEF Entries, Owners
  <2>3. TableTypes'
    BY <1>1, <1>2, <2>1, <2>2 DEF TableTypes
  <2>4. QED
    BY <1>3, <1>6, <2>3 DEF FileTypes
<1>9. QED
  BY <1>1, <1>7, <1>8

\* An entry moves down or file_count falls, not below 0.
LEMMA RemoveTypes ==
  ASSUME TypeInv, NEW t \in Threads, remove_metadata_entry(t)
  PROVE  TypeInv'
<1> USE DEF TypeInv
<1>1. pc[t] = "shift" /\ count \in 0 .. MaxFiles /\ at[t] \in 1 .. MaxFiles + 1
      /\ op[t] \in Requests /\ op[t].kind = "remove" /\ MaxFiles \in Nat
      /\ buf[t] \in Seq(Lines) /\ Len(buf[t]) = 0
  BY BoundAssumption
  DEF remove_metadata_entry, ThreadTypes, TableTypes, FileTypes, IndexOK, CallOK, BufOK
<1>3. op' = op /\ buf' = buf /\ disk' = disk /\ stored' = stored /\ HistTypes'
  BY DEF remove_metadata_entry, HistTypes
<1>4. CASE at[t] < count
  <2>1. /\ slots' = [slots EXCEPT ![at[t]] = slots[at[t] + 1]]
        /\ at' = [at EXCEPT ![t] = at[t] + 1] /\ count' = count /\ pc' = pc
    BY <1>4 DEF remove_metadata_entry, ThreadTypes
  <2>2. at[t] \in 1 .. MaxFiles /\ at[t] + 1 \in 1 .. MaxFiles /\ at[t] + 1 <= count
    BY <1>1, <1>4
  <2>3. TableTypes'
    BY <2>1, <2>2 DEF TableTypes
  <2>4. pc' = [pc EXCEPT ![t] = "shift"] /\ buf' = [buf EXCEPT ![t] = buf[t]]
        /\ at[t] + 1 \in 1 .. MaxFiles + 1
    BY <1>1, <1>3, <2>1, <2>2 DEF ThreadTypes, FileTypes
  <2>5. "shift" \in Labels \ {"idle"} /\ CallOK("shift", op[t]) /\ IndexOK("shift", at[t] + 1)
        /\ BufOK("shift", at[t] + 1, buf[t])
    BY <1>1, <2>1, <2>2 DEF Labels, CallOK, IndexOK, BufOK
  <2>6. ThreadTypes' /\ buf' \in [Threads -> Seq(Lines)]
        /\ \A s \in Threads : BufOK(pc'[s], at'[s], buf'[s])
    BY <1>1, <1>3, <2>1, <2>4, <2>5, GotoTypes
  <2>7. QED
    BY <1>3, <2>3, <2>6 DEF FileTypes
<1>5. CASE ~(at[t] < count)
  <2>1. slots' = slots /\ count > 0 /\ count' = count - 1 /\ Goto(t, "open") /\ at' = at
    BY <1>5 DEF remove_metadata_entry
  <2>2. TableTypes'
    BY <1>1, <2>1 DEF TableTypes
  <2>3. "open" \in Labels \ {"idle", "print"} /\ CallOK("open", op[t]) /\ IndexOK("open", at[t])
    BY <1>1 DEF Labels, CallOK, IndexOK
  <2>4. ThreadTypes' /\ buf' \in [Threads -> Seq(Lines)]
        /\ \A s \in Threads : BufOK(pc'[s], at'[s], buf'[s])
    BY <1>1, <1>3, <2>1, <2>3, LabelTypes
  <2>5. QED
    BY <1>3, <2>2, <2>4 DEF FileTypes
<1>6. QED
  BY <1>4, <1>5

LEMMA OwnerTypes ==
  ASSUME TypeInv, NEW t \in Threads, persist_set_owner(t)
  PROVE  TypeInv'
<1> USE DEF TypeInv
<1>1. pc[t] = "change" /\ at[t] \in 1 .. MaxFiles /\ op[t] \in Requests
  BY BoundAssumption DEF persist_set_owner, ThreadTypes, IndexOK, CallOK
<1>2. TableTypes' /\ count' = count
  BY <1>1 DEF persist_set_owner, Rest, TableTypes, Entries, Requests, Owners
<1>3. "open" \in Labels \ {"idle", "print"} /\ CallOK("open", op[t]) /\ IndexOK("open", at[t])
  BY <1>1 DEF Labels, CallOK, IndexOK
<1>4. Goto(t, "open") /\ op' = op /\ at' = at /\ buf' = buf /\ disk' = disk /\ stored' = stored
      /\ HistTypes'
  BY DEF persist_set_owner, Rest, HistTypes
<1>5. ThreadTypes' /\ buf' \in [Threads -> Seq(Lines)]
      /\ \A s \in Threads : BufOK(pc'[s], at'[s], buf'[s])
  BY <1>1, <1>2, <1>3, <1>4, LabelTypes
<1>6. QED
  BY <1>2, <1>4, <1>5 DEF FileTypes

\* persist_set_acl writes inside the array and inside the list.
LEMMA GrantTypes ==
  ASSUME TypeInv, NEW t \in Threads, persist_set_acl(t)
  PROVE  TypeInv'
<1> USE DEF TypeInv
<1> DEFINE e == slots[at[t]]
           u == op[t].user
<1>1. pc[t] \in {"change", "append", "count"} /\ op[t].kind = "grant"
  BY DEF persist_set_acl
<1>2. at[t] \in 1 .. MaxFiles /\ op[t] \in Requests /\ e \in Entries /\ u \in Users
  BY <1>1, BoundAssumption DEF ThreadTypes, TableTypes, IndexOK, CallOK, Requests
<1>3. count' = count /\ disk' = disk /\ stored' = stored /\ HistTypes'
  BY DEF persist_set_acl, HistTypes, history
<1>4. \A label \in {"append", "count", "open"} :
        /\ label \in Labels \ {"idle", "print"}
        /\ CallOK(label, op[t]) /\ IndexOK(label, at[t])
  BY <1>1, <1>2, BoundAssumption DEF Labels, CallOK, IndexOK
<1>5. CASE pc[t] = "change" /\ Goto(t, IF Listed(e, u) = {} THEN "append" ELSE "open")
           /\ UNCHANGED <<slots, op, at, buf>>
  <2>1. PICK label \in {"append", "open"} : Goto(t, label)
    BY <1>5
  <2>2. ThreadTypes' /\ buf' \in [Threads -> Seq(Lines)]
        /\ \A s \in Threads : BufOK(pc'[s], at'[s], buf'[s])
    BY <1>3, <1>4, <1>5, <2>1, LabelTypes
  <2>3. QED
    BY <1>3, <1>5, <2>2 DEF FileTypes, TableTypes
<1>6. CASE pc[t] = "append" /\ e.n < MaxAcl /\ slots' = [slots EXCEPT ![at[t]].acl[e.n + 1] = u]
           /\ Goto(t, "count") /\ UNCHANGED <<op, at, buf>>
  <2>1. e.n + 1 \in 1 .. MaxAcl /\ u \in Listable
    BY <1>2, <1>6, BoundAssumption DEF Entries, Listable
  <2>2. [e EXCEPT !.acl[e.n + 1] = u] \in Entries
    BY <1>2, <2>1 DEF Entries
  <2>3. slots' = [slots EXCEPT ![at[t]] = [e EXCEPT !.acl[e.n + 1] = u]]
    BY <1>6
  <2>4. TableTypes'
    BY <1>2, <1>3, <2>2, <2>3 DEF TableTypes
  <2>5. ThreadTypes' /\ buf' \in [Threads -> Seq(Lines)]
        /\ \A s \in Threads : BufOK(pc'[s], at'[s], buf'[s])
    BY <1>3, <1>4, <1>6, LabelTypes
  <2>6. QED
    BY <1>3, <1>6, <2>4, <2>5 DEF FileTypes
<1>7. CASE pc[t] = "append" /\ Done(t) /\ UNCHANGED slots
  <2>1. ThreadTypes' /\ buf' \in [Threads -> Seq(Lines)]
        /\ \A s \in Threads : BufOK(pc'[s], at'[s], buf'[s])
    BY <1>3, <1>7, DoneTypes
  <2>2. QED
    BY <1>3, <1>7, <2>1 DEF FileTypes, TableTypes
<1>8. CASE pc[t] = "count" /\ slots' = [slots EXCEPT ![at[t]].n = @ + 1]
           /\ Goto(t, "open") /\ UNCHANGED <<op, at, buf>>
  <2>1. TableTypes'
    BY <1>2, <1>3, <1>8 DEF TableTypes, Entries
  <2>2. ThreadTypes' /\ buf' \in [Threads -> Seq(Lines)]
        /\ \A s \in Threads : BufOK(pc'[s], at'[s], buf'[s])
    BY <1>3, <1>4, <1>8, LabelTypes
  <2>3. QED
    BY <1>3, <1>8, <2>1, <2>2 DEF FileTypes
<1>9. QED
  BY <1>5, <1>6, <1>7, <1>8 DEF persist_set_acl

\* The entry that persist_remove_acl looks for: the first of the user's, inside the array.
LEMMA FirstListed ==
  ASSUME NEW e \in Entries, NEW u \in Users, Listed(e, u) # {}
  PROVE  LET first == CHOOSE j \in Listed(e, u) : \A k \in Listed(e, u) : j <= k IN
         /\ first \in Listed(e, u) /\ first \in 1 .. MaxAcl /\ first <= e.n /\ e.acl[first] = u
         /\ e.n \in Nat \ {0}
<1> DEFINE L == Listed(e, u)
<1>1. L \subseteq Nat /\ \A j \in L : j \in 1 .. MaxAcl /\ j <= e.n /\ e.acl[j] = u
  BY NamesAssumption, BoundAssumption DEF Listed, Acl, Entries
<1>2. \E j \in L : \A k \in L : j <= k
  <2> DEFINE R == OpToRel(<, Nat)
  <2>1. \A x, y \in Nat : y < x => <<y, x>> \in R
    BY Zenon DEF OpToRel
  <2>2. IsWellFoundedOn(R, Nat)
    BY Zenon, NatLessThanWellFounded
  <2> HIDE DEF R, L
  <2>3. PICK x \in L : \A y \in L : ~(<<y, x>> \in R)
    BY <1>1, <2>2, WFMin DEF L
  <2>4. \A y \in L : x \in Nat /\ y \in Nat /\ ~(y < x)
    BY <1>1, <2>1, <2>3
  <2>5. QED
    BY <2>4
<1> DEFINE first == CHOOSE j \in L : \A k \in L : j <= k
<1> HIDE DEF L
<1>3. first \in L
  BY <1>2, Zenon
<1> HIDE DEF first
<1>4. first \in 1 .. MaxAcl /\ first <= e.n /\ e.acl[first] = u /\ e.n \in Nat \ {0}
  BY <1>1, <1>3, BoundAssumption DEF Entries
<1>5. QED
  BY <1>3, <1>4 DEF L, first

\* persist_remove_acl writes inside the array and inside the list.
LEMMA RevokeTypes ==
  ASSUME TypeInv, NEW t \in Threads, persist_remove_acl(t)
  PROVE  TypeInv'
<1> USE DEF TypeInv
<1> DEFINE e == slots[at[t]]
           u == op[t].user
<1>1. pc[t] = "change" /\ op[t].kind = "revoke"
  BY DEF persist_remove_acl
<1>2. at[t] \in 1 .. MaxFiles /\ op[t] \in Requests /\ e \in Entries /\ u \in Users
  BY <1>1, BoundAssumption DEF ThreadTypes, TableTypes, IndexOK, CallOK, Requests
<1>3. count' = count /\ disk' = disk /\ stored' = stored /\ HistTypes'
  BY DEF persist_remove_acl, HistTypes, history
<1>4. CASE Done(t) /\ UNCHANGED slots
  <2>1. ThreadTypes' /\ buf' \in [Threads -> Seq(Lines)]
        /\ \A s \in Threads : BufOK(pc'[s], at'[s], buf'[s])
    BY <1>3, <1>4, DoneTypes
  <2>2. QED
    BY <1>3, <1>4, <2>1 DEF FileTypes, TableTypes
<1>5. CASE Listed(e, u) # {} /\ Goto(t, "open")
  <2> DEFINE first == CHOOSE j \in Listed(e, u) : \A k \in Listed(e, u) : j <= k
             new == [name |-> e.name, owner |-> e.owner, n |-> e.n - 1,
                     acl |-> [e.acl EXCEPT ![first] = Acl(e, e.n)]]
  <2>1. first \in 1 .. MaxAcl /\ e.n \in Nat \ {0}
    BY <1>2, <1>5, FirstListed
  <2>2. slots' = [slots EXCEPT ![at[t]] = new] /\ op' = op /\ at' = at /\ buf' = buf
    BY <1>5 DEF persist_remove_acl, Done, Goto, ThreadTypes
  <2> HIDE DEF first
  <2>3. Acl(e, e.n) \in Listable
    BY <1>2, <2>1, PrintedType
  <2>4. new \in Entries
    BY <1>2, <2>1, <2>3 DEF Entries
  <2>5. TableTypes'
    BY <1>2, <1>3, <2>2, <2>4 DEF TableTypes
  <2>6. "open" \in Labels \ {"idle", "print"} /\ CallOK("open", op[t]) /\ IndexOK("open", at[t])
    BY <1>2 DEF Labels, CallOK, IndexOK
  <2>7. ThreadTypes' /\ buf' \in [Threads -> Seq(Lines)]
        /\ \A s \in Threads : BufOK(pc'[s], at'[s], buf'[s])
    BY <1>1, <1>3, <1>5, <2>2, <2>6, LabelTypes
  <2>8. QED
    BY <1>3, <2>2, <2>5, <2>7 DEF FileTypes
<1>6. QED
  BY <1>4, <1>5 DEF persist_remove_acl

\* What a stream leaves in the file are lines.
LEMMA OverType ==
  ASSUME disk \in Seq(Lines), NEW lines \in Seq(Lines), NEW d \in Over(lines)
  PROVE  d \in Seq(Lines)
<1> DEFINE tail == SubSeq(disk, Len(lines) + 1, Len(disk))
<1>1. tail \in Seq(Lines)
  <2>1. Len(lines) \in Nat /\ Len(disk) \in Nat
    OBVIOUS
  <2>2. \A i \in Len(lines) + 1 .. Len(disk) : disk[i] \in Lines
    BY <2>1
  <2>3. QED
    BY <2>1, <2>2, SubSeqProperties
<1> HIDE DEF tail
<1>2. Blank \in Entries
  BY BoundAssumption DEF Blank, Entries, Names, Owners, Listable
<1>3. \A c \in {"fields", "middle"} : Line(Printed(Blank), c) \in Lines
  BY <1>2, PrintedType DEF Cuts
<1>4. \/ d = lines \/ d = lines \o tail
      \/ \E c \in {"fields", "middle"} : d = lines \o <<Line(Printed(Blank), c)>> \o tail
  BY DEF Over, tail
<1>5. lines \o tail \in Seq(Lines)
  BY <1>1, ConcatProperties
<1>6. ASSUME NEW c \in {"fields", "middle"} PROVE lines \o <<Line(Printed(Blank), c)>> \o tail \in Seq(Lines)
  <2>1. <<Line(Printed(Blank), c)>> \in Seq(Lines)
    BY <1>3
  <2>2. lines \o <<Line(Printed(Blank), c)>> \in Seq(Lines)
    BY <2>1, ConcatProperties
  <2>3. QED
    BY <1>1, <2>2, ConcatProperties
<1>7. QED
  BY <1>4, <1>5, <1>6

LEMMA OpenTypes ==
  ASSUME TypeInv, NEW t \in Threads, SaveOpen(t)
  PROVE  TypeInv'
<1> USE DEF TypeInv
<1>1. pc[t] = "open" /\ op[t] \in Requests /\ buf[t] \in Seq(Lines) /\ Len(buf[t]) = 0
  BY DEF SaveOpen, ThreadTypes, FileTypes, CallOK, BufOK
<1>2. /\ pc' = [pc EXCEPT ![t] = "print"] /\ op' = op /\ at' = [at EXCEPT ![t] = 1]
      /\ buf' = [buf EXCEPT ![t] = buf[t]] /\ count' = count /\ disk' = <<>>
      /\ TableTypes' /\ HistTypes' /\ stored' = stored
  BY DEF SaveOpen, Goto, tableVars, history, FileTypes, TableTypes, HistTypes
<1>3. "print" \in Labels \ {"idle"} /\ 1 \in 1 .. MaxFiles + 1 /\ CallOK("print", op[t])
      /\ IndexOK("print", 1) /\ BufOK("print", 1, buf[t])
  BY <1>1, BoundAssumption DEF Labels, CallOK, IndexOK, BufOK
<1>4. ThreadTypes' /\ buf' \in [Threads -> Seq(Lines)]
      /\ \A s \in Threads : BufOK(pc'[s], at'[s], buf'[s])
  BY <1>1, <1>2, <1>3, GotoTypes
<1>5. <<>> \in Seq(Lines)
  OBVIOUS
<1>6. QED
  BY <1>2, <1>4, <1>5 DEF FileTypes

\* A printed entry is a line.
LEMMA PrintTypes ==
  ASSUME TypeInv, NEW t \in Threads, SavePrint(t)
  PROVE  TypeInv'
<1> USE DEF TypeInv
<1> DEFINE line == Line(Printed(slots[at[t]]), "whole")
<1>1. pc[t] = "print" /\ op[t] \in Requests /\ buf[t] \in Seq(Lines) /\ Len(buf[t]) = at[t] - 1
      /\ at[t] \in 1 .. MaxFiles + 1 /\ at[t] <= count /\ count \in 0 .. MaxFiles /\ MaxFiles \in Nat
  BY BoundAssumption DEF SavePrint, ThreadTypes, FileTypes, TableTypes, CallOK, BufOK
<1>2. line \in Lines
  <2>1. slots[at[t]] \in Entries
    BY <1>1 DEF TableTypes
  <2>2. QED
    BY <2>1, PrintedType DEF Cuts
<1> HIDE DEF line
<1>3. /\ pc' = [pc EXCEPT ![t] = "print"] /\ op' = op /\ at' = [at EXCEPT ![t] = at[t] + 1]
      /\ buf' = [buf EXCEPT ![t] = Append(buf[t], line)] /\ count' = count /\ disk' = disk
      /\ TableTypes' /\ HistTypes' /\ stored' = stored
  BY <1>1 DEF SavePrint, tableVars, history, ThreadTypes, FileTypes, TableTypes, HistTypes, line
<1>4. Append(buf[t], line) \in Seq(Lines) /\ Len(Append(buf[t], line)) = at[t]
  BY <1>1, <1>2
<1>5. "print" \in Labels \ {"idle"} /\ at[t] + 1 \in 1 .. MaxFiles + 1 /\ CallOK("print", op[t])
      /\ IndexOK("print", at[t] + 1) /\ BufOK("print", at[t] + 1, Append(buf[t], line))
  BY <1>1, <1>4 DEF Labels, CallOK, IndexOK, BufOK
<1>6. ThreadTypes' /\ buf' \in [Threads -> Seq(Lines)]
      /\ \A s \in Threads : BufOK(pc'[s], at'[s], buf'[s])
  BY <1>1, <1>3, <1>4, <1>5, GotoTypes
<1>7. QED
  BY <1>3, <1>6 DEF FileTypes

\* A cut in the last line.
LEMMA CutLine ==
  ASSUME NEW b \in Seq(Lines), Len(b) > 0, NEW c \in CutsOf(b[Len(b)].entry) \cup {"whole"}
  PROVE  /\ [b EXCEPT ![Len(b)].cut = c] \in Seq(Lines)
         /\ Len([b EXCEPT ![Len(b)].cut = c]) = Len(b)
         /\ \A i \in 1 .. Len(b) :
              /\ [b EXCEPT ![Len(b)].cut = c][i].entry = b[i].entry
              /\ i < Len(b) => [b EXCEPT ![Len(b)].cut = c][i] = b[i]
              /\ i = Len(b) => [b EXCEPT ![Len(b)].cut = c][i].cut = c
<1>1. Len(b) \in 1 .. Len(b) /\ b[Len(b)] \in Lines /\ \A i \in 1 .. Len(b) : b[i] \in Lines
  OBVIOUS
<1>2. c \in Cuts
  BY DEF CutsOf, Cuts
<1> DEFINE new == [b[Len(b)] EXCEPT !.cut = c]
<1>3. new \in Lines /\ new.entry = b[Len(b)].entry /\ new.cut = c
  BY <1>1, <1>2 DEF Lines
<1>4. [b EXCEPT ![Len(b)].cut = c] = [b EXCEPT ![Len(b)] = new]
  OBVIOUS
<1> HIDE DEF new
<1>5. QED
  BY <1>1, <1>3, <1>4

\* A flush writes lines, the last perhaps cut.
LEMMA FlushTypes ==
  ASSUME TypeInv, NEW t \in Threads, SaveFlush(t)
  PROVE  TypeInv'
<1> USE DEF TypeInv
<1>1. UNCHANGED <<tableVars, pc, op, at, buf, wild, ops, restarts, history>>
  BY DEF SaveFlush
<1>2. buf[t] \in Seq(Lines) /\ disk \in Seq(Lines) /\ Len(buf[t]) > 0
  BY DEF SaveFlush, FileTypes
<1>3. PICK c \in CutsOf(buf[t][Len(buf[t])].entry) \cup {"whole"} :
        disk' \in Over([buf[t] EXCEPT ![Len(buf[t])].cut = c])
  BY DEF SaveFlush
<1>4. disk' \in Seq(Lines)
  BY <1>2, <1>3, CutLine, OverType
<1>5. QED
  BY <1>1, <1>4 DEF TableTypes, ThreadTypes, FileTypes, HistTypes, tableVars, history

\* fclose writes lines and ends the operation.
LEMMA CloseTypes ==
  ASSUME TypeInv, NEW t \in Threads, SaveClose(t)
  PROVE  TypeInv'
<1> USE DEF TypeInv
<1>1. disk' \in Over(buf[t]) /\ Done(t) /\ UNCHANGED <<slots, count>>
      /\ stored' = (IF t \in solo THEN Table ELSE stored) /\ solo' = solo
      /\ kept' \in BOOLEAN /\ raced' = raced /\ sound' = sound
      /\ wild' = wild /\ torn' = torn /\ hand' = hand
  BY DEF SaveClose, tableVars
<1>2. disk' \in Seq(Lines)
  BY <1>1, OverType DEF FileTypes
<1>3. ThreadTypes' /\ buf' \in [Threads -> Seq(Lines)]
      /\ \A s \in Threads : BufOK(pc'[s], at'[s], buf'[s])
  BY <1>1, DoneTypes
<1>4. TableTypes' /\ HistTypes'
  BY <1>1 DEF TableTypes, HistTypes
<1>5. stored' \in Seq(Rows)
  BY <1>1, TableType DEF FileTypes
<1>6. QED
  BY <1>2, <1>3, <1>4, <1>5 DEF FileTypes

\* The entry that load_metadata makes of a row is printed as that row.
Entry(e) == [name |-> e.name, owner |-> e.owner, n |-> Len(e.acl),
             acl |-> [j \in 1 .. MaxAcl |-> IF j <= Len(e.acl) THEN e.acl[j] ELSE None]]
LEMMA EntryType ==
  ASSUME NEW r \in ReadRows
  PROVE  /\ Entry(r) \in Entries /\ Printed(Entry(r)) = r /\ Entry(r).n = Len(r.acl) /\ Entry(r).n <= MaxAcl
         /\ Entry(r).name = r.name /\ Entry(r).owner = r.owner
         /\ \A j \in 1 .. Len(r.acl) : j \in 1 .. MaxAcl /\ Entry(r).acl[j] = r.acl[j]
<1>1. r.acl \in Seq(Listable) /\ Len(r.acl) \in Nat /\ Len(r.acl) <= MaxAcl /\ MaxAcl \in Nat
      /\ r = [name |-> r.name, owner |-> r.owner, acl |-> r.acl] /\ r.name \in Names /\ r.owner \in Owners
  BY BoundAssumption DEF ReadRows, Rows
<1> DEFINE a == [j \in 1 .. MaxAcl |-> IF j <= Len(r.acl) THEN r.acl[j] ELSE None]
<1>2. a \in [1 .. MaxAcl -> Listable]
  BY <1>1 DEF Listable
<1>3. \A j \in 1 .. Len(r.acl) : j \in 1 .. MaxAcl /\ a[j] = r.acl[j]
  BY <1>1
<1>4. Entry(r) = [name |-> r.name, owner |-> r.owner, n |-> Len(r.acl), acl |-> a]
  BY DEF Entry
<1> HIDE DEF a
<1>5. Entry(r) \in Entries
  BY <1>1, <1>2, <1>4 DEF Entries
<1>6. [j \in 1 .. Len(r.acl) |-> Acl(Entry(r), j)] = r.acl
  <2>1. \A j \in 1 .. Len(r.acl) : Acl(Entry(r), j) = r.acl[j]
    BY <1>1, <1>3, <1>4 DEF Acl
  <2>2. QED
    BY <1>1, <2>1
<1>7. Printed(Entry(r)) = r
  BY <1>1, <1>4, <1>6 DEF Printed
<1>8. QED
  BY <1>1, <1>3, <1>4, <1>5, <1>7

\* Restart, with its local definition replaced by Entry.
LEMMA RestartStep ==
  ASSUME Restart
  PROVE  LET l == Loaded(disk) IN
         /\ slots' = [i \in 1 .. MaxFiles |-> IF i <= Len(l) THEN Entry(l[i]) ELSE Blank]
         /\ count' = Len(l)
         /\ pc' = [t \in Threads |-> "idle"] /\ op' = [t \in Threads |-> Nobody]
         /\ at' = [t \in Threads |-> 1] /\ buf' = [t \in Threads |-> <<>>]
         /\ books' = [f \in {l[i].name : i \in DOMAIN l} |-> l[CHOOSE i \in DOMAIN l : l[i].name = f].owner]
         /\ asked' = UNION {{<<l[i].name, l[i].acl[j]>> : j \in DOMAIN l[i].acl} : i \in DOMAIN l}
         /\ sound' = (sound /\ kept /\ ~torn) /\ torn' = FALSE /\ wild' = FALSE /\ hand' = NS
         /\ raced' = (\E i \in DOMAIN l : ~IsInjective(l[i].acl))
         /\ solo' = {} /\ kept' = TRUE /\ stored' = l /\ disk' = disk
  BY Zenon DEF Restart, Entry

\* What is loaded fits the table.
LEMMA RestartTypes ==
  ASSUME TypeInv, Restart
  PROVE  TypeInv'
<1> USE DEF TypeInv
<1> DEFINE l == Loaded(disk)
<1>1. l \in Seq(ReadRows) /\ Len(l) <= MaxFiles
  BY LoadedType DEF FileTypes
<1>2. /\ slots' = [i \in 1 .. MaxFiles |-> IF i <= Len(l) THEN Entry(l[i]) ELSE Blank]
      /\ count' = Len(l)
      /\ pc' = [t \in Threads |-> "idle"] /\ op' = [t \in Threads |-> Nobody]
      /\ at' = [t \in Threads |-> 1] /\ buf' = [t \in Threads |-> <<>>]
      /\ sound' = (sound /\ kept /\ ~torn) /\ raced' \in BOOLEAN
      /\ torn' = FALSE /\ wild' = FALSE /\ hand' = NS
      /\ solo' = {} /\ kept' = TRUE /\ stored' = l /\ disk' = disk
  BY RestartStep
<1> HIDE DEF l
<1>3. Blank \in Entries
  BY BoundAssumption DEF Blank, Entries, Names, Owners, Listable
<1>4. TableTypes'
  <2>1. Len(l) \in 0 .. MaxFiles
    BY <1>1, BoundAssumption
  <2>2. \A i \in 1 .. MaxFiles : i <= Len(l) => l[i] \in ReadRows
    BY <1>1, <2>1
  <2>3. \A i \in 1 .. MaxFiles : i <= Len(l) => Entry(l[i]) \in Entries
    BY <2>2, EntryType
  <2>4. QED
    BY <1>2, <1>3, <2>1, <2>3 DEF TableTypes
<1>5. 1 \in 1 .. MaxFiles + 1 /\ <<>> \in Seq(Lines) /\ Len(<<>>) = 0
  BY BoundAssumption
<1>6. ThreadTypes'
  BY <1>2, <1>5 DEF ThreadTypes, Labels, CallOK, IndexOK
<1>7. l \in Seq(Rows)
  BY <1>1 DEF ReadRows
<1>8. FileTypes'
  BY <1>2, <1>5, <1>7 DEF FileTypes, BufOK
<1>9. HistTypes'
  BY <1>2, ThreadsAssumption DEF HistTypes
<1>10. QED
  BY <1>4, <1>6, <1>8, <1>9

\* Every step keeps the types.
LEMMA TypeStep == TypeInv /\ [Next]_vars => TypeInv'
<1> SUFFICES ASSUME TypeInv, [Next]_vars PROVE TypeInv'
  OBVIOUS
<1>1. CASE Restart
  BY <1>1, RestartTypes
<1>2. ASSUME NEW t \in Threads, \E o \in Requests : Begin(t, o) PROVE TypeInv'
  BY <1>2, BeginTypes
<1>3. ASSUME NEW t \in Threads, \/ persist_find_file(t) \/ add_metadata_entry(t)
                                \/ remove_metadata_entry(t) \/ persist_set_owner(t)
                                \/ persist_set_acl(t) \/ persist_remove_acl(t)
      PROVE  TypeInv'
  BY <1>3, FindTypes, AddTypes, RemoveTypes, OwnerTypes, GrantTypes, RevokeTypes
<1>4. ASSUME NEW t \in Threads, save_metadata(t) PROVE TypeInv'
  BY <1>4, OpenTypes, PrintTypes, FlushTypes, CloseTypes DEF save_metadata
<1>5. CASE UNCHANGED <<tableVars, disk, pc, op, at, buf, ops, restarts, history>> /\ wild' \in BOOLEAN
  BY <1>5 DEF tableVars, history, TypeInv, TableTypes, ThreadTypes, FileTypes, HistTypes
<1>6. QED
  BY <1>1, <1>2, <1>3, <1>4, <1>5 DEF Next, vars, OutOfBounds, TypeInv, HistTypes

-----------------------------------------------------------------------------
(* One thread changes names and owners *)

LEMMA SoleInit == Init => SoleInv
  BY ThreadsAssumption DEF Init, SoleInv, Active

\* A step of one thread that neither begins an operation nor changes file_count.
LEMMA SoleFrame ==
  ASSUME TypeInv, SoleInv, NEW t \in Threads, pc[t] # "idle",
         \A s \in Threads : s # t => pc'[s] = pc[s] /\ op'[s] = op[s] /\ at'[s] = at[s],
         pc'[t] = "idle" \/ op'[t] = op[t],
         count' = count, hand' = hand, torn' = torn, raced' = raced, wild' = wild,
         pc'[t] \in {"fill", "fields"} => pc[t] \in {"fill", "fields"} \/ count < MaxFiles,
         pc'[t] = "shift" => at'[t] <= count
  PROVE  SoleInv'
<1>1. \A s \in Active' : s \in Active /\ op'[s] = op[s]
  BY DEF Active
<1>2. hand \in Threads
  BY DEF TypeInv, HistTypes
<1>3. ~torn /\ pc'[hand] \in {"fill", "fields"} => count < MaxFiles
  BY <1>2 DEF SoleInv
<1>4. ~torn /\ pc'[hand] = "shift" => at'[hand] <= count
  BY <1>2 DEF SoleInv
<1>5. QED
  BY <1>1, <1>3, <1>4 DEF SoleInv

\* A command begins: it is the only one of its kind, or torn says so.
LEMMA BeginSole ==
  ASSUME TypeInv, SoleInv, NEW t \in Threads, NEW o \in Requests, Begin(t, o)
  PROVE  SoleInv'
<1>1. /\ pc' = [pc EXCEPT ![t] = "find"] /\ op' = [op EXCEPT ![t] = o] /\ at' = at /\ pc[t] = "idle"
      /\ count' = count /\ wild' = wild
      /\ raced' = (raced \/ \E s \in Active : Overtakes(o, op[s]))
      /\ torn' = (torn \/ \E s \in Active : Collides(o, op[s]))
      /\ hand' = IF o.kind \in Naming THEN t ELSE hand
  BY DEF Begin, Goto, tableVars
<1>2. /\ pc'[t] = "find" /\ op'[t] = o /\ hand \in Threads
      /\ \A s \in Threads : s # t => pc'[s] = pc[s] /\ op'[s] = op[s]
  BY <1>1 DEF TypeInv, ThreadTypes, HistTypes
<1>3. Active' = Active \cup {t} /\ t \notin Active
  BY <1>1, <1>2 DEF Active
<1>4. torn' => raced'
  BY <1>1 DEF SoleInv, Overtakes
<1>5. ASSUME ~torn'
      PROVE  /\ \A s \in Active' : op'[s].kind \in Naming => s = hand'
             /\ pc'[hand'] \in {"fill", "fields"} => count' < MaxFiles
             /\ pc'[hand'] = "shift" => at'[hand'] <= count'
  <2>1. ~torn /\ \A s \in Active : ~Collides(o, op[s])
    BY <1>1, <1>5
  <2>2. \A s \in Active : s # t /\ op'[s] = op[s]
    BY <1>2, <1>3 DEF Active
  <2>3. CASE o.kind \in Naming
    <3>1. hand' = t /\ \A s \in Active : op[s].kind \notin Naming
      BY <1>1, <2>1, <2>3 DEF Collides
    <3>2. QED
      BY <1>2, <1>3, <2>2, <3>1
  <2>4. CASE o.kind \notin Naming
    <3>1. hand' = hand
      BY <1>1, <2>4
    <3>2. \A s \in Active' : op'[s].kind \in Naming => s = hand'
      BY <1>2, <1>3, <2>1, <2>2, <2>4, <3>1 DEF SoleInv
    <3>3. QED
      BY <1>1, <1>2, <2>1, <3>1, <3>2 DEF SoleInv
  <2>5. QED
    BY <2>3, <2>4
<1>6. QED
  BY <1>1, <1>4, <1>5 DEF SoleInv

\* A step of one thread that leaves the others where they are.
Alone(t) ==
  \A s \in Threads : s # t => pc'[s] = pc[s] /\ op'[s] = op[s] /\ at'[s] = at[s]

\* A search: a new entry has room when it is tested, a removal begins inside the table.
LEMMA FindSole ==
  ASSUME TypeInv, SoleInv, NEW t \in Threads, persist_find_file(t)
  PROVE  SoleInv'
<1>1. /\ pc \in [Threads -> Labels] /\ op \in [Threads -> Requests \cup {Nobody}]
      /\ at \in [Threads -> 1 .. MaxFiles + 1] /\ pc[t] = "find" /\ count \in Nat
  BY DEF TypeInv, ThreadTypes, TableTypes, persist_find_file
<1>2. /\ count' = count /\ hand' = hand /\ torn' = torn /\ raced' = raced /\ wild' = wild
  BY DEF persist_find_file, tableVars, history
<1>3. Alone(t) /\ (pc'[t] = "idle" \/ op'[t] = op[t])
  BY <1>1 DEF persist_find_file, Alone, Done, Goto
<1>4. \A k : Then(k) \in {"shift", "open", "change"}
  <2> TAKE k
  <2>1. CASE k = "remove"
    BY <2>1 DEF Then
  <2>2. CASE k = "touch"
    BY <2>2 DEF Then
  <2>3. CASE k # "remove" /\ k # "touch"
    BY <2>3 DEF Then
  <2>4. QED
    BY <2>1, <2>2, <2>3
<1>5. pc'[t] \in {"fill", "fields"} => count < MaxFiles
  BY <1>1, <1>4 DEF persist_find_file, Done, Goto
<1>6. pc'[t] = "shift" => at'[t] <= count
  BY <1>1 DEF persist_find_file, Done, Goto
<1>7. QED
  BY <1>1, <1>2, <1>3, <1>5, <1>6, SoleFrame DEF Alone

\* The steps of the one thread that change file_count, or would leave the array.
LEMMA NamingSole ==
  ASSUME TypeInv, SoleInv, NEW t \in Threads,
         add_metadata_entry(t) \/ remove_metadata_entry(t) \/ OutOfBounds(t)
  PROVE  SoleInv'
<1>1. /\ pc \in [Threads -> Labels] /\ op \in [Threads -> Requests \cup {Nobody}]
      /\ at \in [Threads -> 1 .. MaxFiles + 1] /\ pc[t] \in {"fill", "fields", "shift"}
      /\ count \in Nat /\ hand \in Threads /\ MaxFiles \in Nat /\ count <= MaxFiles
  BY BoundAssumption
  DEF TypeInv, ThreadTypes, TableTypes, HistTypes, add_metadata_entry, remove_metadata_entry, OutOfBounds
<1>2. op' = op /\ hand' = hand /\ torn' = torn /\ raced' = raced
  BY DEF add_metadata_entry, remove_metadata_entry, OutOfBounds, history
<1>3. \A s \in Active' : s \in Active
  BY <1>1 DEF Active, add_metadata_entry, remove_metadata_entry, OutOfBounds, Goto
<1>4. ASSUME ~torn
      PROVE  /\ pc'[hand] \in {"fill", "fields"} => count' < MaxFiles
             /\ pc'[hand] = "shift" => at'[hand] <= count'
             /\ wild' = wild
  <2>1. t = hand /\ (pc[t] \in {"fill", "fields"} => count < MaxFiles)
        /\ (pc[t] = "shift" => at[t] <= count)
    BY <1>1, <1>4, SoleHand DEF TypeInv
  <2>2. ~OutOfBounds(t)
    BY <1>1, <2>1 DEF OutOfBounds
  <2>3. CASE add_metadata_entry(t)
    BY <1>1, <2>1, <2>3 DEF add_metadata_entry, Goto
  <2>4. CASE remove_metadata_entry(t)
    BY <1>1, <2>1, <2>4 DEF remove_metadata_entry, Goto
  <2>5. QED
    BY <2>2, <2>3, <2>4
<1>5. QED
  BY <1>2, <1>3, <1>4 DEF SoleInv

\* Changes of entries and saves.
LEMMA OtherSole ==
  ASSUME TypeInv, SoleInv, NEW t \in Threads,
         \/ persist_set_owner(t) \/ persist_set_acl(t) \/ persist_remove_acl(t) \/ save_metadata(t)
  PROVE  SoleInv'
<1>1. /\ pc \in [Threads -> Labels] /\ op \in [Threads -> Requests \cup {Nobody}]
      /\ at \in [Threads -> 1 .. MaxFiles + 1]
  BY DEF TypeInv, ThreadTypes
<1>2. /\ pc[t] # "idle" /\ pc'[t] \notin {"fill", "fields", "shift"}
      /\ count' = count /\ hand' = hand /\ torn' = torn /\ raced' = raced /\ wild' = wild
  BY <1>1 DEF persist_set_owner, persist_set_acl, persist_remove_acl, Rest, save_metadata, SaveOpen,
              SavePrint, SaveFlush, SaveClose, tableVars, history, Done, Goto
<1>3. Alone(t) /\ (pc'[t] = "idle" \/ op'[t] = op[t])
  BY <1>1 DEF persist_set_owner, persist_set_acl, persist_remove_acl, Rest, save_metadata, SaveOpen,
              SavePrint, SaveFlush, SaveClose, tableVars, history, Done, Goto, Alone
<1>4. QED
  BY <1>2, <1>3, SoleFrame DEF Alone

\* Every step.
LEMMA SoleStep == TypeInv /\ SoleInv /\ [Next]_vars => SoleInv'
<1> SUFFICES ASSUME TypeInv, SoleInv, [Next]_vars PROVE SoleInv'
  OBVIOUS
<1>1. CASE Restart
  <2>1. pc' = [t \in Threads |-> "idle"] /\ torn' = FALSE /\ wild' = FALSE /\ hand' = NS
    BY <1>1, RestartStep
  <2>2. QED
    BY <2>1, ThreadsAssumption DEF SoleInv, Active
<1>2. ASSUME NEW t \in Threads, \E o \in Requests : Begin(t, o) PROVE SoleInv'
  BY <1>2, BeginSole
<1>3. ASSUME NEW t \in Threads, \/ persist_find_file(t) \/ add_metadata_entry(t)
                                \/ remove_metadata_entry(t) \/ OutOfBounds(t)
      PROVE  SoleInv'
  BY <1>3, FindSole, NamingSole
<1>4. ASSUME NEW t \in Threads, \/ persist_set_owner(t) \/ persist_set_acl(t)
                                \/ persist_remove_acl(t) \/ save_metadata(t)
      PROVE  SoleInv'
  BY <1>4, OtherSole
<1>5. CASE UNCHANGED vars
  BY <1>5 DEF vars, tableVars, history, SoleInv, Active
<1>6. QED
  BY <1>1, <1>2, <1>3, <1>4, <1>5 DEF Next

-----------------------------------------------------------------------------
(* The table follows the commands *)

\* A step that leaves names, owners and the thread that changes names alone.
LEMMA TableFrame ==
  ASSUME TypeInv, TableInv, hand' = hand, torn' = torn, hand \in Threads, sound' = sound, books' = books, count' = count,
         \A i \in 1 .. MaxFiles : slots'[i].name = slots[i].name /\ slots'[i].owner = slots[i].owner,
         pc'[hand] = pc[hand], op'[hand] = op[hand], at'[hand] = at[hand]
  PROVE  TableInv'
<1>1. count \in Nat /\ MaxFiles \in Nat /\ count <= MaxFiles
  BY BoundAssumption DEF TypeInv, TableTypes
<1>2. Live' = Live /\ Live \subseteq 1 .. count /\ 1 .. count \subseteq 1 .. MaxFiles
  BY <1>1 DEF Live
<1>3. \A i \in 1 .. count : slots'[i].name = slots[i].name /\ slots'[i].owner = slots[i].owner
  BY <1>2
<1>4. HandKnows => HandKnows'
  <2>1. at[hand] \in 1 .. MaxFiles + 1
    BY DEF TypeInv, ThreadTypes
  <2>2. pc[hand] = "change" /\ at[hand] <= count => at[hand] \in 1 .. count
    BY <1>1, <2>1
  <2>3. count < MaxFiles => slots'[count + 1].name = slots[count + 1].name
    BY <1>1
  <2>4. QED
    BY <1>3, <2>2, <2>3 DEF HandKnows
<1>5. SUFFICES ASSUME sound, ~torn PROVE TableInv'
  BY DEF TableInv
<1>6. \A i \in Live : slots'[i].name = slots[i].name /\ slots'[i].owner = slots[i].owner
  BY <1>2, <1>3
<1>7. HandKnows /\ (\A i, j \in Live : slots[i].name = slots[j].name => i = j)
      /\ (\A i \in Live : slots[i].name \in DOMAIN books /\ slots[i].owner = books[slots[i].name])
      /\ (pc[hand] = "shift" => \A i \in Live : slots[i].name # op[hand].file)
  BY <1>5 DEF TableInv
<1>8. \A f \in DOMAIN books :
        (pc[hand] = "shift" /\ f = op[hand].file) \/ \E i \in Live : slots[i].name = f
  BY <1>5 DEF TableInv
<1>9. \A f \in DOMAIN books :
        (pc[hand] = "shift" /\ f = op[hand].file) \/ \E i \in Live : slots'[i].name = f
  BY <1>6, <1>8
<1> HIDE DEF Live
<1>10. QED
  BY <1>2, <1>4, <1>6, <1>7, <1>9 DEF TableInv

\* A step of the thread that changes names that moves no entry.
LEMMA TableStill ==
  ASSUME TypeInv, TableInv, torn' => torn, torn => torn', sound' = sound, books' = books, count' = count,
         \A i \in 1 .. MaxFiles : slots'[i].name = slots[i].name /\ slots'[i].owner = slots[i].owner,
         pc[hand] # "shift", pc'[hand'] # "shift", sound /\ ~torn => HandKnows'
  PROVE  TableInv'
<1>1. count \in Nat /\ MaxFiles \in Nat /\ count <= MaxFiles
  BY BoundAssumption DEF TypeInv, TableTypes
<1>2. Live' = 1 .. count /\ Live = 1 .. count /\ 1 .. count \subseteq 1 .. MaxFiles
  BY <1>1 DEF Live
<1>3. \A i \in 1 .. count : slots'[i].name = slots[i].name /\ slots'[i].owner = slots[i].owner
  BY <1>2
<1>5. QED
  BY <1>2, <1>3 DEF TableInv

\* Where that thread needs to know nothing.
LEMMA KnowsNothing ==
  ASSUME pc'[hand'] \notin {"find", "fill", "fields", "change"}
  PROVE  HandKnows'
  BY DEF HandKnows

\* The initial state.
LEMMA TableInit == Init => TableInv
  BY ThreadsAssumption DEF Init, TableInv, Live, HandKnows

\* A command begins.
LEMMA BeginTable ==
  ASSUME TypeInv, SoleInv, TableInv, NEW t \in Threads, NEW o \in Requests, Begin(t, o)
  PROVE  TableInv'
<1>1. sound' = sound /\ books' = books /\ count' = count /\ slots' = slots /\ at' = at
      /\ pc' = [pc EXCEPT ![t] = "find"] /\ op' = [op EXCEPT ![t] = o] /\ pc[t] = "idle"
      /\ torn' = (torn \/ \E s \in Active : Collides(o, op[s]))
      /\ hand' = IF o.kind \in Naming THEN t ELSE hand
  BY DEF Begin, Goto, tableVars
<1>2. SUFFICES ASSUME ~torn' PROVE TableInv'
  BY DEF TableInv
<1>3. ~torn /\ (\A s \in Active : ~Collides(o, op[s])) /\ hand \in Threads
  BY <1>1, <1>2 DEF TypeInv, HistTypes
<1>4. CASE o.kind \in Naming \/ t = hand
  <2>1. hand' = t /\ pc'[hand'] = "find" /\ at'[hand'] = 1
    BY <1>1, <1>4 DEF TypeInv, ThreadTypes, IndexOK
  <2>2. pc[hand] # "shift"
    <3>1. pc[hand] = "shift" => hand \in Active /\ op[hand].kind \in Naming
      BY <1>3 DEF TypeInv, ThreadTypes, CallOK, Active, Naming
    <3>2. QED
      BY <1>1, <1>3, <1>4, <3>1 DEF Collides
  <2>3. HandKnows'
    BY <1>1, <2>1, BoundAssumption DEF HandKnows, TypeInv, TableTypes
  <2>4. QED
    BY <1>1, <1>2, <1>3, <2>1, <2>2, <2>3, TableStill
<1>5. CASE o.kind \notin Naming /\ t # hand
  <2>1. pc'[hand] = pc[hand] /\ op'[hand] = op[hand] /\ hand' = hand
    BY <1>1, <1>3, <1>5 DEF TypeInv, ThreadTypes
  <2>2. torn' = torn
    BY <1>1, <1>2, <1>3 DEF TypeInv, HistTypes
  <2>3. QED
    BY <1>1, <1>3, <2>1, <2>2, TableFrame
<1>6. QED
  BY <1>4, <1>5

\* An operation ends.
LEMMA DoneTable ==
  ASSUME TypeInv, SoleInv, TableInv, hand' = hand, torn' = torn, hand \in Threads, NEW t \in Threads, Done(t), pc[t] # "shift", sound' = sound,
         books' = books, count' = count, slots' = slots
  PROVE  TableInv'
<1>1. CASE t = hand
  <2>1. pc'[hand] = "idle"
    BY <1>1 DEF Done, Goto, TypeInv, ThreadTypes
  <2>2. HandKnows'
    BY <2>1, KnowsNothing
  <2>3. QED
    BY <1>1, <2>1, <2>2, TableStill
<1>2. CASE t # hand
  <2>1. pc'[hand] = pc[hand] /\ op'[hand] = op[hand] /\ at'[hand] = at[hand]
    BY <1>2 DEF Done, Goto, TypeInv, ThreadTypes
  <2>2. QED
    BY <2>1, TableFrame
<1>3. QED
  BY <1>1, <1>2

\* A search: the thread that changes names finds its file where it is, or nowhere.
LEMMA FindTable ==
  ASSUME TypeInv, SoleInv, TableInv, hand' = hand, torn' = torn, hand \in Threads, NEW t \in Threads, persist_find_file(t)
  PROVE  TableInv'
<1>1. sound' = sound /\ books' = books /\ count' = count /\ slots' = slots /\ pc[t] = "find"
  BY DEF persist_find_file, tableVars, history
<1>2. CASE Done(t)
  BY <1>1, <1>2, DoneTable
<1>3. CASE ~Done(t) /\ t # hand
  <2>1. pc'[hand] = pc[hand] /\ op'[hand] = op[hand] /\ at'[hand] = at[hand]
    BY <1>3 DEF persist_find_file, Goto, TypeInv, ThreadTypes
  <2>2. QED
    BY <1>1, <2>1, TableFrame
<1>4. CASE ~Done(t) /\ t = hand
  <2>1. count \in Nat /\ count <= MaxFiles /\ MaxFiles \in Nat /\ at[hand] \in 1 .. MaxFiles + 1
        /\ op[hand] \in Requests /\ pc[hand] = "find" /\ pc \in [Threads -> Labels] /\ hand \in Threads
        /\ at \in [Threads -> 1 .. MaxFiles + 1]
    BY <1>1, <1>4, BoundAssumption DEF TypeInv, TableTypes, ThreadTypes, CallOK
  <2>2. sound /\ ~torn => \A i \in 1 .. count : i < at[hand] => slots[i].name # op[hand].file
    BY <2>1 DEF TableInv, HandKnows
  <2>3. CASE at[t] <= count /\ slots[at[t]].name # op[t].file /\ at' = [at EXCEPT ![t] = @ + 1]
             /\ UNCHANGED <<pc, op, buf>>
    <3>1. pc'[hand] = "find" /\ op'[hand] = op[hand] /\ at'[hand] = at[hand] + 1
      BY <1>4, <2>1, <2>3
    <3>2. \A i \in 1 .. count : i < at[hand] + 1 => i < at[hand] \/ i = at[hand]
      BY <2>1
    <3>3. sound /\ ~torn => HandKnows'
      BY <1>1, <1>4, <2>2, <2>3, <3>1, <3>2 DEF HandKnows
    <3>4. QED
      BY <1>1, <2>1, <3>1, <3>3, TableStill
  <2>4. CASE at[t] <= count /\ slots[at[t]].name = op[t].file /\ op[t].kind # "add"
             /\ Goto(t, Then(op[t].kind)) /\ UNCHANGED <<op, at, buf>>
    <3>1. pc'[hand] = Then(op[hand].kind) /\ op'[hand] = op[hand] /\ at'[hand] = at[hand]
      BY <1>4, <2>1, <2>4 DEF Goto
    <3>2. at[hand] \in 1 .. count
      BY <1>4, <2>1, <2>4
    <3>3. CASE op[hand].kind = "remove"
      <4>1. pc'[hand] = "shift"
        BY <3>1, <3>3 DEF Then
      <4>2. Live = 1 .. count /\ Live' = (1 .. count) \ {at[hand]}
        BY <1>1, <2>1, <3>1, <4>1 DEF Live
      <4>3. HandKnows'
        BY <4>1, KnowsNothing
      <4>4. SUFFICES ASSUME sound, ~torn PROVE TableInv'
        BY <1>1 DEF TableInv
      <4>5. \A i, j \in 1 .. count : slots[i].name = slots[j].name => i = j
        BY <4>2, <4>4 DEF TableInv
      <4>6. \A f \in DOMAIN books : f = op[hand].file \/ \E i \in (1 .. count) \ {at[hand]} : slots[i].name = f
        BY <1>4, <2>1, <2>4, <4>2, <4>4 DEF TableInv
      <4>7. \A i \in (1 .. count) \ {at[hand]} : slots[i].name # op[hand].file
        BY <1>4, <2>4, <3>2, <4>5
      <4>8. \A i \in 1 .. count : slots[i].name \in DOMAIN books /\ slots[i].owner = books[slots[i].name]
        BY <4>2, <4>4 DEF TableInv
      <4>9. QED
        BY <1>1, <3>1, <4>1, <4>2, <4>3, <4>5, <4>6, <4>7, <4>8 DEF TableInv
    <3>4. CASE op[hand].kind # "remove"
      <4>1. Then(op[hand].kind) \in {"open", "change"}
        <5>1. CASE op[hand].kind = "touch"
          BY <5>1 DEF Then
        <5>2. CASE op[hand].kind # "touch"
          BY <3>4, <5>2 DEF Then
        <5>3. QED
          BY <5>1, <5>2
      <4>2. HandKnows'
        BY <1>1, <1>4, <2>4, <3>1, <3>2, <4>1 DEF HandKnows
      <4>3. QED
        BY <1>1, <2>1, <3>1, <4>1, <4>2, TableStill
    <3>5. QED
      BY <3>3, <3>4
  <2>5. CASE at[t] > count /\ Goto(t, "fill") /\ UNCHANGED <<op, at, buf>>
    <3>1. pc'[hand] = "fill" /\ op'[hand] = op[hand] /\ at'[hand] = at[hand]
      BY <1>4, <2>1, <2>5 DEF Goto
    <3>2. \A i \in 1 .. count : i < at[hand]
      BY <1>4, <2>1, <2>5
    <3>3. sound /\ ~torn => HandKnows'
      BY <1>1, <2>2, <3>1, <3>2 DEF HandKnows
    <3>4. QED
      BY <1>1, <2>1, <3>1, <3>3, TableStill
  <2>6. QED
    BY <1>4, <2>3, <2>4, <2>5 DEF persist_find_file
<1>5. QED
  BY <1>2, <1>3, <1>4

\* A new entry: its name is written behind the table, and is not in it; then it is counted.
LEMMA AddTable ==
  ASSUME TypeInv, SoleInv, TableInv, hand' = hand, torn' = torn, hand \in Threads, NEW t \in Threads,
         add_metadata_entry(t)
  PROVE  TableInv'
<1> DEFINE f == op[hand].file
<1>0. sound' = sound /\ op' = op
  BY DEF add_metadata_entry
<1>1. SUFFICES ASSUME sound, ~torn PROVE TableInv'
  BY <1>0 DEF TableInv
<1>2. t = hand /\ pc[hand] \in {"fill", "fields"} /\ count < MaxFiles /\ count \in Nat /\ MaxFiles \in Nat
      /\ count + 1 \in 1 .. MaxFiles /\ slots \in [1 .. MaxFiles -> Entries]
  BY <1>1, SoleHand, BoundAssumption DEF add_metadata_entry, TypeInv, ThreadTypes, TableTypes
<1>3. CASE pc[hand] = "fill"
  <2>1. slots' = [slots EXCEPT ![count + 1].name = f] /\ count' = count /\ books' = books
        /\ pc' = [pc EXCEPT ![hand] = "fields"]
    BY <1>2, <1>3 DEF add_metadata_entry, Goto
  <2>2. pc'[hand] = "fields"
    BY <2>1 DEF TypeInv, ThreadTypes
  <2>3. Live = 1 .. count /\ Live' = 1 .. count
    BY <1>3, <2>1, <2>2 DEF Live
  <2>4. slots'[count + 1].name = f /\ \A i \in 1 .. count : slots'[i] = slots[i]
    BY <1>2, <2>1 DEF Entries
  <2>5. /\ \A i, j \in 1 .. count : slots[i].name = slots[j].name => i = j
        /\ \A i \in 1 .. count : slots[i].name \in DOMAIN books /\ slots[i].owner = books[slots[i].name]
        /\ \A i \in 1 .. count : slots[i].name # f
    BY <1>1, <1>3, <2>3 DEF TableInv, HandKnows
  <2>6. \A g \in DOMAIN books : \E i \in 1 .. count : slots[i].name = g
    BY <1>1, <1>3, <2>3 DEF TableInv
  <2>7. HandKnows'
    BY <1>0, <2>1, <2>2, <2>4, <2>5 DEF HandKnows
  <2> HIDE DEF f
  <2>8. \A i, j \in 1 .. count : slots'[i].name = slots'[j].name => i = j
    BY <2>4, <2>5
  <2>9. \A i \in 1 .. count : slots'[i].name \in DOMAIN books' /\ slots'[i].owner = books'[slots'[i].name]
    BY <2>1, <2>4, <2>5
  <2>10. \A g \in DOMAIN books' : \E i \in 1 .. count : slots'[i].name = g
    BY <2>1, <2>4, <2>6
  <2>11. pc'[hand'] # "shift"
    BY <2>2
  <2>12. QED
    BY <2>3, <2>7, <2>8, <2>9, <2>10, <2>11, Zenon DEF TableInv
<1>4. CASE pc[hand] = "fields"
  <2>1. /\ slots' = [slots EXCEPT ![count + 1].owner = None, ![count + 1].n = 0] /\ count' = count + 1
        /\ books' = [g \in DOMAIN books \cup {f} |-> IF g = f THEN None ELSE books[g]]
        /\ pc' = [pc EXCEPT ![hand] = "open"]
    BY <1>2, <1>4 DEF add_metadata_entry, Goto
  <2>2. pc'[hand] = "open"
    BY <2>1 DEF TypeInv, ThreadTypes
  <2>3. Live = 1 .. count /\ Live' = 1 .. count + 1
    BY <1>4, <2>1, <2>2 DEF Live
  <2>4. HandKnows'
    BY <2>2, KnowsNothing
  <2>5. /\ \A i, j \in 1 .. count : slots[i].name = slots[j].name => i = j
        /\ \A i \in 1 .. count : slots[i].name \in DOMAIN books /\ slots[i].owner = books[slots[i].name]
        /\ \A i \in 1 .. count : slots[i].name # f
        /\ slots[count + 1].name = f
    BY <1>1, <1>2, <1>4, <2>3 DEF TableInv, HandKnows
  <2>6. \A g \in DOMAIN books : \E i \in 1 .. count : slots[i].name = g
    BY <1>1, <1>4, <2>3 DEF TableInv
  <2>7. /\ slots'[count + 1].name = f /\ slots'[count + 1].owner = None
        /\ \A i \in 1 .. count : slots'[i] = slots[i]
        /\ \A i \in 1 .. count + 1 : i \in 1 .. count \/ i = count + 1
    BY <1>2, <2>1, <2>5 DEF Entries
  <2>8. /\ DOMAIN books' = DOMAIN books \cup {f} /\ books'[f] = None
        /\ \A g \in DOMAIN books : g # f => books'[g] = books[g]
    BY <2>1
  <2> HIDE DEF f
  <2>9. \A i, j \in 1 .. count + 1 : slots'[i].name = slots'[j].name => i = j
    BY <2>5, <2>7
  <2>10. \A i \in 1 .. count + 1 : slots'[i].name \in DOMAIN books' /\ slots'[i].owner = books'[slots'[i].name]
    BY <2>5, <2>7, <2>8
  <2>11. \A g \in DOMAIN books' : \E i \in 1 .. count + 1 : slots'[i].name = g
    <3>1. count + 1 \in 1 .. count + 1 /\ \A i \in 1 .. count : i \in 1 .. count + 1
      BY <1>2
    <3>2. QED
      BY <2>6, <2>7, <2>8, <3>1
  <2>12. QED
    BY <2>2, <2>3, <2>4, <2>9, <2>10, <2>11 DEF TableInv
<1>5. QED
  BY <1>2, <1>3, <1>4

\* Entries move down over the one that is removed, each to the place of the one before it.
LEMMA RemoveTable ==
  ASSUME TypeInv, SoleInv, TableInv, hand' = hand, torn' = torn, hand \in Threads, NEW t \in Threads, remove_metadata_entry(t)
  PROVE  TableInv'
<1> DEFINE f == op[hand].file
           i0 == at[hand]
<1>2. sound' = sound /\ op' = op
  BY DEF remove_metadata_entry
<1>4. SUFFICES ASSUME sound, ~torn PROVE TableInv'
  BY <1>2 DEF TableInv
<1>1. t = hand /\ pc[hand] = "shift" /\ count \in Nat /\ count <= MaxFiles /\ MaxFiles \in Nat
      /\ i0 \in 1 .. MaxFiles + 1 /\ i0 <= count /\ slots \in [1 .. MaxFiles -> Entries]
  BY <1>4, SoleHand, BoundAssumption DEF remove_metadata_entry, TypeInv, ThreadTypes, TableTypes
<1>3. Live = (1 .. count) \ {i0}
  BY <1>1 DEF Live
<1>5. /\ \A i, j \in Live : slots[i].name = slots[j].name => i = j
      /\ \A i \in Live : slots[i].name \in DOMAIN books /\ slots[i].owner = books[slots[i].name]
      /\ \A i \in Live : slots[i].name # f
  BY <1>1, <1>4 DEF TableInv
<1>6. \A g \in DOMAIN books : g = f \/ \E i \in Live : slots[i].name = g
  BY <1>4 DEF TableInv
<1>7. CASE i0 < count
  <2>1. slots' = [slots EXCEPT ![i0] = slots[i0 + 1]] /\ at' = [at EXCEPT ![hand] = i0 + 1]
        /\ count' = count /\ pc' = pc /\ books' = books
    BY <1>1, <1>7 DEF remove_metadata_entry, TypeInv, ThreadTypes
  <2>2. pc'[hand] = "shift" /\ at'[hand] = i0 + 1
    BY <1>1, <2>1 DEF TypeInv, ThreadTypes
  <2>3. Live' = (1 .. count) \ {i0 + 1}
    BY <2>1, <2>2 DEF Live
  <2> DEFINE From(i) == IF i = i0 THEN i0 + 1 ELSE i
  <2>4. \A i \in Live' : From(i) \in Live /\ slots'[i] = slots[From(i)]
    BY <1>1, <1>3, <1>7, <2>1, <2>3
  <2>5. \A i, j \in Live' : From(i) = From(j) => i = j
    BY <1>1, <2>3
  <2>6. \A k \in Live : \E i \in Live' : From(i) = k
    <3> SUFFICES ASSUME NEW k \in Live PROVE \E i \in Live' : From(i) = k
      OBVIOUS
    <3>1. CASE k = i0 + 1
      <4>1. i0 \in Live' /\ From(i0) = k
        BY <1>1, <2>3, <3>1
      <4>2. QED
        BY <4>1
    <3>2. CASE k # i0 + 1
      <4>1. k \in Live' /\ From(k) = k
        BY <1>3, <2>3, <3>2
      <4>2. QED
        BY <4>1
    <3>3. QED
      BY <3>1, <3>2
  <2> HIDE DEF From
  <2>7. HandKnows'
    BY <2>2, KnowsNothing
  <2>8. \A i, j \in Live' : slots'[i].name = slots'[j].name => i = j
    BY <1>5, <2>4, <2>5
  <2>9. \A i \in Live' : /\ slots'[i].name \in DOMAIN books /\ slots'[i].owner = books[slots'[i].name]
                         /\ slots'[i].name # f
    BY <1>5, <2>4
  <2>10. \A g \in DOMAIN books : g = f \/ \E i \in Live' : slots'[i].name = g
    BY <1>6, <2>4, <2>6
  <2>11. QED
    BY <1>2, <2>1, <2>2, <2>7, <2>8, <2>9, <2>10 DEF TableInv
<1>8. CASE ~(i0 < count)
  <2>1. slots' = slots /\ count' = count - 1 /\ pc' = [pc EXCEPT ![hand] = "open"]
        /\ books' = [g \in DOMAIN books \ {f} |-> books[g]]
    BY <1>1, <1>8 DEF remove_metadata_entry, Goto, Forget
  <2>2. pc'[hand] = "open"
    BY <2>1 DEF TypeInv, ThreadTypes
  <2>3. Live' = Live
    BY <1>1, <1>3, <1>8, <2>1, <2>2 DEF Live
  <2>4. HandKnows'
    BY <2>2, KnowsNothing
  <2>5. DOMAIN books' = DOMAIN books \ {f} /\ \A g \in DOMAIN books' : books'[g] = books[g]
    BY <2>1
  <2> HIDE DEF f
  <2>6. \A i \in Live : slots[i].name \in DOMAIN books' /\ slots[i].owner = books'[slots[i].name]
    BY <1>5, <2>5
  <2>7. \A g \in DOMAIN books' : \E i \in Live : slots[i].name = g
    BY <1>6, <2>5
  <2>8. QED
    BY <1>5, <2>1, <2>2, <2>3, <2>4, <2>6, <2>7 DEF TableInv
<1>9. QED
  BY <1>7, <1>8

\* The owner is set in the entry of the file.
LEMMA OwnerTable ==
  ASSUME TypeInv, SoleInv, TableInv, hand' = hand, torn' = torn, hand \in Threads, NEW t \in Threads, persist_set_owner(t)
  PROVE  TableInv'
<1> DEFINE f == op[hand].file
           u == op[hand].user
           i0 == at[hand]
<1>0. SUFFICES ASSUME sound, ~torn PROVE TableInv'
  BY DEF TableInv, persist_set_owner, Rest
<1>1. t = hand /\ pc[hand] = "change" /\ count \in Nat /\ count <= MaxFiles /\ MaxFiles \in Nat
      /\ i0 \in 1 .. MaxFiles /\ slots \in [1 .. MaxFiles -> Entries]
  BY <1>0, SoleHand, BoundAssumption
  DEF persist_set_owner, TypeInv, ThreadTypes, TableTypes, IndexOK, Naming
<1>2. sound' = sound /\ op' = op /\ count' = count /\ pc' = [pc EXCEPT ![hand] = "open"]
      /\ slots' = [slots EXCEPT ![i0].owner = u] /\ books' = [books EXCEPT ![f] = u]
  BY <1>1 DEF persist_set_owner, Rest, Goto
<1>3. pc'[hand] = "open"
  BY <1>2 DEF TypeInv, ThreadTypes
<1>4. Live = 1 .. count /\ Live' = 1 .. count /\ HandKnows'
  BY <1>1, <1>2, <1>3, KnowsNothing DEF Live
<1>6. /\ \A i, j \in 1 .. count : slots[i].name = slots[j].name => i = j
      /\ \A i \in 1 .. count : slots[i].name \in DOMAIN books /\ slots[i].owner = books[slots[i].name]
      /\ i0 <= count /\ slots[i0].name = f
  BY <1>0, <1>1, <1>4 DEF TableInv, HandKnows
<1>7. \A g \in DOMAIN books : \E i \in 1 .. count : slots[i].name = g
  BY <1>0, <1>1, <1>4 DEF TableInv
<1>8. i0 \in 1 .. count /\ \A i \in 1 .. count : /\ slots'[i].name = slots[i].name
                            /\ slots'[i].owner = IF i = i0 THEN u ELSE slots[i].owner
  BY <1>1, <1>2, <1>6 DEF Entries
<1>9. DOMAIN books' = DOMAIN books /\ f \in DOMAIN books
      /\ \A g \in DOMAIN books : books'[g] = IF g = f THEN u ELSE books[g]
  BY <1>2, <1>6, <1>8
<1> HIDE DEF f, u, i0
<1>10. \A i \in 1 .. count : slots'[i].name \in DOMAIN books' /\ slots'[i].owner = books'[slots'[i].name]
  BY <1>6, <1>8, <1>9
<1>11. QED
  BY <1>3, <1>4, <1>6, <1>7, <1>8, <1>9, <1>10 DEF TableInv

\* Changes of access lists and saves leave names and owners alone.
LEMMA ListTable ==
  ASSUME TypeInv, SoleInv, TableInv, hand' = hand, torn' = torn, hand \in Threads, NEW t \in Threads,
         persist_set_acl(t) \/ persist_remove_acl(t) \/ save_metadata(t)
  PROVE  TableInv'
<1>0. pc[t] # "shift"
  BY DEF persist_set_acl, persist_remove_acl, save_metadata, SaveOpen, SavePrint, SaveFlush, SaveClose
<1>1. sound' = sound /\ books' = books /\ count' = count
  BY DEF persist_set_acl, persist_remove_acl, save_metadata, SaveOpen, SavePrint, SaveFlush, SaveClose,
         tableVars, history
<1>2. \A i \in 1 .. MaxFiles : slots'[i].name = slots[i].name /\ slots'[i].owner = slots[i].owner
  <2>0. slots \in [1 .. MaxFiles -> Entries]
    BY DEF TypeInv, TableTypes
  <2>1. CASE persist_set_acl(t)
    <3> DEFINE e == slots[at[t]]
               a == [e.acl EXCEPT ![e.n + 1] = op[t].user]
    <3>1. \/ slots' = slots \/ slots' = [slots EXCEPT ![at[t]].acl = a]
          \/ slots' = [slots EXCEPT ![at[t]].n = @ + 1]
      BY <2>1 DEF persist_set_acl
    <3> HIDE DEF a
    <3>2. QED
      BY <2>0, <3>1 DEF Entries
  <2>2. CASE persist_remove_acl(t)
    <3>1. slots' = slots
          \/ \E n, a : slots' = [slots EXCEPT ![at[t]] =
                                   [name |-> slots[at[t]].name, owner |-> slots[at[t]].owner, n |-> n, acl |-> a]]
      BY <2>2, Zenon DEF persist_remove_acl
    <3>2. CASE slots' # slots
      <4>1. PICK n, a : slots' = [slots EXCEPT ![at[t]] =
                                   [name |-> slots[at[t]].name, owner |-> slots[at[t]].owner, n |-> n, acl |-> a]]
        BY <3>1, <3>2
      <4>2. QED
        BY <2>0, <4>1
    <3>3. QED
      BY <3>2
  <2>3. CASE save_metadata(t)
    BY <2>3 DEF save_metadata, SaveOpen, SavePrint, SaveFlush, SaveClose, tableVars
  <2>4. QED
    BY <2>1, <2>2, <2>3
<1>3. CASE t = hand
  <2>1. pc'[hand] \in {"idle", "append", "count", "open", "print"}
    <3>1. pc \in [Threads -> Labels] /\ hand \in Threads
      BY DEF TypeInv, ThreadTypes
    <3>2. QED
      BY <1>3, <3>1 DEF persist_set_acl, persist_remove_acl, save_metadata, SaveOpen, SavePrint, SaveFlush,
         SaveClose, Done, Goto
  <2>2. HandKnows' /\ pc'[hand] # "shift"
    BY <2>1, KnowsNothing
  <2>3. QED
    BY <1>0, <1>1, <1>2, <1>3, <2>2, TableStill
<1>4. CASE t # hand
  <2>0. pc \in [Threads -> Labels] /\ hand \in Threads /\ at \in [Threads -> 1 .. MaxFiles + 1]
        /\ op \in [Threads -> Requests \cup {Nobody}]
    BY DEF TypeInv, ThreadTypes
  <2>1. pc'[hand] = pc[hand] /\ op'[hand] = op[hand] /\ at'[hand] = at[hand]
    BY <1>4, <2>0 DEF persist_set_acl, persist_remove_acl, save_metadata, SaveOpen, SavePrint, SaveFlush,
         SaveClose, Done, Goto
  <2>2. QED
    BY <1>1, <1>2, <2>1, TableFrame
<1>5. QED
  BY <1>3, <1>4

-----------------------------------------------------------------------------
(* What a file that was saved alone gives when it is loaded *)

\* The beginning of a list is a prefix of it.
LEMMA PrefixOf ==
  ASSUME NEW a \in Seq(Listable), NEW n \in Int, n <= Len(a)
  PROVE  IsPrefix(SubSeq(a, 1, n), a)
<1>0. Len(a) \in Nat
  OBVIOUS
<1>1. CASE n >= 1
  <2>1. SubSeq(a, 1, n) \in Seq(Listable) /\ Len(SubSeq(a, 1, n)) = n
    BY <1>1, SubSeqProperties
  <2>2. SubSeq(SubSeq(a, 1, n), 1, n) = SubSeq(a, 1, n)
    BY <2>1, SubSeqFull
  <2>3. QED
    BY <2>1, <2>2 DEF IsPrefix
<1>2. CASE n < 1
  <2>1. SubSeq(a, 1, n) = <<>> /\ SubSeq(a, 1, 0) = <<>> /\ Len(<<>>) = 0
    BY <1>2, SubSeqEmpty
  <2>2. SubSeq(<<>>, 1, 0) = <<>>
    BY SubSeqEmpty
  <2>3. QED
    BY <1>0, <2>1, <2>2 DEF IsPrefix
<1>3. QED
  BY <1>1, <1>2

\* A line cut in its last fields: its row has the name, no more of the list, and perhaps
\* no owner; a whole line whose list fits gives its entry.
LEMMA ParsedWeaker ==
  ASSUME NEW l \in Lines, NEW r, Parsed(l) = <<r>>,
         l.cut \in CutsOf(l.entry) \cup {"whole"}
  PROVE  /\ Weaker(r, l.entry)
         /\ l.cut = "whole" => /\ r.owner = l.entry.owner
                               /\ Len(l.entry.acl) <= MaxAcl => r = l.entry
<1> DEFINE e == l.entry
           n == Len(e.acl)
           w == IF n < MaxAcl THEN n ELSE MaxAcl
           c == IF n <= MaxAcl THEN n - 1 ELSE MaxAcl
<1>1. e \in Rows /\ e.acl \in Seq(Listable) /\ n \in Nat /\ MaxAcl \in Nat
  BY BoundAssumption DEF Lines, Rows
<1>2. w \in Int /\ c \in Int /\ w <= n /\ c <= n /\ w <= MaxAcl /\ c <= MaxAcl
  BY <1>1
<1>3. IsPrefix(<<>>, e.acl)
  <2>1. SubSeq(e.acl, 1, 0) = <<>> /\ SubSeq(<<>>, 1, 0) = <<>> /\ Len(<<>>) = 0
    BY <1>1, SubSeqEmpty
  <2>2. QED
    BY <1>1, <2>1 DEF IsPrefix
<1>4. CASE l.cut = "whole"
  <2> DEFINE a == SubSeq(e.acl, 1, w)
  <2>1. Parsed(l) = <<[e EXCEPT !.acl = a]>>
    BY <1>4 DEF Parsed
  <2>2. IsPrefix(a, e.acl)
    BY <1>1, <1>2, PrefixOf
  <2>3. n <= MaxAcl => [e EXCEPT !.acl = a] = e
    <3>1. n <= MaxAcl => w = n
      BY <1>1
    <3>2. w = n => [e EXCEPT !.acl = SubSeq(e.acl, 1, w)] = e
      <4> HIDE DEF w
      <4>1. QED
        BY <1>1, <1>2, ListPrefix
    <3>3. QED
      BY <3>1, <3>2
  <2> HIDE DEF a
  <2>4. r = [e EXCEPT !.acl = a]
    BY <2>1
  <2>5. r.name = e.name /\ r.owner = e.owner /\ r.acl = a
    BY <1>1, <2>4 DEF Rows
  <2>6. QED
    BY <2>2, <2>3, <2>4, <2>5 DEF Weaker
<1>5. CASE l.cut = "times"
  <2>1. r = [name |-> e.name, owner |-> None, acl |-> <<>>]
    BY <1>5 DEF Parsed
  <2>2. QED
    BY <1>3, <1>5, <2>1 DEF Weaker
<1>6. CASE l.cut = "owner"
  <2>1. r = [name |-> e.name, owner |-> Short, acl |-> <<>>]
    BY <1>6 DEF Parsed
  <2>2. QED
    BY <1>3, <1>6, <2>1 DEF Weaker
<1>7. CASE l.cut = "acl"
  <2> DEFINE a == SubSeq(e.acl, 1, c)
  <2>1. Parsed(l) = <<[e EXCEPT !.acl = a]>>
    BY <1>7 DEF Parsed
  <2>2. IsPrefix(a, e.acl)
    BY <1>1, <1>2, PrefixOf
  <2> HIDE DEF a
  <2>3. r = [e EXCEPT !.acl = a]
    BY <2>1
  <2>4. r.name = e.name /\ r.owner = e.owner /\ r.acl = a
    BY <1>1, <2>3 DEF Rows
  <2>5. QED
    BY <1>7, <2>2, <2>4 DEF Weaker
<1>8. CASE l.cut = "fields"
  <2>1. Parsed(l) = <<>> /\ Len(<<>>) = 0 /\ Len(<<r>>) = 1
    BY <1>8, ParsedType
  <2>2. QED
    BY <2>1
<1>9. QED
  BY <1>4, <1>5, <1>6, <1>7, <1>8 DEF CutsOf

\* A file that a thread has begun to write, running alone: what is loaded are the first
\* entries of the table, the last perhaps without its last fields.
LEMMA LoadedBegun ==
  ASSUME TypeInv, SoloInv, NEW t \in solo, pc[t] = "print"
  PROVE  LET l == Loaded(disk) IN
         /\ Len(l) <= Len(disk) /\ Len(disk) <= count
         /\ \A i \in 1 .. Len(l) :
              /\ Weaker(l[i], Printed(slots[i]))
              /\ i < Len(l) /\ Len(Printed(slots[i]).acl) <= MaxAcl => l[i] = Printed(slots[i])
<1> DEFINE l == Loaded(disk)
<1>1. t \in Threads /\ disk \in Seq(Lines) /\ Len(disk) \in Nat /\ buf[t] \in Seq(Lines)
      /\ at[t] \in 1 .. MaxFiles + 1 /\ Len(buf[t]) = at[t] - 1 /\ count \in Nat /\ MaxFiles \in Nat
      /\ count <= MaxFiles
  BY BoundAssumption DEF TypeInv, HistTypes, FileTypes, ThreadTypes, TableTypes, BufOK
<1>2. /\ at[t] <= count + 1 /\ Begun(disk, buf[t])
      /\ \A i \in 1 .. Len(buf[t]) : buf[t][i] = Line(Printed(slots[i]), "whole")
  BY DEF SoloInv
<1>3. Len(disk) <= Len(buf[t]) /\ Len(disk) <= count /\ Len(disk) <= MaxFiles
  BY <1>1, <1>2 DEF Begun
<1>4. \A i \in 1 .. Len(disk) : /\ disk[i].entry = Printed(slots[i])
                                /\ disk[i].cut \in CutsOf(disk[i].entry) \cup {"whole"}
                                /\ i < Len(disk) => disk[i].cut = "whole"
  <2>1. \A i \in 1 .. Len(disk) : i \in 1 .. Len(buf[t])
    BY <1>1, <1>3
  <2>2. \A e : Line(e, "whole").entry = e
    BY DEF Line
  <2>3. QED
    BY <1>2, <2>1, <2>2 DEF Begun
<1>5. /\ Len(l) <= Len(disk) /\ \A i \in 1 .. Len(l) : Parsed(disk[i]) = <<l[i]>>
  BY <1>1, <1>3, <1>4, LoadedInOrder
<1>6. l \in Seq(ReadRows) /\ Len(l) \in Nat
  <2>1. l \in Seq(ReadRows)
    BY <1>1, LoadedType
  <2>2. QED
    BY <2>1
<1> HIDE DEF l
<1>7. ASSUME NEW i \in 1 .. Len(l)
      PROVE  /\ Weaker(l[i], Printed(slots[i]))
             /\ i < Len(l) /\ Len(Printed(slots[i]).acl) <= MaxAcl => l[i] = Printed(slots[i])
  <2>1. i \in 1 .. Len(disk) /\ (i < Len(l) => i < Len(disk))
    BY <1>1, <1>5, <1>6
  <2>2. disk[i] \in Lines
    BY <1>1, <2>1
  <2>3. Parsed(disk[i]) = <<l[i]>> /\ disk[i].entry = Printed(slots[i])
        /\ disk[i].cut \in CutsOf(disk[i].entry) \cup {"whole"} /\ (i < Len(l) => disk[i].cut = "whole")
    BY <1>4, <1>5, <2>1
  <2>4. QED
    BY <2>2, <2>3, ParsedWeaker
<1>8. QED
  BY <1>3, <1>5, <1>7 DEF l

\* The entries of the table, as they are printed.
LEMMA TableEntry ==
  ASSUME TypeInv
  PROVE  /\ Len(Table) = count /\ DOMAIN Table = 1 .. count
         /\ \A i \in 1 .. count : /\ slots[i] \in Entries /\ Table[i] = Printed(slots[i])
                                  /\ Table[i].name = slots[i].name /\ Table[i].owner = slots[i].owner
                                  /\ Len(Table[i].acl) = slots[i].n
<1>1. count \in Nat /\ count <= MaxFiles /\ MaxFiles \in Nat /\ slots \in [1 .. MaxFiles -> Entries]
  BY BoundAssumption DEF TypeInv, TableTypes
<1>2. Len(Table) = count /\ DOMAIN Table = 1 .. count
      /\ \A i \in 1 .. count : Table[i] = Printed(slots[i])
  BY <1>1 DEF Table
<1>3. \A i \in 1 .. count : slots[i] \in Entries
  BY <1>1
<1>4. \A e \in Entries : Printed(e).name = e.name /\ Printed(e).owner = e.owner /\ Len(Printed(e).acl) = e.n
  BY DEF Printed, Entries
<1>5. QED
  BY <1>2, <1>3, <1>4

\* The files that are loaded after a save that ran alone, or was interrupted alone, have
\* different names.
LEMMA LoadedNames ==
  ASSUME TypeInv, TableInv, SoloInv, StoredInv, kept, sound, ~torn
  PROVE  \A i, j \in 1 .. Len(Loaded(disk)) : Loaded(disk)[i].name = Loaded(disk)[j].name => i = j
<1> DEFINE l == Loaded(disk)
<1>1. CASE \A t \in Threads : pc[t] # "print"
  <2>1. Reads(l, stored) /\ \A i, j \in 1 .. Len(stored) : stored[i].name = stored[j].name => i = j
    BY <1>1 DEF StoredInv
  <2> HIDE DEF l
  <2>2. QED
    BY <2>1 DEF Reads, l
<1>2. ASSUME NEW t \in Threads, pc[t] = "print" PROVE \A i, j \in 1 .. Len(l) : l[i].name = l[j].name => i = j
  <2>1. t \in solo /\ Active = {t}
    BY <1>2 DEF SoloInv, Active
  <2>2. pc[hand] # "shift"
    BY <1>2, <2>1 DEF Active, TypeInv, HistTypes
  <2>3. Live = 1 .. count
    BY <2>2 DEF Live
  <2>4. \A i, j \in 1 .. count : slots[i].name = slots[j].name => i = j
    BY <2>3 DEF TableInv
  <2>5. /\ Len(l) <= Len(disk) /\ Len(disk) <= count
        /\ \A i \in 1 .. Len(l) : Weaker(l[i], Printed(slots[i]))
    BY <1>2, <2>1, LoadedBegun
  <2>6. l \in Seq(ReadRows) /\ disk \in Seq(Lines)
    BY LoadedType DEF TypeInv, FileTypes
  <2> HIDE DEF l
  <2>7. count \in Nat /\ Len(l) \in Nat /\ Len(disk) \in Nat
    BY <2>6 DEF TypeInv, TableTypes
  <2>8. \A i \in 1 .. Len(l) : i \in 1 .. count
    BY <2>5, <2>7
  <2>9. \A i \in 1 .. Len(l) : l[i].name = slots[i].name
    BY <2>5, <2>8, TableEntry DEF Weaker
  <2>10. QED
    BY <2>4, <2>8, <2>9
<1>3. QED
  BY <1>1, <1>2

\* A restart: the name server's books are those of the table that is loaded.
LEMMA RestartTable ==
  ASSUME TypeInv, TableInv, SoloInv, StoredInv, Restart
  PROVE  TableInv'
<1> DEFINE l == Loaded(disk)
<1>1. /\ slots' = [i \in 1 .. MaxFiles |-> IF i <= Len(l) THEN Entry(l[i]) ELSE Blank]
      /\ count' = Len(l) /\ pc' = [t \in Threads |-> "idle"]
      /\ books' = [f \in {l[i].name : i \in DOMAIN l} |-> l[CHOOSE i \in DOMAIN l : l[i].name = f].owner]
      /\ sound' = (sound /\ kept /\ ~torn) /\ hand' = NS
  BY RestartStep
<1>2. l \in Seq(ReadRows) /\ Len(l) <= MaxFiles
  BY LoadedType DEF TypeInv, FileTypes
<1>3. SUFFICES ASSUME sound, kept, ~torn PROVE TableInv'
  BY <1>1 DEF TableInv
<1>4. \A i, j \in 1 .. Len(l) : l[i].name = l[j].name => i = j
  BY <1>3, LoadedNames
<1> HIDE DEF l
<1>5. Len(l) \in Nat /\ MaxFiles \in Nat /\ DOMAIN l = 1 .. Len(l) /\ \A i \in 1 .. Len(l) : l[i] \in ReadRows
  BY <1>2, BoundAssumption
<1>6. pc'[hand'] = "idle" /\ Live' = 1 .. Len(l) /\ HandKnows'
  BY <1>1, ThreadsAssumption DEF Live, HandKnows
<1>7. \A i \in 1 .. Len(l) : slots'[i].name = l[i].name /\ slots'[i].owner = l[i].owner
  <2>1. \A i \in 1 .. Len(l) : slots'[i] = Entry(l[i])
    BY <1>1, <1>2, <1>5
  <2>2. QED
    BY <1>5, <2>1, EntryType
<1>8. \A i \in 1 .. Len(l) : (CHOOSE k \in DOMAIN l : l[k].name = l[i].name) = i
  BY <1>4, <1>5
<1>9. DOMAIN books' = {l[i].name : i \in DOMAIN l} /\ \A i \in 1 .. Len(l) : books'[l[i].name] = l[i].owner
  BY <1>1, <1>5, <1>8
<1>10. \A f \in DOMAIN books' : \E i \in 1 .. Len(l) : slots'[i].name = f
  BY <1>5, <1>7, <1>9
<1>11. \A i \in 1 .. Len(l) : slots'[i].name \in DOMAIN books' /\ slots'[i].owner = books'[slots'[i].name]
  BY <1>5, <1>7, <1>9
<1>12. \A i, j \in 1 .. Len(l) : slots'[i].name = slots'[j].name => i = j
  BY <1>4, <1>7
<1>13. QED
  BY <1>6, <1>10, <1>11, <1>12, Zenon DEF TableInv

\* Every step keeps the table in line with the books.
LEMMA TableStep == TypeInv /\ SoleInv /\ TableInv /\ SoloInv /\ StoredInv /\ [Next]_vars => TableInv'
<1> SUFFICES ASSUME TypeInv, SoleInv, TableInv, SoloInv, StoredInv, [Next]_vars PROVE TableInv'
  OBVIOUS
<1>0. hand \in Threads
  BY DEF TypeInv, HistTypes
<1>1. CASE Restart
  BY <1>1, RestartTable
<1>2. ASSUME NEW t \in Threads, \E o \in Requests : Begin(t, o) PROVE TableInv'
  BY <1>2, BeginTable
<1>3. ASSUME NEW t \in Threads, \/ persist_find_file(t) \/ add_metadata_entry(t)
                                \/ remove_metadata_entry(t) \/ persist_set_owner(t)
      PROVE  TableInv'
  <2>1. hand' = hand /\ torn' = torn
    BY <1>3 DEF persist_find_file, add_metadata_entry, remove_metadata_entry, persist_set_owner, Rest, history
  <2>2. QED
    BY <1>0, <1>3, <2>1, FindTable, AddTable, RemoveTable, OwnerTable
<1>4. ASSUME NEW t \in Threads, persist_set_acl(t) \/ persist_remove_acl(t) \/ save_metadata(t)
      PROVE  TableInv'
  <2>1. hand' = hand /\ torn' = torn
    BY <1>4 DEF persist_set_acl, persist_remove_acl, save_metadata, SaveOpen, SavePrint, SaveFlush,
                SaveClose, history
  <2>2. QED
    BY <1>0, <1>4, <2>1, ListTable
<1>5. CASE UNCHANGED <<tableVars, pc, op, at, history>>
  BY <1>0, <1>5, TableFrame DEF tableVars, history
<1>6. QED
  BY <1>1, <1>2, <1>3, <1>4, <1>5 DEF Next, vars, OutOfBounds

-----------------------------------------------------------------------------
(* Access lists hold grants that are in force *)

\* A step within or at the end of an operation starts no overlap; the rest of ListInv is
\* for the caller.
LEMMA ListKeep ==
  ASSUME TypeInv, ListInv, ~raced, NEW t \in Threads, Alone(t), pc[t] # "idle",
         pc'[t] = "idle" \/ op'[t] = op[t],
         \A s \in Threads : Holding(s)',
         \A s \in Active : s \in Active' /\ op[s].kind = "grant" => <<op[s].file, op[s].user>> \in asked',
         \A i \in 1 .. MaxFiles : ListOK(slots'[i]),
         GrantsInForce'
  PROVE  ListInv'
<1>1. \A s \in Active' : s \in Active /\ op'[s] = op[s]
  BY DEF Active, Alone
<1>2. \A r, s \in Active' : r # s => ~Overtakes(op'[r], op'[s])
  BY <1>1 DEF ListInv
<1>3. \A s \in Active' : op'[s].kind = "grant" => <<op'[s].file, op'[s].user>> \in asked'
  BY <1>1
<1>4. QED
  BY <1>2, <1>3 DEF ListInv

\* What another thread holds, while entries keep their places and its list is not changed.
LEMMA HoldOther ==
  ASSUME NEW s, Holding(s), pc'[s] = pc[s], op'[s] = op[s], at'[s] = at[s],
         count \in Nat, count' \in Nat, count <= count', at[s] \in Nat,
         at[s] <= count => slots'[at[s]].name = slots[at[s]].name,
         pc[s] \in {"append", "count"} => slots'[at[s]] = slots[at[s]]
  PROVE  Holding(s)'
<1>1. CASE pc[s] \notin {"change", "append", "count"}
  BY <1>1 DEF Holding
<1>2. CASE pc[s] = "change"
  BY <1>2 DEF Holding
<1>3. CASE pc[s] \in {"append", "count"}
  <2> DEFINE e == slots[at[s]]
             u == op[s].user
  <2>1. at[s] <= count /\ e.name = op[s].file /\ Listed(e, u) = {}
        /\ (pc[s] = "count" => e.n < MaxAcl /\ e.acl[e.n + 1] = u)
    BY <1>3 DEF Holding
  <2>2. slots'[at'[s]] = e /\ op'[s].user = u /\ at'[s] <= count'
    BY <1>3, <2>1
  <2> HIDE DEF e, u
  <2>3. Listed(slots'[at'[s]], op'[s].user) = {}
    BY <2>1, <2>2
  <2>4. QED
    BY <1>3, <2>1, <2>2, <2>3 DEF Holding
<1>4. QED
  BY <1>1, <1>2, <1>3

\* A step of one thread that leaves the table alone.
LEMMA ListFrame ==
  ASSUME TypeInv, ListInv, NEW t \in Threads, Alone(t), pc[t] # "idle",
         pc'[t] = "idle" \/ op'[t] = op[t],
         slots' = slots, count' = count, asked' = asked, raced' = raced, sound' = sound,
         ~raced => Holding(t)'
  PROVE  ListInv'
<1>1. SUFFICES ASSUME ~raced PROVE ListInv'
  BY DEF ListInv
<1>2. \A s \in Threads : Holding(s)'
  <2>1. count \in Nat /\ at \in [Threads -> 1 .. MaxFiles + 1] /\ MaxFiles \in Nat
    BY BoundAssumption DEF TypeInv, TableTypes, ThreadTypes
  <2>2. ASSUME NEW s \in Threads, s # t PROVE Holding(s)'
    <3>1. at[s] \in Nat /\ count <= count' /\ Holding(s)
      BY <1>1, <2>1 DEF ListInv
    <3>2. QED
      BY <2>1, <2>2, <3>1, HoldOther DEF Alone
  <2>3. QED
    BY <1>1, <2>2
<1>3. GrantsInForce'
  BY <1>1 DEF ListInv, GrantsInForce
<1>4. \A i \in 1 .. MaxFiles : ListOK(slots'[i])
  BY <1>1 DEF ListInv
<1>5. \A s \in Active : op[s].kind = "grant" => <<op[s].file, op[s].user>> \in asked'
  BY <1>1 DEF ListInv
<1>6. QED
  BY <1>1, <1>2, <1>3, <1>4, <1>5, ListKeep

\* The initial state.
LEMMA ListInit == Init => ListInv
<1> SUFFICES ASSUME Init PROVE ListInv
  OBVIOUS
<1>1. Active = {} /\ \A t \in Threads : Holding(t)
  BY DEF Init, Active, Holding
<1>2. ListOK(Blank)
  BY BoundAssumption DEF ListOK, Blank
<1>3. \A i \in 1 .. MaxFiles : ListOK(slots[i])
  BY <1>2 DEF Init
<1>4. GrantsInForce
  BY DEF Init, GrantsInForce
<1>5. QED
  BY <1>1, <1>3, <1>4 DEF ListInv

\* A command begins: it overtakes nobody, or raced says so.
LEMMA BeginList ==
  ASSUME TypeInv, ListInv, NEW t \in Threads, NEW o \in Requests, Begin(t, o)
  PROVE  ListInv'
<1>1. /\ pc' = [pc EXCEPT ![t] = "find"] /\ op' = [op EXCEPT ![t] = o] /\ at' = at
      /\ slots' = slots /\ count' = count /\ sound' = sound /\ pc[t] = "idle"
      /\ raced' = (raced \/ \E s \in Active : Overtakes(o, op[s]))
      /\ asked' = IF o.kind = "grant" THEN asked \cup {<<o.file, o.user>>} ELSE asked
  BY DEF Begin, Goto, tableVars
<1>2. SUFFICES ASSUME ~raced' PROVE ListInv'
  BY DEF ListInv
<1>3. ~raced /\ \A s \in Active : ~Overtakes(o, op[s])
  BY <1>1, <1>2
<1>4. /\ pc'[t] = "find" /\ op'[t] = o
      /\ \A s \in Threads : s # t => pc'[s] = pc[s] /\ op'[s] = op[s] /\ at'[s] = at[s]
  BY <1>1 DEF TypeInv, ThreadTypes
<1>5. Active' = Active \cup {t} /\ t \notin Active
  BY <1>1, <1>4 DEF Active
<1>6. \A s \in Active : s # t /\ op'[s] = op[s]
  BY <1>4, <1>5 DEF Active
<1>7. \A p : Overtakes(p, o) => Overtakes(o, p)
  <2>1. \A p : {p.kind, o.kind} = {o.kind, p.kind}
    OBVIOUS
  <2>2. QED
    BY <2>1, Zenon DEF Overtakes, Collides
<1>8. \A r, s \in Active' : r # s => ~Overtakes(op'[r], op'[s])
  <2> SUFFICES ASSUME NEW r \in Active', NEW s \in Active', r # s PROVE ~Overtakes(op'[r], op'[s])
    OBVIOUS
  <2>1. CASE r = t
    BY <1>3, <1>4, <1>5, <1>6, <2>1
  <2>2. CASE s = t
    BY <1>3, <1>4, <1>5, <1>6, <1>7, <2>2
  <2>3. CASE r # t /\ s # t
    BY <1>3, <1>5, <1>6, <2>3 DEF ListInv
  <2>4. QED
    BY <2>1, <2>2, <2>3
<1>9. \A s \in Threads : Holding(s)'
  <2>1. count \in Nat /\ at \in [Threads -> 1 .. MaxFiles + 1] /\ MaxFiles \in Nat
    BY BoundAssumption DEF TypeInv, TableTypes, ThreadTypes
  <2>2. ASSUME NEW s \in Threads, s # t PROVE Holding(s)'
    <3>1. at[s] \in Nat /\ count <= count' /\ Holding(s)
      BY <1>1, <1>3, <2>1 DEF ListInv
    <3>2. QED
      BY <1>1, <1>4, <2>1, <2>2, <3>1, HoldOther
  <2>3. Holding(t)'
    BY <1>4 DEF Holding
  <2>4. QED
    BY <2>2, <2>3
<1>10. asked \subseteq asked' /\ (o.kind = "grant" => <<o.file, o.user>> \in asked')
  BY <1>1
<1>11. \A s \in Active' : op'[s].kind = "grant" => <<op'[s].file, op'[s].user>> \in asked'
  BY <1>3, <1>4, <1>5, <1>6, <1>10 DEF ListInv
<1>12. GrantsInForce'
  BY <1>1, <1>3, <1>10 DEF ListInv, GrantsInForce
<1>13. \A i \in 1 .. MaxFiles : ListOK(slots'[i])
  BY <1>1, <1>3 DEF ListInv
<1>14. QED
  BY <1>8, <1>9, <1>11, <1>12, <1>13 DEF ListInv

\* A search ends at the entry of the file.
LEMMA FindList ==
  ASSUME TypeInv, ListInv, NEW t \in Threads, persist_find_file(t)
  PROVE  ListInv'
<1>1. /\ slots' = slots /\ count' = count /\ asked' = asked /\ raced' = raced /\ sound' = sound
      /\ pc[t] = "find" /\ pc[t] # "idle"
  BY DEF persist_find_file, tableVars, history
<1>2. /\ pc \in [Threads -> Labels] /\ op \in [Threads -> Requests \cup {Nobody}]
      /\ at \in [Threads -> 1 .. MaxFiles + 1]
  BY DEF TypeInv, ThreadTypes
<1>3. Alone(t) /\ (pc'[t] = "idle" \/ op'[t] = op[t])
  BY <1>2 DEF persist_find_file, Alone, Done, Goto
<1>4. Holding(t)'
  <2>1. CASE pc'[t] \notin {"change", "append", "count"}
    BY <2>1 DEF Holding
  <2>2. CASE at[t] <= count /\ slots[at[t]].name = op[t].file /\ Goto(t, Then(op[t].kind)) /\ UNCHANGED <<op, at>>
    <3>1. pc'[t] = Then(op[t].kind) /\ Then(op[t].kind) \notin {"append", "count"}
      BY <1>2, <2>2 DEF Goto, Then
    <3>2. QED
      BY <1>1, <2>2, <3>1 DEF Holding
  <2>3. QED
    BY <1>1, <1>2, <2>1, <2>2 DEF persist_find_file, Done, Goto
<1>5. QED
  BY <1>1, <1>3, <1>4, ListFrame

\* A save changes nothing in the table.
LEMMA SaveList ==
  ASSUME TypeInv, ListInv, NEW t \in Threads, save_metadata(t)
  PROVE  ListInv'
<1>1. /\ slots' = slots /\ count' = count /\ asked' = asked /\ raced' = raced /\ sound' = sound
      /\ pc[t] # "idle"
  BY DEF save_metadata, SaveOpen, SavePrint, SaveFlush, SaveClose, tableVars, history
<1>2. /\ pc \in [Threads -> Labels] /\ op \in [Threads -> Requests \cup {Nobody}]
      /\ at \in [Threads -> 1 .. MaxFiles + 1]
  BY DEF TypeInv, ThreadTypes
<1>3. Alone(t) /\ (pc'[t] = "idle" \/ op'[t] = op[t]) /\ pc'[t] \in {"idle", "print"}
  BY <1>2 DEF save_metadata, SaveOpen, SavePrint, SaveFlush, SaveClose, Alone, Done, Goto
<1>4. Holding(t)'
  BY <1>3 DEF Holding
<1>5. QED
  BY <1>1, <1>3, <1>4, ListFrame

\* A new entry has an empty list.
LEMMA AddList ==
  ASSUME TypeInv, ListInv, NEW t \in Threads, add_metadata_entry(t)
  PROVE  ListInv'
<1>1. /\ op' = op /\ at' = at /\ asked' = asked /\ raced' = raced /\ sound' = sound
      /\ pc[t] \in {"fill", "fields"} /\ count < MaxFiles
  BY DEF add_metadata_entry
<1>2. /\ pc \in [Threads -> Labels] /\ count \in Nat /\ at \in [Threads -> 1 .. MaxFiles + 1]
      /\ slots \in [1 .. MaxFiles -> Entries] /\ MaxFiles \in Nat /\ MaxAcl \in Nat /\ count <= MaxFiles
      /\ count + 1 \in 1 .. MaxFiles /\ slots[count + 1] \in Entries
  BY <1>1, BoundAssumption DEF TypeInv, ThreadTypes, TableTypes
<1>3. Alone(t) /\ op'[t] = op[t] /\ pc'[t] \in {"fields", "open"} /\ pc[t] # "idle"
  BY <1>1, <1>2 DEF Alone, add_metadata_entry, Goto
<1>4. SUFFICES ASSUME ~raced PROVE ListInv'
  BY <1>1 DEF ListInv
<1>5. PICK new \in Entries :
        /\ slots' = [slots EXCEPT ![count + 1] = new]
        /\ new.acl = slots[count + 1].acl
        /\ \/ count' = count /\ new.n = slots[count + 1].n
           \/ count' = count + 1 /\ new.n = 0
  <2>1. CASE pc[t] = "fill"
    <3> DEFINE new == [slots[count + 1] EXCEPT !.name = op[t].file]
    <3>1. op[t].file \in Names
      BY <1>1 DEF TypeInv, ThreadTypes, CallOK, Requests, Names
    <3>2. new \in Entries /\ new.n = slots[count + 1].n /\ new.acl = slots[count + 1].acl
      BY <1>2, <3>1 DEF Entries
    <3>3. slots' = [slots EXCEPT ![count + 1] = new] /\ count' = count
      BY <2>1 DEF add_metadata_entry
    <3>4. QED
      BY <3>2, <3>3
  <2>2. CASE pc[t] = "fields"
    <3> DEFINE new == [slots[count + 1] EXCEPT !.owner = None, !.n = 0]
    <3>1. new \in Entries /\ new.n = 0 /\ new.acl = slots[count + 1].acl
      BY <1>2 DEF Entries, Owners
    <3>2. slots' = [slots EXCEPT ![count + 1] = new] /\ count' = count + 1
      BY <1>2, <2>2 DEF add_metadata_entry
    <3>3. QED
      BY <3>1, <3>2
  <2>3. QED
    BY <1>1, <2>1, <2>2
<1>6. /\ \A i \in 1 .. count : slots'[i] = slots[i]
      /\ \A i \in 1 .. MaxFiles : slots'[i] \in {slots[i], new}
      /\ \A i \in 1 .. count' : i \in 1 .. count \/ (slots'[i] = new /\ new.n = 0)
      /\ count' \in Nat /\ count <= count'
  BY <1>2, <1>5
<1>7. \A s \in Threads : Holding(s)'
  <2>1. ASSUME NEW s \in Threads, s # t PROVE Holding(s)'
    <3>1. at[s] \in Nat /\ Holding(s)
      BY <1>1, <1>2, <1>4 DEF ListInv
    <3>2. at[s] <= count => slots'[at[s]] = slots[at[s]]
      BY <1>2, <1>6
    <3>3. pc[s] \in {"append", "count"} => at[s] <= count
      BY <3>1 DEF Holding
    <3>4. QED
      BY <1>2, <1>3, <1>6, <2>1, <3>1, <3>2, <3>3, HoldOther DEF Alone
  <2>2. Holding(t)'
    BY <1>3 DEF Holding
  <2>3. QED
    BY <2>1, <2>2
<1>8. \A i \in 1 .. MaxFiles : ListOK(slots'[i])
  <2>1. \A i \in 1 .. MaxFiles : ListOK(slots[i])
    BY <1>4 DEF ListInv
  <2>2. ListOK(new)
    BY <1>2, <1>5, <2>1 DEF ListOK
  <2>3. QED
    BY <1>6, <2>1, <2>2
<1>9. GrantsInForce'
  <2>1. SUFFICES ASSUME sound, NEW i \in 1 .. count', NEW j \in 1 .. slots'[i].n
                 PROVE  <<slots'[i].name, Acl(slots'[i], j)>> \in asked
    BY <1>1 DEF GrantsInForce
  <2>2. i \in 1 .. count
    BY <1>6, <2>1
  <2>3. QED
    BY <1>4, <1>6, <2>1, <2>2 DEF ListInv, GrantsInForce
<1>10. \A s \in Active : op[s].kind = "grant" => <<op[s].file, op[s].user>> \in asked'
  BY <1>1, <1>4 DEF ListInv
<1>11. QED
  BY <1>3, <1>4, <1>7, <1>8, <1>9, <1>10, ListKeep

\* A removal runs alone.  The list that is written over is that of the removed file, or has
\* been copied; the grants that are forgotten are those of a file that is in the table no
\* longer.
LEMMA RemoveList ==
  ASSUME TypeInv, SoleInv, TableInv, ListInv, NEW t \in Threads, remove_metadata_entry(t)
  PROVE  ListInv'
<1> DEFINE f == op[t].file
           i0 == at[t]
<1>2. op' = op /\ raced' = raced /\ sound' = sound
  BY DEF remove_metadata_entry
<1>3. SUFFICES ASSUME ~raced PROVE ListInv'
  BY <1>2 DEF ListInv
<1>0. ~torn
  BY <1>3 DEF SoleInv
<1>1. /\ pc[t] = "shift" /\ t = hand /\ op[t].kind = "remove" /\ i0 \in 1 .. MaxFiles + 1 /\ i0 <= count
      /\ count \in Nat /\ count <= MaxFiles /\ MaxFiles \in Nat /\ slots \in [1 .. MaxFiles -> Entries]
  BY <1>0, SoleHand, BoundAssumption
  DEF remove_metadata_entry, TypeInv, ThreadTypes, TableTypes, CallOK
<1>4. \A s \in Threads : s # t => pc[s] = "idle"
  <2>1. t \in Active
    BY <1>1 DEF Active
  <2>2. \A s \in Active : Overtakes(op[s], op[t])
    BY <1>1 DEF Overtakes
  <2>3. QED
    BY <1>3, <2>1, <2>2 DEF ListInv, Active
<1>5. Alone(t) /\ pc'[t] \in {"shift", "open"}
  BY <1>1 DEF remove_metadata_entry, Goto, Alone, TypeInv, ThreadTypes
<1>6. \A s \in Threads : Holding(s)'
  BY <1>4, <1>5 DEF Holding, Alone
<1>7. \A s \in Active : op[s].kind = "grant" => FALSE
  BY <1>1, <1>4 DEF Active
<1>8. CASE i0 < count
  <2>1. slots' = [slots EXCEPT ![i0] = slots[i0 + 1]] /\ count' = count /\ asked' = asked
    BY <1>8 DEF remove_metadata_entry
  <2>2. \A i \in 1 .. count : \E k \in 1 .. count : slots'[i] = slots[k]
    <3> SUFFICES ASSUME NEW i \in 1 .. count PROVE \E k \in 1 .. count : slots'[i] = slots[k]
      OBVIOUS
    <3>1. CASE i = i0
      <4>1. i0 + 1 \in 1 .. count /\ slots'[i] = slots[i0 + 1]
        BY <1>1, <1>8, <2>1, <3>1
      <4>2. QED
        BY <4>1
    <3>2. CASE i # i0
      BY <1>1, <2>1, <3>2
    <3>3. QED
      BY <3>1, <3>2
  <2>3. \A i \in 1 .. MaxFiles : ListOK(slots'[i])
    <3>1. \A i \in 1 .. MaxFiles : slots'[i] = slots[i] \/ slots'[i] = slots[i0 + 1]
      BY <1>1, <2>1
    <3>2. i0 + 1 \in 1 .. MaxFiles
      BY <1>1, <1>8
    <3>3. QED
      BY <1>3, <3>1, <3>2 DEF ListInv
  <2>4. GrantsInForce'
    <3>1. SUFFICES ASSUME sound, NEW i \in 1 .. count, NEW j \in 1 .. slots'[i].n
                   PROVE  <<slots'[i].name, Acl(slots'[i], j)>> \in asked
      BY <1>2, <2>1 DEF GrantsInForce
    <3>2. PICK k \in 1 .. count : slots'[i] = slots[k]
      BY <2>2
    <3>3. QED
      BY <1>3, <3>1, <3>2 DEF ListInv, GrantsInForce
  <2>5. QED
    BY <1>1, <1>2, <1>3, <1>5, <1>6, <1>7, <2>3, <2>4, ListKeep
<1>9. CASE ~(i0 < count)
  <2>1. slots' = slots /\ count' = count - 1 /\ asked' = {g \in asked : g[1] # f} /\ i0 = count
    BY <1>1, <1>9 DEF remove_metadata_entry, Forget
  <2>2. sound => \A i \in 1 .. count - 1 : slots[i].name # f
    <3>1. 1 .. count - 1 \subseteq Live
      BY <1>1, <2>1 DEF Live
    <3>2. QED
      BY <1>0, <1>1, <3>1 DEF TableInv
  <2>3. GrantsInForce'
    <3>1. SUFFICES ASSUME sound, NEW i \in 1 .. count - 1, NEW j \in 1 .. slots[i].n
                   PROVE  <<slots[i].name, Acl(slots[i], j)>> \in asked'
      BY <1>2, <2>1 DEF GrantsInForce
    <3>2. i \in 1 .. count
      BY <1>1
    <3>3. <<slots[i].name, Acl(slots[i], j)>> \in asked
      BY <1>3, <3>1, <3>2 DEF ListInv, GrantsInForce
    <3>4. QED
      BY <2>1, <2>2, <3>1, <3>3
  <2>4. \A i \in 1 .. MaxFiles : ListOK(slots'[i])
    BY <1>3, <2>1 DEF ListInv
  <2>5. QED
    BY <1>1, <1>2, <1>3, <1>5, <1>6, <1>7, <2>3, <2>4, ListKeep
<1>10. QED
  BY <1>8, <1>9

\* Two threads that change access lists are in different entries.
LEMMA OtherEntry ==
  ASSUME TypeInv, ListInv, ~raced, NEW s \in Threads, NEW t \in Threads, s # t,
         pc[s] \in {"append", "count"}, pc[t] \in {"change", "append", "count"},
         op[t].kind \in {"grant", "revoke"}
  PROVE  at[s] # at[t]
<1>1. op[s].kind = "grant"
  BY DEF TypeInv, ThreadTypes, CallOK
<1>2. slots[at[s]].name = op[s].file /\ slots[at[t]].name = op[t].file
  BY DEF ListInv, Holding
<1>3. s \in Active /\ t \in Active
  BY DEF Active
<1>4. ~Overtakes(op[s], op[t])
  BY <1>3 DEF ListInv
<1>5. op[s].file # op[t].file
  BY <1>1, <1>4 DEF Overtakes
<1>6. QED
  BY <1>2, <1>5

\* A change of one entry that keeps its name: what the other threads hold.
LEMMA HoldOthers ==
  ASSUME TypeInv, ListInv, ~raced, NEW t \in Threads, Alone(t), NEW e,
         at[t] \in 1 .. MaxFiles, slots' = [slots EXCEPT ![at[t]] = e], count' = count,
         e.name = slots[at[t]].name,
         \A s \in Threads : s # t /\ pc[s] \in {"append", "count"} =>
            at[s] # at[t] \/ e = slots[at[t]] \/ (e.acl = slots[at[t]].acl /\ e.n = slots[at[t]].n),
         NEW s \in Threads, s # t
  PROVE  Holding(s)'
<1>1. /\ slots \in [1 .. MaxFiles -> Entries] /\ count \in Nat /\ at[s] \in 1 .. MaxFiles + 1
      /\ MaxFiles \in Nat /\ Holding(s) /\ count <= MaxFiles
  BY BoundAssumption DEF TypeInv, TableTypes, ThreadTypes, ListInv
<1>2. at[s] <= count => slots'[at[s]].name = slots[at[s]].name
  BY <1>1
<1>3. CASE pc[s] \notin {"append", "count"}
  BY <1>1, <1>2, <1>3, HoldOther DEF Alone
<1>4. CASE pc[s] \in {"append", "count"} /\ at[s] # at[t]
  <2>1. at[s] \in 1 .. MaxFiles
    BY <1>1, <1>4 DEF Holding
  <2>2. slots'[at[s]] = slots[at[s]]
    BY <1>1, <1>4, <2>1
  <2>3. QED
    BY <1>1, <1>2, <2>2, HoldOther DEF Alone
<1>5. CASE pc[s] \in {"append", "count"} /\ at[s] = at[t]
  <2> DEFINE d == slots[at[s]]
             u == op[s].user
  <2>1. at[s] <= count /\ d.name = op[s].file /\ Listed(d, u) = {}
        /\ (pc[s] = "count" => d.n < MaxAcl /\ d.acl[d.n + 1] = u)
    BY <1>1, <1>5 DEF Holding
  <2>2. slots'[at'[s]] = e /\ e.name = d.name /\ e.acl = d.acl /\ e.n = d.n /\ op'[s] = op[s]
        /\ at'[s] = at[s] /\ pc'[s] = pc[s]
    BY <1>1, <1>5 DEF Alone
  <2> HIDE DEF d, u
  <2>3. Listed(e, u) = {}
    BY <2>1, <2>2 DEF Listed, Acl
  <2>4. QED
    BY <1>5, <2>1, <2>2, <2>3 DEF Holding, u
<1>6. QED
  BY <1>3, <1>4, <1>5

\* The owner is no part of the list.
LEMMA OwnerList ==
  ASSUME TypeInv, ListInv, NEW t \in Threads, persist_set_owner(t)
  PROVE  ListInv'
<1> DEFINE e == [slots[at[t]] EXCEPT !.owner = op[t].user]
<1>1. /\ slots' = [slots EXCEPT ![at[t]] = e] /\ count' = count /\ raced' = raced /\ sound' = sound
      /\ asked' = asked /\ op' = op /\ at' = at /\ pc' = [pc EXCEPT ![t] = "open"] /\ pc[t] = "change"
  BY DEF persist_set_owner, Rest, Goto
<1>2. /\ slots \in [1 .. MaxFiles -> Entries] /\ count \in Nat /\ at[t] \in 1 .. MaxFiles
      /\ MaxFiles \in Nat /\ count <= MaxFiles /\ pc \in [Threads -> Labels]
  BY <1>1, BoundAssumption DEF TypeInv, TableTypes, ThreadTypes, IndexOK
<1>3. e.name = slots[at[t]].name /\ e.acl = slots[at[t]].acl /\ e.n = slots[at[t]].n
  <2>1. slots[at[t]] \in Entries
    BY <1>2
  <2>2. QED
    BY <2>1 DEF Entries
<1>4. Alone(t) /\ pc'[t] = "open" /\ pc[t] # "idle"
  BY <1>1, <1>2 DEF Alone
<1>5. SUFFICES ASSUME ~raced PROVE ListInv'
  BY <1>1 DEF ListInv
<1> HIDE DEF e
<1>6. \A s \in Threads : Holding(s)'
  <2>1. ASSUME NEW s \in Threads, s # t PROVE Holding(s)'
    BY <1>1, <1>2, <1>3, <1>4, <1>5, <2>1, HoldOthers
  <2>2. Holding(t)'
    BY <1>4 DEF Holding
  <2>3. QED
    BY <2>1, <2>2
<1>7. \A i \in 1 .. MaxFiles : slots'[i].name = slots[i].name /\ slots'[i].acl = slots[i].acl
                               /\ slots'[i].n = slots[i].n
  BY <1>1, <1>2, <1>3
<1>8. \A i \in 1 .. MaxFiles : ListOK(slots'[i])
  BY <1>5, <1>7 DEF ListInv, ListOK
<1>9. GrantsInForce'
  <2>1. SUFFICES ASSUME sound, NEW i \in 1 .. count, NEW j \in 1 .. slots'[i].n
                 PROVE  <<slots'[i].name, Acl(slots'[i], j)>> \in asked
    BY <1>1 DEF GrantsInForce
  <2>2. i \in 1 .. MaxFiles
    BY <1>2
  <2>3. slots'[i].name = slots[i].name /\ Acl(slots'[i], j) = Acl(slots[i], j) /\ j \in 1 .. slots[i].n
    BY <1>7, <2>2 DEF Acl
  <2>4. QED
    BY <1>5, <2>1, <2>3 DEF ListInv, GrantsInForce
<1>10. \A s \in Active : op[s].kind = "grant" => <<op[s].file, op[s].user>> \in asked'
  BY <1>1, <1>5 DEF ListInv
<1>11. QED
  BY <1>1, <1>4, <1>5, <1>6, <1>8, <1>9, <1>10, ListKeep

\* A grant: the user is looked for, written behind the list and counted, by one thread.
LEMMA GrantList ==
  ASSUME TypeInv, ListInv, NEW t \in Threads, persist_set_acl(t)
  PROVE  ListInv'
<1> DEFINE e == slots[at[t]]
           u == op[t].user
<1>1. /\ count' = count /\ raced' = raced /\ sound' = sound /\ asked' = asked
      /\ op[t].kind = "grant" /\ pc[t] \in {"change", "append", "count"} /\ pc[t] # "idle"
  BY DEF persist_set_acl, history
<1>2. /\ slots \in [1 .. MaxFiles -> Entries] /\ count \in Nat /\ at[t] \in 1 .. MaxFiles
      /\ MaxFiles \in Nat /\ MaxAcl \in Nat /\ count <= MaxFiles /\ pc \in [Threads -> Labels]
      /\ op \in [Threads -> Requests \cup {Nobody}] /\ at \in [Threads -> 1 .. MaxFiles + 1]
  BY <1>1, BoundAssumption DEF TypeInv, TableTypes, ThreadTypes, IndexOK
<1>3. e \in Entries /\ e.n \in Nat /\ e.acl \in [1 .. MaxAcl -> Listable]
  BY <1>2 DEF Entries
<1>4. Alone(t) /\ (pc'[t] = "idle" \/ op'[t] = op[t])
  BY <1>2 DEF persist_set_acl, Alone, Done, Goto
<1>5. SUFFICES ASSUME ~raced PROVE ListInv'
  BY <1>1 DEF ListInv
<1>6. Holding(t) /\ at[t] <= count /\ e.name = op[t].file
      /\ (pc[t] \in {"append", "count"} => Listed(e, u) = {})
  BY <1>1, <1>5 DEF ListInv, Holding
<1>7. \A s \in Active : op[s].kind = "grant" => <<op[s].file, op[s].user>> \in asked'
  BY <1>1, <1>5 DEF ListInv
<1>8. ListOK(e) /\ \A i \in 1 .. MaxFiles : ListOK(slots[i])
  BY <1>2, <1>5 DEF ListInv
<1>9. CASE pc[t] = "change" /\ Goto(t, IF Listed(e, u) = {} THEN "append" ELSE "open")
           /\ UNCHANGED <<slots, op, at, buf>>
  <2>1. pc'[t] = IF Listed(e, u) = {} THEN "append" ELSE "open"
    BY <1>2, <1>9 DEF Goto
  <2>2. Holding(t)'
    <3>1. CASE Listed(e, u) = {}
      <4>1. pc'[t] = "append" /\ slots'[at'[t]] = e /\ op'[t] = op[t] /\ at'[t] = at[t]
        BY <1>9, <2>1, <3>1
      <4> HIDE DEF e
      <4>2. QED
        BY <1>1, <1>6, <3>1, <4>1 DEF Holding
    <3>2. CASE Listed(e, u) # {}
      BY <2>1, <3>2 DEF Holding
    <3>3. QED
      BY <3>1, <3>2
  <2>3. QED
    BY <1>1, <1>4, <1>9, <2>2, ListFrame
<1>10. CASE pc[t] = "append" /\ Done(t) /\ UNCHANGED slots
  <2>1. pc'[t] = "idle"
    BY <1>2, <1>10 DEF Done, Goto
  <2>2. Holding(t)'
    BY <2>1 DEF Holding
  <2>3. QED
    BY <1>1, <1>4, <1>10, <2>2, ListFrame
<1>11. ASSUME NEW d \in Entries, slots' = [slots EXCEPT ![at[t]] = d], d.name = e.name, at' = at, op' = op,
             ListOK(d), \A j \in 1 .. d.n : d.acl[j] = u \/ (j \in 1 .. e.n /\ d.acl[j] = e.acl[j]),
             Holding(t)'
      PROVE  ListInv'
  <2>1. \A s \in Threads : s # t /\ pc[s] \in {"append", "count"} => at[s] # at[t]
    BY <1>1, <1>5, OtherEntry
  <2>2. \A s \in Threads : Holding(s)'
    <3>1. ASSUME NEW s \in Threads, s # t PROVE Holding(s)'
      BY <1>1, <1>2, <1>4, <1>5, <1>11, <2>1, <3>1, HoldOthers
    <3>2. QED
      BY <1>11, <3>1
  <2>3. \A i \in 1 .. MaxFiles : slots'[i] = IF i = at[t] THEN d ELSE slots[i]
    BY <1>2, <1>11
  <2>4. \A i \in 1 .. MaxFiles : ListOK(slots'[i])
    BY <1>8, <1>11, <2>3
  <2>5. GrantsInForce'
    <3>1. SUFFICES ASSUME sound, NEW i \in 1 .. count, NEW j \in 1 .. slots'[i].n
                   PROVE  <<slots'[i].name, Acl(slots'[i], j)>> \in asked
      BY <1>1 DEF GrantsInForce
    <3>2. i \in 1 .. MaxFiles /\ \A k \in 1 .. slots[i].n : <<slots[i].name, Acl(slots[i], k)>> \in asked
      BY <1>2, <1>5, <3>1 DEF ListInv, GrantsInForce
    <3>3. CASE i # at[t]
      BY <2>3, <3>1, <3>2, <3>3
    <3>4. CASE i = at[t]
      <4>1. slots'[i] = d /\ j \in 1 .. d.n /\ d.n \in Nat
        BY <2>3, <3>2, <3>4 DEF Entries
      <4>2. Acl(d, j) = d.acl[j]
        BY <1>2, <1>11, <4>1 DEF Acl, ListOK
      <4>3. CASE d.acl[j] = u
        <5>1. <<op[t].file, op[t].user>> \in asked
          BY <1>1, <1>7 DEF Active
        <5>2. QED
          BY <1>6, <1>11, <4>1, <4>2, <4>3, <5>1
      <4>4. CASE j \in 1 .. e.n /\ d.acl[j] = e.acl[j]
        <5>1. Acl(e, j) = e.acl[j]
          BY <1>2, <1>3, <1>8, <4>4 DEF Acl, ListOK
        <5>2. QED
          BY <1>11, <3>2, <3>4, <4>1, <4>2, <4>4, <5>1
      <4>5. QED
        BY <1>11, <4>1, <4>3, <4>4
    <3>5. QED
      BY <3>3, <3>4
  <2>6. QED
    BY <1>1, <1>4, <1>5, <1>7, <2>2, <2>4, <2>5, ListKeep
<1>12. CASE pc[t] = "append" /\ e.n < MaxAcl /\ slots' = [slots EXCEPT ![at[t]].acl[e.n + 1] = u]
           /\ Goto(t, "count") /\ UNCHANGED <<op, at, buf>>
  <2> DEFINE a == [e.acl EXCEPT ![e.n + 1] = u]
             d == [e EXCEPT !.acl = a]
  <2>1. slots' = [slots EXCEPT ![at[t]] = d]
    BY <1>12
  <2>2. e.n + 1 \in 1 .. MaxAcl /\ u \in Listable
    BY <1>1, <1>2, <1>3, <1>12 DEF Listable, TypeInv, ThreadTypes, CallOK, Requests
  <2>3. a \in [1 .. MaxAcl -> Listable] /\ a[e.n + 1] = u /\ \A j \in 1 .. e.n : a[j] = e.acl[j]
    BY <1>2, <1>3, <1>12, <2>2
  <2> HIDE DEF a
  <2>4. d \in Entries /\ d.name = e.name /\ d.n = e.n /\ d.acl = a
    BY <1>3, <2>3 DEF Entries
  <2> HIDE DEF d
  <2>5. ListOK(d)
    BY <1>8, <2>3, <2>4 DEF ListOK
  <2>6. Listed(d, u) = {}
    <3>1. \A j \in 1 .. e.n : Acl(d, j) = Acl(e, j)
      BY <1>2, <1>3, <2>3, <2>4 DEF Acl
    <3>2. QED
      BY <1>6, <1>12, <2>4, <3>1 DEF Listed
  <2>7. pc'[t] = "count" /\ op'[t] = op[t] /\ at'[t] = at[t] /\ slots'[at[t]] = d
    BY <1>2, <1>12, <2>1 DEF Goto
  <2>8. Holding(t)'
    <3>1. d.n < MaxAcl /\ d.acl[d.n + 1] = u /\ d.name = op[t].file
      BY <1>6, <1>12, <2>3, <2>4
    <3> HIDE DEF u, e
    <3>2. QED
      BY <1>1, <1>6, <2>6, <2>7, <3>1 DEF Holding, u
  <2>9. QED
    BY <1>11, <1>12, <2>1, <2>3, <2>4, <2>5, <2>8
<1>13. CASE pc[t] = "count" /\ slots' = [slots EXCEPT ![at[t]].n = @ + 1]
           /\ Goto(t, "open") /\ UNCHANGED <<op, at, buf>>
  <2> DEFINE d == [e EXCEPT !.n = e.n + 1]
  <2>1. slots' = [slots EXCEPT ![at[t]] = d]
    BY <1>13
  <2>2. e.n < MaxAcl /\ e.acl[e.n + 1] = u /\ Listed(e, u) = {}
    BY <1>6, <1>13 DEF Holding
  <2>3. d \in Entries /\ d.name = e.name /\ d.n = e.n + 1 /\ d.acl = e.acl
    BY <1>3 DEF Entries
  <2> HIDE DEF d
  <2>4. \A j \in 1 .. e.n : e.acl[j] # u
    BY <1>2, <1>3, <2>2 DEF Listed, Acl
  <2>5. \A j \in 1 .. d.n : d.acl[j] = e.acl[j] /\ (j \in 1 .. e.n \/ j = e.n + 1)
    BY <1>3, <2>3
  <2>6. d.n <= MaxAcl
    BY <1>2, <1>3, <2>2, <2>3
  <2>7. \A j, k \in 1 .. d.n : d.acl[j] = d.acl[k] => j = k
    BY <1>8, <2>2, <2>4, <2>5 DEF ListOK
  <2>8. pc'[t] = "open"
    BY <1>2, <1>13 DEF Goto
  <2>9. Holding(t)'
    BY <2>8 DEF Holding
  <2>10. \A j \in 1 .. d.n : d.acl[j] = u \/ (j \in 1 .. e.n /\ d.acl[j] = e.acl[j])
    BY <2>2, <2>5
  <2>11. ListOK(d)
    BY <2>6, <2>7 DEF ListOK
  <2>12. QED
    BY <1>11, <1>13, <2>1, <2>3, <2>9, <2>10, <2>11
<1>14. QED
  BY <1>9, <1>10, <1>12, <1>13 DEF persist_set_acl

\* A revocation: the list names the user once, and then not at all; nobody else is changing
\* it.
LEMMA RevokeList ==
  ASSUME TypeInv, SoleInv, TableInv, ListInv, NEW t \in Threads, persist_remove_acl(t)
  PROVE  ListInv'
<1> DEFINE e == slots[at[t]]
           u == op[t].user
           f == op[t].file
<1>1. /\ count' = count /\ raced' = raced /\ sound' = sound /\ asked' = asked \ {<<f, u>>}
      /\ op[t].kind = "revoke" /\ pc[t] = "change" /\ pc[t] # "idle"
  BY DEF persist_remove_acl, history
<1>2. /\ slots \in [1 .. MaxFiles -> Entries] /\ count \in Nat /\ at[t] \in 1 .. MaxFiles
      /\ MaxFiles \in Nat /\ MaxAcl \in Nat /\ count <= MaxFiles /\ pc \in [Threads -> Labels]
      /\ op \in [Threads -> Requests \cup {Nobody}] /\ at \in [Threads -> 1 .. MaxFiles + 1]
  BY <1>1, BoundAssumption DEF TypeInv, TableTypes, ThreadTypes, IndexOK
<1>3. e \in Entries /\ e.n \in Nat /\ e.acl \in [1 .. MaxAcl -> Listable] /\ u \in Users
  BY <1>1, <1>2 DEF Entries, TypeInv, ThreadTypes, CallOK, Requests
<1>4. Alone(t) /\ (pc'[t] = "idle" \/ op'[t] = op[t]) /\ pc'[t] \in {"idle", "open"}
  BY <1>1, <1>2 DEF persist_remove_acl, Alone, Done, Goto
<1>5. SUFFICES ASSUME ~raced PROVE ListInv'
  BY <1>1 DEF ListInv
<1>6. at[t] <= count /\ e.name = f /\ at[t] \in 1 .. count
  BY <1>1, <1>2, <1>5 DEF ListInv, Holding
<1>7. ~torn /\ pc[hand] # "shift"
  <2>1. hand \in Threads /\ t \in Active
    BY <1>1 DEF TypeInv, HistTypes, Active
  <2>2. pc[hand] = "shift" => hand \in Active /\ hand # t /\ op[hand].kind = "remove"
    BY <1>1, <2>1 DEF TypeInv, ThreadTypes, CallOK, Active
  <2>3. QED
    BY <1>5, <2>1, <2>2 DEF ListInv, SoleInv, Overtakes
<1>8. Holding(t)'
  BY <1>4 DEF Holding
<1>9. ListOK(e) /\ \A i \in 1 .. MaxFiles : ListOK(slots[i])
  BY <1>2, <1>5 DEF ListInv
<1>10. \A s \in Active : s \in Active' /\ op[s].kind = "grant" => <<op[s].file, op[s].user>> \in asked'
  <2> SUFFICES ASSUME NEW s \in Active, op[s].kind = "grant" PROVE <<op[s].file, op[s].user>> \in asked'
    OBVIOUS
  <2>1. s # t /\ t \in Active
    BY <1>1 DEF Active
  <2>2. ~Overtakes(op[s], op[t])
    BY <1>5, <2>1 DEF ListInv
  <2>3. op[s].file # f
    BY <1>1, <2>2 DEF Overtakes
  <2>4. <<op[s].file, op[s].user>> \in asked
    BY <1>5 DEF ListInv
  <2>5. QED
    BY <1>1, <2>3, <2>4
<1>11. sound => \A i \in 1 .. count : i # at[t] => slots[i].name # f
  <2>1. Live = 1 .. count
    BY <1>1, <1>7 DEF Live
  <2>2. QED
    BY <1>6, <1>7, <2>1 DEF TableInv
<1>12. ASSUME NEW d \in Entries, slots' = [slots EXCEPT ![at[t]] = d], d.name = f, ListOK(d),
              \A j \in 1 .. d.n : d.acl[j] # u /\ \E k \in 1 .. e.n : d.acl[j] = e.acl[k]
       PROVE  ListInv'
  <2>1. \A s \in Threads : s # t /\ pc[s] \in {"append", "count"} => at[s] # at[t]
    BY <1>1, <1>5, OtherEntry
  <2>2. \A s \in Threads : Holding(s)'
    <3>1. ASSUME NEW s \in Threads, s # t PROVE Holding(s)'
      BY <1>1, <1>2, <1>4, <1>5, <1>6, <1>12, <2>1, <3>1, HoldOthers
    <3>2. QED
      BY <1>8, <3>1
  <2>3. \A i \in 1 .. MaxFiles : slots'[i] = IF i = at[t] THEN d ELSE slots[i]
    BY <1>2, <1>12
  <2>4. \A i \in 1 .. MaxFiles : ListOK(slots'[i])
    BY <1>9, <1>12, <2>3
  <2>5. GrantsInForce'
    <3>1. SUFFICES ASSUME sound, NEW i \in 1 .. count, NEW j \in 1 .. slots'[i].n
                   PROVE  <<slots'[i].name, Acl(slots'[i], j)>> \in asked'
      BY <1>1 DEF GrantsInForce
    <3>2. i \in 1 .. MaxFiles /\ \A k \in 1 .. slots[i].n : <<slots[i].name, Acl(slots[i], k)>> \in asked
      BY <1>2, <1>5, <3>1 DEF ListInv, GrantsInForce
    <3>3. CASE i # at[t]
      <4>1. slots'[i] = slots[i] /\ slots[i].name # f
        BY <1>11, <2>3, <3>1, <3>2, <3>3
      <4>2. QED
        BY <1>1, <3>1, <3>2, <4>1
    <3>4. CASE i = at[t]
      <4>1. slots'[i] = d /\ j \in 1 .. d.n /\ d.n \in Nat
        BY <2>3, <3>2, <3>4 DEF Entries
      <4>2. Acl(d, j) = d.acl[j]
        BY <1>2, <1>12, <4>1 DEF Acl, ListOK
      <4>3. PICK k \in 1 .. e.n : d.acl[j] = e.acl[k]
        BY <1>12, <4>1
      <4>4. Acl(e, k) = e.acl[k]
        BY <1>2, <1>3, <1>9 DEF Acl, ListOK
      <4>5. <<f, d.acl[j]>> \in asked
        BY <1>6, <3>2, <3>4, <4>3, <4>4
      <4>6. d.acl[j] # u
        BY <1>12, <4>1
      <4>7. QED
        BY <1>1, <1>12, <4>1, <4>2, <4>5, <4>6
    <3>5. QED
      BY <3>3, <3>4
  <2>6. QED
    BY <1>1, <1>4, <1>5, <1>10, <2>2, <2>4, <2>5, ListKeep
<1>13. CASE Listed(e, u) = {} /\ Done(t) /\ UNCHANGED slots
  <2>1. slots' = [slots EXCEPT ![at[t]] = e]
    BY <1>2, <1>13
  <2>2. \A j \in 1 .. e.n : e.acl[j] # u
    <3>1. \A j \in 1 .. e.n : Acl(e, j) = e.acl[j]
      BY <1>2, <1>3, <1>9 DEF Acl, ListOK
    <3>2. \A j \in 1 .. e.n : Acl(e, j) # u
      BY <1>13 DEF Listed
    <3>3. QED
      BY <3>1, <3>2
  <2> HIDE DEF e
  <2>3. QED
    BY <1>3, <1>6, <1>9, <1>12, <2>1, <2>2
<1>14. CASE Listed(e, u) # {}
  <2> DEFINE first == CHOOSE j \in Listed(e, u) : \A k \in Listed(e, u) : j <= k
             a == [e.acl EXCEPT ![first] = Acl(e, e.n)]
             d == [name |-> e.name, owner |-> e.owner, n |-> e.n - 1, acl |-> a]
  <2>1. first \in 1 .. MaxAcl /\ first <= e.n /\ e.acl[first] = u /\ e.n \in Nat \ {0}
    BY <1>3, <1>14, FirstListed
  <2>2. slots' = [slots EXCEPT ![at[t]] = d]
    BY <1>14, Zenon DEF persist_remove_acl
  <2> HIDE DEF first
  <2>3. Acl(e, e.n) = e.acl[e.n] /\ e.n \in 1 .. MaxAcl /\ e.n <= MaxAcl
    BY <1>2, <1>9, <2>1 DEF Acl, ListOK
  <2>4. a \in [1 .. MaxAcl -> Listable] /\ \A j \in 1 .. MaxAcl : a[j] = IF j = first THEN e.acl[e.n] ELSE e.acl[j]
    BY <1>3, <2>1, <2>3
  <2> HIDE DEF a
  <2>5. d \in Entries /\ d.name = f /\ d.n = e.n - 1 /\ d.acl = a
    BY <1>3, <1>6, <2>1, <2>4 DEF Entries
  <2> HIDE DEF d
  <2>6. \A j, k \in 1 .. e.n : e.acl[j] = e.acl[k] => j = k
    BY <1>9 DEF ListOK
  <2>7. /\ \A j \in 1 .. d.n : j \in 1 .. e.n /\ j \in 1 .. MaxAcl /\ j # e.n
        /\ first \in 1 .. e.n /\ e.n \in 1 .. e.n /\ d.n <= MaxAcl
    BY <1>2, <2>1, <2>3, <2>5
  <2> DEFINE From(j) == IF j = first THEN e.n ELSE j
  <2>8. \A j \in 1 .. d.n : From(j) \in 1 .. e.n /\ d.acl[j] = e.acl[From(j)] /\ From(j) # first
    BY <2>4, <2>5, <2>7
  <2>9. \A j, k \in 1 .. d.n : From(j) = From(k) => j = k
    BY <2>7
  <2> HIDE DEF From
  <2>10. \A j, k \in 1 .. d.n : d.acl[j] = d.acl[k] => j = k
    BY <2>6, <2>8, <2>9
  <2>11. ListOK(d)
    BY <2>7, <2>10 DEF ListOK
  <2>12. \A j \in 1 .. d.n : d.acl[j] # u
    BY <2>1, <2>6, <2>7, <2>8
  <2>13. \A j \in 1 .. d.n : \E k \in 1 .. e.n : d.acl[j] = e.acl[k]
    BY <2>8
  <2>14. QED
    BY <1>12, <2>2, <2>5, <2>11, <2>12, <2>13
<1>15. QED
  BY <1>13, <1>14 DEF persist_remove_acl

\* What is loaded is what is in force; a list that names somebody twice counts as raced.
LEMMA RestartList ==
  ASSUME TypeInv, Restart
  PROVE  ListInv'
<1> DEFINE l == Loaded(disk)
<1>1. /\ slots' = [i \in 1 .. MaxFiles |-> IF i <= Len(l) THEN Entry(l[i]) ELSE Blank]
      /\ count' = Len(l) /\ pc' = [t \in Threads |-> "idle"]
      /\ asked' = UNION {{<<l[i].name, l[i].acl[j]>> : j \in DOMAIN l[i].acl} : i \in DOMAIN l}
      /\ raced' = (\E i \in DOMAIN l : ~IsInjective(l[i].acl))
  BY RestartStep
<1>2. l \in Seq(ReadRows) /\ Len(l) <= MaxFiles
  BY LoadedType DEF TypeInv, FileTypes
<1> HIDE DEF l
<1>3. Len(l) \in Nat /\ MaxFiles \in Nat /\ DOMAIN l = 1 .. Len(l) /\ \A i \in 1 .. Len(l) : l[i] \in ReadRows
  BY <1>2, BoundAssumption
<1>4. SUFFICES ASSUME ~raced' PROVE ListInv'
  BY DEF ListInv
<1>5. Active' = {} /\ \A t \in Threads : Holding(t)'
  BY <1>1 DEF Active, Holding
<1>6. \A i \in 1 .. MaxFiles : slots'[i] = IF i <= Len(l) THEN Entry(l[i]) ELSE Blank
  BY <1>1
<1>7. ASSUME NEW i \in 1 .. Len(l)
      PROVE  /\ ListOK(Entry(l[i])) /\ Entry(l[i]).name = l[i].name
             /\ \A j \in 1 .. Entry(l[i]).n : <<l[i].name, Acl(Entry(l[i]), j)>> \in asked'
  <2> DEFINE r == l[i]
             e == Entry(r)
  <2>1. r \in ReadRows /\ IsInjective(r.acl) /\ r.acl \in Seq(Listable) /\ DOMAIN r.acl = 1 .. Len(r.acl)
    BY <1>1, <1>3, <1>4, <1>7 DEF ReadRows, Rows
  <2>2. /\ e.n = Len(r.acl) /\ e.n <= MaxAcl /\ e.name = r.name
        /\ \A j \in 1 .. Len(r.acl) : j \in 1 .. MaxAcl /\ e.acl[j] = r.acl[j]
    BY <2>1, EntryType
  <2>3. \A j \in 1 .. e.n : <<r.name, r.acl[j]>> \in asked'
    BY <1>1, <1>3, <1>7, <2>1, <2>2
  <2> HIDE DEF r, e
  <2>4. ListOK(e)
    BY <2>1, <2>2 DEF ListOK, IsInjective
  <2>5. \A j \in 1 .. e.n : Acl(e, j) = r.acl[j]
    BY <2>2 DEF Acl
  <2>6. QED
    BY <2>2, <2>3, <2>4, <2>5 DEF e, r
<1>8. ListOK(Blank)
  BY BoundAssumption DEF ListOK, Blank
<1>9. \A i \in 1 .. MaxFiles : ListOK(slots'[i])
  <2> SUFFICES ASSUME NEW i \in 1 .. MaxFiles PROVE ListOK(slots'[i])
    OBVIOUS
  <2>1. CASE i <= Len(l)
    <3>1. i \in 1 .. Len(l)
      BY <1>3, <2>1
    <3>2. QED
      BY <1>6, <1>7, <2>1, <3>1
  <2>2. CASE ~(i <= Len(l))
    BY <1>6, <1>8, <2>2
  <2>3. QED
    BY <2>1, <2>2
<1>10. \A i \in 1 .. Len(l) : slots'[i] = Entry(l[i])
  BY <1>2, <1>3, <1>6
<1>11. GrantsInForce'
  BY <1>1, <1>7, <1>10 DEF GrantsInForce
<1>12. QED
  BY <1>5, <1>9, <1>11 DEF ListInv

\* Every step keeps the lists in line with the grants.
LEMMA ListStep == TypeInv /\ SoleInv /\ TableInv /\ ListInv /\ [Next]_vars => ListInv'
<1> SUFFICES ASSUME TypeInv, SoleInv, TableInv, ListInv, [Next]_vars PROVE ListInv'
  OBVIOUS
<1>1. CASE Restart
  BY <1>1, RestartList
<1>2. ASSUME NEW t \in Threads, \E o \in Requests : Begin(t, o) PROVE ListInv'
  BY <1>2, BeginList
<1>3. ASSUME NEW t \in Threads, \/ persist_find_file(t) \/ add_metadata_entry(t)
                                \/ remove_metadata_entry(t) \/ persist_set_owner(t)
      PROVE  ListInv'
  BY <1>3, FindList, AddList, RemoveList, OwnerList
<1>4. ASSUME NEW t \in Threads, persist_set_acl(t) \/ persist_remove_acl(t) \/ save_metadata(t)
      PROVE  ListInv'
  BY <1>4, GrantList, RevokeList, SaveList
<1>5. CASE UNCHANGED <<tableVars, pc, op, at, history>>
  BY <1>5 DEF vars, tableVars, history, ListInv, Active, Holding, GrantsInForce
<1>6. QED
  BY <1>1, <1>2, <1>3, <1>4, <1>5 DEF Next, vars, OutOfBounds

-----------------------------------------------------------------------------
(* A thread that runs alone, and the file it saves *)

\* What a save that runs alone has printed and written.
PrintOK(t) ==
  /\ at[t] <= count + 1
  /\ \A i \in 1 .. Len(buf[t]) : buf[t][i] = Line(Printed(slots[i]), "whole")
  /\ Begun(disk, buf[t])

\* A step of one thread within or at the end of its operation.
LEMMA SoloFrame ==
  ASSUME TypeInv, SoloInv, NEW t \in Threads, Alone(t), pc[t] # "idle", solo' = solo,
         kept' => kept \/ t \in solo,
         t \in solo /\ pc'[t] = "print" => PrintOK(t)'
  PROVE  SoloInv'
<1>1. t \in Active /\ Active' \subseteq Active /\ solo \subseteq Threads
  BY DEF Active, Alone, TypeInv, HistTypes
<1>2. \A s \in solo : pc'[s] # "idle" => s = t /\ Active = {t} /\ Active' = {t}
  <2> SUFFICES ASSUME NEW s \in solo, pc'[s] # "idle" PROVE s = t /\ Active = {t} /\ Active' = {t}
    OBVIOUS
  <2>1. s \in Active' /\ s \in Active
    BY <1>1 DEF Active
  <2>2. Active = {s}
    BY <2>1 DEF SoloInv, Active
  <2>3. QED
    BY <1>1, <2>1, <2>2
<1>3. kept' => Active' \subseteq solo
  <2>1. t \in solo => Active = {t}
    BY DEF SoloInv
  <2>2. QED
    BY <1>1, <2>1 DEF SoloInv
<1>4. \A s \in solo : pc'[s] = "print" => PrintOK(s)'
  BY <1>2
<1>5. QED
  BY <1>2, <1>3, <1>4 DEF SoloInv, PrintOK

\* The initial state.
LEMMA SoloInit == Init => SoloInv
  BY DEF Init, SoloInv, Active

\* A command begins: its thread runs alone if no other is active.
LEMMA BeginSolo ==
  ASSUME TypeInv, SoloInv, NEW t \in Threads, NEW o \in Requests, Begin(t, o)
  PROVE  SoloInv'
<1>1. /\ pc' = [pc EXCEPT ![t] = "find"] /\ solo' = (IF Active = {} THEN {t} ELSE {})
      /\ kept' = (kept /\ Active = {}) /\ pc \in [Threads -> Labels]
  BY DEF Begin, Goto, TypeInv, ThreadTypes
<1>2. Active' = Active \cup {t} /\ pc'[t] = "find"
  BY <1>1 DEF Active
<1>3. QED
  BY <1>1, <1>2 DEF SoloInv

\* Only a save that runs alone has printed anything: the other steps of an operation.
LEMMA OtherSolo ==
  ASSUME TypeInv, SoloInv, NEW t \in Threads,
         \/ persist_find_file(t) \/ add_metadata_entry(t) \/ remove_metadata_entry(t)
         \/ persist_set_owner(t) \/ persist_set_acl(t) \/ persist_remove_acl(t)
  PROVE  SoloInv'
<1>1. /\ pc \in [Threads -> Labels] /\ op \in [Threads -> Requests \cup {Nobody}]
      /\ at \in [Threads -> 1 .. MaxFiles + 1]
  BY DEF TypeInv, ThreadTypes
<1>2. solo' = solo /\ kept' = kept /\ pc[t] # "idle"
  BY DEF persist_find_file, add_metadata_entry, remove_metadata_entry, persist_set_owner,
         persist_set_acl, persist_remove_acl, Rest, history
<1>3. Alone(t)
  BY <1>1 DEF Alone, persist_find_file, add_metadata_entry, remove_metadata_entry, persist_set_owner,
         persist_set_acl, persist_remove_acl, Rest, Done, Goto
<1>4. pc'[t] # "print"
  <2>1. CASE persist_find_file(t)
    <3>1. \A k : Then(k) \in {"shift", "open", "change"}
      <4> TAKE k
      <4>1. CASE k = "remove"
        BY <4>1 DEF Then
      <4>2. CASE k = "touch"
        BY <4>2 DEF Then
      <4>3. CASE k # "remove" /\ k # "touch"
        BY <4>3 DEF Then
      <4>4. QED
        BY <4>1, <4>2, <4>3
    <3>2. QED
      BY <1>1, <2>1, <3>1 DEF persist_find_file, Done, Goto
  <2>2. QED
    BY <1>1, <2>1 DEF add_metadata_entry, remove_metadata_entry, persist_set_owner,
         persist_set_acl, persist_remove_acl, Rest, Done, Goto
<1>5. QED
  BY <1>2, <1>3, <1>4, SoloFrame

\* fopen truncates the file.
LEMMA OpenSolo ==
  ASSUME TypeInv, SoloInv, NEW t \in Threads, SaveOpen(t)
  PROVE  SoloInv'
<1>1. /\ pc[t] = "open" /\ disk' = <<>> /\ pc' = [pc EXCEPT ![t] = "print"] /\ at' = [at EXCEPT ![t] = 1]
      /\ buf' = buf /\ slots' = slots /\ count' = count /\ solo' = solo /\ kept' = kept /\ op' = op
  BY DEF SaveOpen, Goto, tableVars, history
<1>2. /\ pc \in [Threads -> Labels] /\ at \in [Threads -> 1 .. MaxFiles + 1] /\ count \in Nat
      /\ Len(buf[t]) = 0
  BY <1>1 DEF TypeInv, ThreadTypes, TableTypes, FileTypes, BufOK
<1>3. Alone(t) /\ pc[t] # "idle" /\ at'[t] = 1
  BY <1>1, <1>2 DEF Alone
<1>4. Len(<<>>) = 0
  OBVIOUS
<1>5. Begun(<<>>, buf[t])
  BY <1>2, <1>4 DEF Begun
<1>6. PrintOK(t)'
  BY <1>1, <1>2, <1>3, <1>5 DEF PrintOK
<1>7. QED
  BY <1>1, <1>3, <1>6, SoloFrame

\* The next entry is printed.
LEMMA PrintSolo ==
  ASSUME TypeInv, SoloInv, NEW t \in Threads, SavePrint(t)
  PROVE  SoloInv'
<1> DEFINE line == Line(Printed(slots[at[t]]), "whole")
<1>1. /\ pc[t] = "print" /\ at[t] <= count /\ disk' = disk /\ pc' = pc
      /\ at' = [at EXCEPT ![t] = at[t] + 1] /\ buf' = [buf EXCEPT ![t] = Append(buf[t], line)]
      /\ slots' = slots /\ count' = count /\ solo' = solo /\ kept' = kept /\ op' = op
  BY DEF SavePrint, tableVars, history, TypeInv, ThreadTypes, FileTypes
<1>2. /\ pc \in [Threads -> Labels] /\ at \in [Threads -> 1 .. MaxFiles + 1] /\ count \in Nat
      /\ buf[t] \in Seq(Lines) /\ Len(buf[t]) = at[t] - 1 /\ buf \in [Threads -> Seq(Lines)]
      /\ disk \in Seq(Lines) /\ Len(disk) \in Nat
  BY <1>1 DEF TypeInv, ThreadTypes, TableTypes, FileTypes, BufOK
<1>3. Alone(t) /\ pc[t] # "idle" /\ at'[t] = at[t] + 1 /\ buf'[t] = Append(buf[t], line)
  BY <1>1, <1>2 DEF Alone
<1>4. ASSUME t \in solo PROVE PrintOK(t)'
  <2>1. Begun(disk, buf[t]) /\ \A i \in 1 .. Len(buf[t]) : buf[t][i] = Line(Printed(slots[i]), "whole")
    BY <1>1, <1>4 DEF SoloInv
  <2> DEFINE b == Append(buf[t], line)
  <2> HIDE DEF line
  <2>2. Len(b) = at[t] /\ b[at[t]] = line /\ \A i \in 1 .. Len(buf[t]) : b[i] = buf[t][i]
    BY <1>2
  <2> HIDE DEF b
  <2>3. at[t] \in Nat \ {0} /\ \A i \in 1 .. Len(b) : i \in 1 .. Len(buf[t]) \/ i = at[t]
    BY <1>2, <2>2
  <2>4. \A i \in 1 .. Len(b) : b[i] = Line(Printed(slots[i]), "whole")
    BY <2>1, <2>2, <2>3 DEF line
  <2>5. Begun(disk, b)
    <3>1. Len(disk) <= Len(b) /\ \A i \in 1 .. Len(disk) : i \in 1 .. Len(buf[t])
      BY <1>2, <2>1, <2>2, <2>3 DEF Begun
    <3>2. QED
      BY <2>1, <2>2, <3>1 DEF Begun
  <2>6. buf'[t] = b /\ at'[t] <= count' + 1
    BY <1>1, <1>2, <1>3, <2>3 DEF b, line
  <2>7. QED
    BY <1>1, <2>4, <2>5, <2>6 DEF PrintOK
<1>5. QED
  BY <1>1, <1>3, <1>4, SoloFrame

\* A stream that has the file to itself: the file gets its lines and nothing else.
LEMMA OverBegun ==
  ASSUME NEW b \in Seq(Lines), NEW c \in Seq(Lines), Len(c) = Len(b), disk \in Seq(Lines),
         \A i \in 1 .. Len(b) : c[i].entry = b[i].entry, Begun(disk, b)
  PROVE  Over(c) = {c}
<1>1. DOMAIN disk = 1 .. Len(disk) /\ Len(disk) <= Len(c) /\ Len(disk) \in Nat /\ Len(c) \in Nat
  BY DEF Begun
<1>2. \A i \in 1 .. Len(disk) : i \in 1 .. Len(b)
  BY <1>1
<1>3. \A i \in DOMAIN disk : disk[i].entry = c[i].entry
  BY <1>1, <1>2 DEF Begun
<1>4. QED
  BY <1>1, <1>3 DEF Over

\* A flush: what is printed is in the file, its last line perhaps cut.
LEMMA FlushSolo ==
  ASSUME TypeInv, SoloInv, NEW t \in Threads, SaveFlush(t)
  PROVE  SoloInv'
<1> DEFINE b == buf[t]
           n == Len(b)
<1>1. /\ pc[t] = "print" /\ pc' = pc /\ at' = at /\ buf' = buf /\ slots' = slots /\ count' = count
      /\ solo' = solo /\ kept' = kept /\ op' = op /\ n > Len(disk)
  BY DEF SaveFlush, tableVars, history
<1>2. b \in Seq(Lines) /\ disk \in Seq(Lines) /\ Len(disk) \in Nat /\ n \in Nat /\ n > 0
  <2>1. b \in Seq(Lines) /\ disk \in Seq(Lines)
    BY DEF TypeInv, FileTypes
  <2>2. QED
    BY <1>1, <2>1
<1>3. Alone(t) /\ pc[t] # "idle"
  BY <1>1 DEF Alone
<1>4. PICK c \in CutsOf(b[n].entry) \cup {"whole"} : disk' \in Over([b EXCEPT ![n].cut = c])
  BY DEF SaveFlush
<1> DEFINE d == [b EXCEPT ![n].cut = c]
<1>5. /\ d \in Seq(Lines) /\ Len(d) = n
      /\ \A i \in 1 .. n : /\ d[i].entry = b[i].entry
                           /\ i < n => d[i] = b[i]
                           /\ i = n => d[i].cut = c
  BY <1>2, CutLine
<1>6. ASSUME t \in solo PROVE PrintOK(t)'
  <2>1. Begun(disk, b) /\ at[t] <= count + 1 /\ \A i \in 1 .. n : b[i] = Line(Printed(slots[i]), "whole")
    BY <1>1, <1>6 DEF SoloInv
  <2> HIDE DEF d
  <2>2. Over(d) = {d}
    BY <1>2, <1>5, <2>1, OverBegun
  <2>3. disk' = d
    BY <1>4, <2>2 DEF d
  <2>4. \A i \in 1 .. n : b[i].cut = "whole"
    <3>1. \A e : Line(e, "whole").cut = "whole"
      BY DEF Line
    <3>2. QED
      BY <2>1, <3>1
  <2>5. \A i \in 1 .. n : i < n \/ i = n
    BY <1>2
  <2>6. Begun(d, b)
    BY <1>2, <1>4, <1>5, <2>4, <2>5 DEF Begun
  <2>7. QED
    BY <1>1, <2>1, <2>3, <2>6 DEF PrintOK
<1>7. QED
  BY <1>1, <1>3, <1>6, SoloFrame

\* fclose ends the operation.
LEMMA CloseSolo ==
  ASSUME TypeInv, SoloInv, NEW t \in Threads, SaveClose(t)
  PROVE  SoloInv'
<1>1. pc[t] # "idle" /\ solo' = solo /\ kept' = (t \in solo) /\ Done(t)
  BY DEF SaveClose
<1>2. Alone(t) /\ pc'[t] # "print"
  BY <1>1 DEF Alone, Done, Goto, TypeInv, ThreadTypes
<1>3. QED
  BY <1>1, <1>2, SoloFrame

\* Every step keeps what is known of a thread that runs alone.
LEMMA SoloStep == TypeInv /\ SoloInv /\ [Next]_vars => SoloInv'
<1> SUFFICES ASSUME TypeInv, SoloInv, [Next]_vars PROVE SoloInv'
  OBVIOUS
<1>1. CASE Restart
  <2>1. solo' = {} /\ pc' = [t \in Threads |-> "idle"]
    BY <1>1 DEF Restart
  <2>2. QED
    BY <2>1 DEF SoloInv, Active
<1>2. ASSUME NEW t \in Threads, \E o \in Requests : Begin(t, o) PROVE SoloInv'
  BY <1>2, BeginSolo
<1>3. ASSUME NEW t \in Threads, \/ persist_find_file(t) \/ add_metadata_entry(t)
                                \/ remove_metadata_entry(t) \/ persist_set_owner(t)
                                \/ persist_set_acl(t) \/ persist_remove_acl(t)
      PROVE  SoloInv'
  BY <1>3, OtherSolo
<1>4. ASSUME NEW t \in Threads, save_metadata(t) PROVE SoloInv'
  BY <1>4, OpenSolo, PrintSolo, FlushSolo, CloseSolo DEF save_metadata
<1>5. CASE UNCHANGED <<tableVars, disk, pc, op, at, buf, history>>
  BY <1>5 DEF tableVars, history, SoloInv, Active
<1>6. QED
  BY <1>1, <1>2, <1>3, <1>4, <1>5 DEF Next, vars, OutOfBounds

\* A step that neither prints nor writes.
LEMMA StoredFrame ==
  ASSUME StoredInv, NEW t \in Threads, Alone(t), kept' => kept, stored' = stored, sound' = sound,
         torn => torn',
         disk' = disk, pc[t] # "print",
         pc'[t] \in Unchanged => pc[t] \in Unchanged /\ Table' = Table
  PROVE  StoredInv'
<1>1. SUFFICES ASSUME kept PROVE StoredInv'
  BY DEF StoredInv
<1>2. (\A s \in Threads : pc'[s] # "print") => Reads(Loaded(disk'), stored')
  BY <1>1 DEF StoredInv, Alone
<1>3. (\A s \in Threads : pc'[s] \in Unchanged) => stored' = Table'
  BY <1>1 DEF StoredInv, Alone
<1>4. QED
  BY <1>1, <1>2, <1>3 DEF StoredInv

\* A step of a save.
LEMMA StoredPrint ==
  ASSUME StoredInv, NEW t \in Threads, kept' = kept, stored' = stored, sound' = sound, torn' = torn,
         pc'[t] = "print"
  PROVE  StoredInv'
<1>1. "print" \notin Unchanged
  BY DEF Unchanged
<1>2. QED
  BY <1>1 DEF StoredInv

\* The initial state.
LEMMA StoredInit == Init => StoredInv
<1> SUFFICES ASSUME Init PROVE StoredInv
  OBVIOUS
<1>1. disk = <<>> /\ stored = <<>> /\ count = 0 /\ <<>> \in Seq(Lines) /\ Len(<<>>) = 0
  BY DEF Init
<1>2. Loaded(<<>>) \in Seq(ReadRows) /\ Len(Loaded(<<>>)) <= 0
  <2>1. Len(<<>>) <= MaxFiles
    BY <1>1, BoundAssumption
  <2>2. \A i \in 1 .. Len(<<>>) : i < Len(<<>>) => <<>>[i].cut = "whole"
    BY <1>1
  <2>3. Loaded(<<>>) \in Seq(ReadRows)
    BY <1>1, LoadedType
  <2>4. Len(Loaded(<<>>)) <= Len(<<>>)
    BY <1>1, <2>1, <2>2, LoadedInOrder
  <2>5. QED
    BY <1>1, <2>3, <2>4
<1> DEFINE l == Loaded(<<>>)
<1> HIDE DEF l
<1>3. Len(l) = 0
  BY <1>2 DEF l
<1>4. Reads(Loaded(disk), stored)
  BY <1>1, <1>3 DEF Reads, l
<1>5. Table = <<>>
  BY <1>1 DEF Table
<1>6. QED
  BY <1>1, <1>4, <1>5 DEF StoredInv

\* A command begins.
LEMMA BeginStored ==
  ASSUME TypeInv, StoredInv, NEW t \in Threads, NEW o \in Requests, Begin(t, o)
  PROVE  StoredInv'
<1>1. /\ pc' = [pc EXCEPT ![t] = "find"] /\ op' = [op EXCEPT ![t] = o] /\ at' = at /\ pc[t] = "idle"
      /\ slots' = slots /\ count' = count /\ sound' = sound /\ stored' = stored /\ disk' = disk
      /\ (kept' => kept) /\ (torn => torn')
  BY DEF Begin, Goto, tableVars
<1>2. Alone(t)
  BY <1>1 DEF Alone, TypeInv, ThreadTypes
<1>3. Table' = Table /\ "idle" \in Unchanged
  BY <1>1 DEF Table, Unchanged
<1>4. QED
  BY <1>1, <1>2, <1>3, StoredFrame

\* A step between the search and the save: the table is the stored one until it changes.
LEMMA OtherStored ==
  ASSUME TypeInv, StoredInv, NEW t \in Threads,
         \/ persist_find_file(t) \/ add_metadata_entry(t) \/ remove_metadata_entry(t)
         \/ persist_set_owner(t) \/ persist_set_acl(t) \/ persist_remove_acl(t)
  PROVE  StoredInv'
<1>1. /\ pc \in [Threads -> Labels] /\ op \in [Threads -> Requests \cup {Nobody}]
      /\ at \in [Threads -> 1 .. MaxFiles + 1]
  BY DEF TypeInv, ThreadTypes
<1>2. kept' = kept /\ stored' = stored /\ sound' = sound /\ torn' = torn /\ disk' = disk /\ pc[t] # "print"
  BY DEF persist_find_file, add_metadata_entry, remove_metadata_entry, persist_set_owner,
         persist_set_acl, persist_remove_acl, Rest, history
<1>3. Alone(t)
  BY <1>1 DEF Alone, persist_find_file, add_metadata_entry, remove_metadata_entry, persist_set_owner,
         persist_set_acl, persist_remove_acl, Rest, Done, Goto
<1>4. pc'[t] \in Unchanged => pc[t] \in Unchanged /\ slots' = slots /\ count' = count
  <2>1. CASE persist_find_file(t)
    BY <2>1 DEF persist_find_file, Unchanged, tableVars
  <2>2. CASE add_metadata_entry(t) \/ remove_metadata_entry(t) \/ persist_set_owner(t)
    <3>1. pc'[t] \in {"fields", "open", "shift"}
      BY <1>1, <2>2 DEF add_metadata_entry, remove_metadata_entry, persist_set_owner, Goto
    <3>2. QED
      BY <3>1 DEF Unchanged
  <2>3. CASE persist_set_acl(t)
    <3>1. pc'[t] \in {"count", "open"} \/ (pc[t] \in {"change", "append"} /\ slots' = slots /\ count' = count)
      BY <1>1, <2>3 DEF persist_set_acl, Goto
    <3>2. QED
      BY <3>1 DEF Unchanged
  <2>4. CASE persist_remove_acl(t)
    <3>1. pc'[t] = "open" \/ (pc[t] = "change" /\ slots' = slots /\ count' = count)
      BY <1>1, <2>4 DEF persist_remove_acl, Goto
    <3>2. QED
      BY <3>1 DEF Unchanged
  <2>5. QED
    BY <2>1, <2>2, <2>3, <2>4
<1>5. slots' = slots /\ count' = count => Table' = Table
  BY DEF Table
<1>6. QED
  BY <1>2, <1>3, <1>4, <1>5, StoredFrame

\* fclose of a save that ran alone: the file is the table.
LEMMA CloseStored ==
  ASSUME TypeInv, TableInv, SoloInv, StoredInv, NEW t \in Threads, SaveClose(t)
  PROVE  StoredInv'
<1> DEFINE b == buf[t]
<1>1. /\ pc[t] = "print" /\ at[t] > count /\ disk' \in Over(b) /\ kept' = (t \in solo)
      /\ stored' = (IF t \in solo THEN Table ELSE stored) /\ slots' = slots /\ count' = count /\ sound' = sound
      /\ torn' = torn
  BY DEF SaveClose, tableVars
<1>2. SUFFICES ASSUME t \in solo PROVE StoredInv'
  BY <1>1 DEF StoredInv
<1>3. /\ b \in Seq(Lines) /\ disk \in Seq(Lines) /\ count \in Nat /\ at[t] \in 1 .. MaxFiles + 1
      /\ Len(b) = at[t] - 1 /\ MaxFiles \in Nat /\ count <= MaxFiles
  BY <1>1, BoundAssumption DEF TypeInv, FileTypes, TableTypes, ThreadTypes, BufOK
<1>4. /\ Begun(disk, b) /\ at[t] <= count + 1 /\ Active = {t}
      /\ \A i \in 1 .. Len(b) : b[i] = Line(Printed(slots[i]), "whole")
  BY <1>1, <1>2 DEF SoloInv
<1>5. Len(b) = count
  BY <1>1, <1>3, <1>4
<1>6. disk' = b
  <2>1. Over(b) = {b}
    BY <1>3, <1>4, OverBegun
  <2>2. QED
    BY <1>1, <2>1
<1> HIDE DEF b
<1>7. \A i \in 1 .. count : b[i] \in Lines /\ b[i].entry = Printed(slots[i]) /\ b[i].cut = "whole"
  <2>1. \A e : Line(e, "whole").entry = e /\ Line(e, "whole").cut = "whole"
    BY DEF Line
  <2>2. QED
    BY <1>3, <1>4, <1>5, <2>1
<1> DEFINE l == Loaded(b)
<1>8. Len(l) = count /\ \A i \in 1 .. Len(l) : Parsed(b[i]) = <<l[i]>>
  BY <1>3, <1>5, <1>7, LoadedInOrder
<1> HIDE DEF l
<1>9. Reads(l, Table)
  <2>1. Len(l) = Len(Table)
    BY <1>8, TableEntry
  <2>2. ASSUME NEW i \in 1 .. Len(l)
        PROVE  /\ l[i].name = Table[i].name /\ l[i].owner = Table[i].owner
               /\ Len(Table[i].acl) <= MaxAcl => l[i] = Table[i]
    <3>1. i \in 1 .. count /\ Table[i] = Printed(slots[i])
      BY <1>8, TableEntry
    <3>2. Weaker(l[i], b[i].entry) /\ l[i].owner = b[i].entry.owner
          /\ (Len(b[i].entry.acl) <= MaxAcl => l[i] = b[i].entry)
      BY <1>7, <1>8, <3>1, ParsedWeaker
    <3>3. QED
      BY <1>7, <3>1, <3>2 DEF Weaker
  <2>3. QED
    BY <2>1, <2>2 DEF Reads
<1>10. Table' = Table
  BY <1>1 DEF Table
<1>11. sound /\ ~torn => \A i, j \in 1 .. Len(Table) : Table[i].name = Table[j].name => i = j
  <2>1. pc[hand] # "shift"
    BY <1>1, <1>4 DEF Active, TypeInv, HistTypes
  <2>2. Live = 1 .. count
    BY <2>1 DEF Live
  <2>3. QED
    BY <2>2, TableEntry DEF TableInv
<1>12. stored' = Table
  BY <1>1, <1>2
<1>13. QED
  BY <1>1, <1>6, <1>9, <1>10, <1>11, <1>12 DEF StoredInv, l

\* A restart: what is loaded is the table.
LEMMA RestartStored ==
  ASSUME TypeInv, TableInv, SoloInv, StoredInv, Restart
  PROVE  StoredInv'
<1> DEFINE l == Loaded(disk)
<1>1. /\ slots' = [i \in 1 .. MaxFiles |-> IF i <= Len(l) THEN Entry(l[i]) ELSE Blank]
      /\ count' = Len(l) /\ sound' = (sound /\ kept /\ ~torn) /\ stored' = l /\ disk' = disk
  BY RestartStep
<1>2. l \in Seq(ReadRows) /\ Len(l) <= MaxFiles
  BY LoadedType DEF TypeInv, FileTypes
<1>3. sound /\ kept /\ ~torn => \A i, j \in 1 .. Len(l) : l[i].name = l[j].name => i = j
  BY LoadedNames
<1>4. Loaded(disk') = l
  BY <1>1
<1> HIDE DEF l
<1>5. Len(l) \in Nat /\ MaxFiles \in Nat /\ l = [i \in 1 .. Len(l) |-> l[i]]
      /\ \A i \in 1 .. Len(l) : l[i] \in ReadRows
  BY <1>2, BoundAssumption
<1>6. Reads(l, l)
  BY DEF Reads
<1>7. \A i \in 1 .. Len(l) : Printed(slots'[i]) = l[i]
  <2>1. \A i \in 1 .. Len(l) : slots'[i] = Entry(l[i])
    BY <1>1, <1>2, <1>5
  <2>2. QED
    BY <1>5, <2>1, EntryType
<1>8. Table' = l
  <2>1. Table' = [i \in 1 .. Len(l) |-> Printed(slots'[i])]
    BY <1>1 DEF Table
  <2>2. QED
    BY <1>5, <1>7, <2>1
<1>9. sound' => sound /\ kept /\ ~torn
  BY <1>1
<1>10. QED
  BY <1>1, <1>3, <1>4, <1>6, <1>8, <1>9 DEF StoredInv

\* Every step keeps what is known of the file.
LEMMA StoredStep == TypeInv /\ TableInv /\ SoloInv /\ StoredInv /\ [Next]_vars => StoredInv'
<1> SUFFICES ASSUME TypeInv, TableInv, SoloInv, StoredInv, [Next]_vars PROVE StoredInv'
  OBVIOUS
<1>1. CASE Restart
  BY <1>1, RestartStored
<1>2. ASSUME NEW t \in Threads, \E o \in Requests : Begin(t, o) PROVE StoredInv'
  BY <1>2, BeginStored
<1>3. ASSUME NEW t \in Threads, \/ persist_find_file(t) \/ add_metadata_entry(t)
                                \/ remove_metadata_entry(t) \/ persist_set_owner(t)
                                \/ persist_set_acl(t) \/ persist_remove_acl(t)
      PROVE  StoredInv'
  BY <1>3, OtherStored
<1>4. ASSUME NEW t \in Threads, SaveOpen(t) \/ SavePrint(t) \/ SaveFlush(t) PROVE StoredInv'
  <2>1. kept' = kept /\ stored' = stored /\ sound' = sound /\ torn' = torn
    BY <1>4 DEF SaveOpen, SavePrint, SaveFlush, history
  <2>2. pc'[t] = "print"
    BY <1>4 DEF SaveOpen, SavePrint, SaveFlush, Goto, TypeInv, ThreadTypes
  <2>3. QED
    BY <2>1, <2>2, StoredPrint
<1>5. ASSUME NEW t \in Threads, SaveClose(t) PROVE StoredInv'
  BY <1>5, CloseStored
<1>6. CASE UNCHANGED <<tableVars, disk, pc, history>>
  BY <1>6 DEF tableVars, history, StoredInv, Table
<1>7. QED
  BY <1>1, <1>2, <1>3, <1>4, <1>5, <1>6 DEF Next, save_metadata, vars, OutOfBounds

-----------------------------------------------------------------------------
(* Theorems *)

\* The parts of the invariant hold together.
LEMMA Inductive == Spec => []IndInv
<1>1. Init => IndInv
  BY TypeInit, SoleInit, TableInit, ListInit, SoloInit, StoredInit DEF IndInv
<1>2. IndInv /\ [Next]_vars => IndInv'
  BY TypeStep, SoleStep, TableStep, ListStep, SoloStep, StoredStep DEF IndInv
<1>3. QED
  BY <1>1, <1>2, PTL DEF Spec

\* file_count leaves the array only after two threads changed names at once, and unless a
\* change was overtaken no list has more users than its own; every search and save stays
\* inside the array.
THEOREM TypeCorrect == Spec => []TypeOK
<1>1. IndInv => TypeOK
  <2> SUFFICES ASSUME IndInv PROVE TypeOK
    OBVIOUS
  <2>1. \A i \in 1 .. MaxFiles : slots[i] \in Entries
    BY DEF IndInv, TypeInv, TableTypes
  <2>2. ~raced => \A i \in 1 .. MaxFiles : slots[i].n <= MaxAcl
    BY DEF IndInv, ListInv, ListOK
  <2>3. wild => torn
    BY DEF IndInv, SoleInv
  <2>4. QED
    BY <2>1, <2>2, <2>3 DEF IndInv, TypeInv, TableTypes, ThreadTypes, TypeOK, Entries, Labels, Listable
<1>2. QED
  BY <1>1, Inductive, PTL

\* As long as no two threads change names or owners at once, file_table has one entry for
\* each file that was created and not deleted, with its owner, whatever grants and saves
\* the other threads make.
THEOREM TableCorrect == Spec => []TableFollowsCommands
<1>1. IndInv => TableFollowsCommands
  <2> SUFFICES ASSUME IndInv, sound, ~torn, \A t \in Threads : pc[t] # "shift"
               PROVE  /\ {slots[i].name : i \in 1 .. count} = DOMAIN books
                      /\ \A i \in 1 .. count :
                           /\ slots[i].owner = books[slots[i].name]
                           /\ \A j \in 1 .. count : slots[i].name = slots[j].name => i = j
    BY DEF TableFollowsCommands
  <2>0. pc[hand] # "shift"
    BY DEF IndInv, TypeInv, HistTypes
  <2>1. Live = 1 .. count
    BY <2>0 DEF Live
  <2>2. /\ \A i, j \in 1 .. count : slots[i].name = slots[j].name => i = j
        /\ \A i \in 1 .. count : slots[i].name \in DOMAIN books /\ slots[i].owner = books[slots[i].name]
    BY <2>1 DEF IndInv, TableInv
  <2>3. \A f \in DOMAIN books : \E i \in 1 .. count : slots[i].name = f
    BY <2>0, <2>1 DEF IndInv, TableInv
  <2>4. {slots[i].name : i \in 1 .. count} = DOMAIN books
    <3>1. \A f : f \in {slots[i].name : i \in 1 .. count} <=> f \in DOMAIN books
      BY <2>2, <2>3
    <3>2. QED
      BY <3>1
  <2>5. QED
    BY <2>2, <2>4
<1>2. QED
  BY <1>1, Inductive, PTL

\* An access list names only users whose access is in force, if no change was overtaken.
THEOREM GrantsCorrect == Spec => []GrantsInForce
<1>1. IndInv => GrantsInForce
  BY DEF IndInv, ListInv, GrantsInForce
<1>2. QED
  BY <1>1, Inductive, PTL

\* Two sequences that agree.
LEMMA ReadsFit ==
  ASSUME NEW l \in Seq(ReadRows), NEW table \in Seq(Rows), Reads(l, table), Fit(table)
  PROVE  l = table
<1>1. Len(l) = Len(table) /\ DOMAIN table = 1 .. Len(table)
  BY DEF Reads
<1>2. \A i \in 1 .. Len(l) : l[i] = table[i]
  BY <1>1 DEF Reads, Fit
<1>3. l \in Seq(Rows)
  BY DEF ReadRows
<1>4. QED
  BY <1>1, <1>2, <1>3, SeqEqual

\* A save that ran alone is in metadata.txt: loading it gives the table.
THEOREM SoloDurable == Spec => []SoloIsDurable
<1>1. IndInv => SoloIsDurable
  <2> SUFFICES ASSUME IndInv, kept, Active = {}, Fit(Table) PROVE Loaded(disk) = Table
    BY DEF SoloIsDurable
  <2>1. \A t \in Threads : pc[t] = "idle"
    BY DEF Active
  <2>2. Reads(Loaded(disk), stored) /\ stored = Table
    BY <2>1 DEF IndInv, StoredInv, Unchanged
  <2>3. Loaded(disk) \in Seq(ReadRows) /\ stored \in Seq(Rows)
    BY LoadedType DEF IndInv, TypeInv, FileTypes
  <2>4. QED
    BY <2>2, <2>3, ReadsFit
<1>2. QED
  BY <1>1, Inductive, PTL

\* A crash during a change that runs alone: metadata.txt gives the table as it was saved
\* last, or the first entries of the new one.
THEOREM CrashSafe == Spec => []CrashLosesTail
<1>1. IndInv => CrashLosesTail
  <2> DEFINE l == Loaded(disk)
  <2> SUFFICES ASSUME IndInv, kept, Fit(Table), Fit(stored), l # stored
               PROVE  /\ Len(l) <= count
                      /\ \A i \in DOMAIN l : IF i < Len(l) THEN l[i] = Table[i] ELSE Weaker(l[i], Table[i])
    BY DEF CrashLosesTail
  <2>1. l \in Seq(ReadRows) /\ stored \in Seq(Rows) /\ disk \in Seq(Lines)
    BY LoadedType DEF IndInv, TypeInv, FileTypes
  <2>2. PICK t \in Threads : pc[t] = "print"
    <3>1. ~Reads(l, stored)
      BY <2>1, ReadsFit
    <3>2. QED
      BY <3>1 DEF IndInv, StoredInv
  <2>3. t \in solo
    BY <2>2 DEF IndInv, SoloInv, Active
  <2>4. /\ Len(l) <= Len(disk) /\ Len(disk) <= count
        /\ \A i \in 1 .. Len(l) :
              /\ Weaker(l[i], Printed(slots[i]))
              /\ i < Len(l) /\ Len(Printed(slots[i]).acl) <= MaxAcl => l[i] = Printed(slots[i])
    BY <2>2, <2>3, LoadedBegun DEF IndInv
  <2> HIDE DEF l
  <2>5. Len(l) \in Nat /\ Len(disk) \in Nat /\ count \in Nat /\ DOMAIN l = 1 .. Len(l)
    BY <2>1 DEF IndInv, TypeInv, TableTypes
  <2>6. Len(l) <= count /\ \A i \in 1 .. Len(l) : i \in 1 .. count
    BY <2>4, <2>5
  <2>7. \A i \in 1 .. count : Table[i] = Printed(slots[i]) /\ i \in DOMAIN Table
    BY TableEntry DEF IndInv
  <2>8. \A i \in 1 .. count : Len(Table[i].acl) <= MaxAcl
    BY <2>7 DEF Fit
  <2>9. \A i \in 1 .. Len(l) : Weaker(l[i], Table[i]) /\ (i < Len(l) => l[i] = Table[i])
    BY <2>4, <2>6, <2>7, <2>8
  <2>10. QED
    BY <2>5, <2>6, <2>9
<1>2. QED
  BY <1>1, Inductive, PTL
=============================================================================
