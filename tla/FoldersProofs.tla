---------------------------- MODULE FoldersProofs ----------------------------
(***************************************************************************)
(* Proofs about Folders for any number of users, files, storage servers    *)
(* and folder names, and for any bounds: types, one entry per folder name, *)
(* files that follow their folder, and counts of VIEW -l that are not      *)
(* older than the request.                                                 *)
(***************************************************************************)
EXTENDS Folders, SequenceTheorems, TLAPS

\* The characters of folder names.
CharsOf(n) == {n[i] : i \in 1..Len(n)}
Separator  == "/"
TypedChars == UNION {CharsOf(n) : n \in FolderNames}
Chars      == TypedChars \cup {Separator}

Entry == [name : FolderNames, owner : Users]
Owners == Users \cup {None}
Rec   == [owner : Owners, folder : Seq(Chars), slot : 1..Slots, words : Words]
Doc   == [owner : Owners, words : Words]
Lists == {"VIEW", "VIEWFOLDER"}
Calls == [cmd : {"none", "MOVE", "MOVEFOLDER", "CREATE", "DELETE"} \cup Lists,
          folder : Seq(Chars), flags : SUBSET {"all", "long"},
          todo : SUBSET (Files \X (1..Slots)), file : Files \cup {None},
          slot : 0..Slots, ss : Servers \cup {None}, words : Words]

Labels == {"idle", "notify", "lock", "wait", "cut", "refresh", "update", "add", "owner", "answered"}

\* The name server's variables, those of the storage servers, and the histories.
NSTypes ==
  /\ registry \in Seq(Entry) /\ Len(registry) <= MaxFolders
  /\ record \in [Files -> Rec \cup {None}]
  /\ \A f \in Present : Len(record[f].folder) <= MaxName
SSTypes ==
  /\ disk \in [Servers -> [Files -> Doc \cup {None}]]
  /\ up \in [Servers -> BOOLEAN]
  /\ slot \in [1..Slots -> [ss : Servers, open : BOOLEAN] \cup {None}]
  /\ \A i \in Online : up[slot[i].ss]
HistTypes ==
  /\ place \in [Files -> 0..Len(registry) \cup {None}]
  /\ swept \in [Files -> BOOLEAN]
  /\ requests \in 0..MaxRequests /\ outages \in 0..MaxOutages
ListTypes ==
  /\ seen \in [Users -> [Files -> SUBSET Words]]
  /\ loose \in [Files -> BOOLEAN]

\* The threads: the label of a thread tells which command it executes, and a thread that
\* talks to a storage server talks about a file and through a slot.
CallOK(label, a) ==
  /\ label \in {"idle", "answered"} => a = NoCall
  /\ label = "notify" => a.cmd = "MOVEFOLDER"
  /\ label \in {"refresh", "update"} => a.cmd \in Lists
  /\ label \in {"add", "owner"} => a.cmd = "CREATE"
  /\ label \in {"lock", "wait", "cut"} => a.cmd # "none"
  /\ a.cmd \in Lists <=> "long" \in a.flags
  /\ label \in {"lock", "wait", "cut", "update", "add", "owner"} =>
       a.file \in Files /\ a.slot \in 1..Slots
  /\ label = "wait" => a.ss \in Servers
ThreadTypes ==
  /\ pc \in [Users -> Labels]
  /\ arg \in [Users -> Calls]
  /\ \A u \in Users : CallOK(pc[u], arg[u])
  /\ \A u \in Users : pc[u] = "wait" => up[arg[u].ss]
MutexInv ==
  /\ holder \in [1..Slots -> Users \cup {None}]
  /\ \A u \in Users, i \in 1..Slots :
       holder[i] = u <=> pc[u] \in {"wait", "cut", "update"} /\ arg[u].slot = i

TypeInv == NSTypes /\ SSTypes /\ HistTypes /\ ListTypes /\ ThreadTypes /\ MutexInv

\* The folders.
FolderInv == OneFolderPerName /\ FilesFollowFolder

\* A -l listing that is under way, and one of all files.
Asking(u)  == arg[u].cmd \in Lists
Viewing(u) == arg[u].cmd = "VIEW"

\* A file that nothing has happened to since the listings under way began but WRITEs,
\* moves and refreshes.
Settled(f) == f \in Present /\ ~loose[f]

\* The server of a settled file answers, with a count the listing may show;
Current(u) ==
  \A f \in Files : Settled(f) =>
    record[f].slot \in Online /\ Reported(slot[record[f].slot].ss, f) \in seen[u][f]

\* a listing has collected the slot of that server, asks that server and is not cut off.
Knows(u) ==
  \A f \in Files : Settled(f) =>
    /\ \A i \in 1..Slots : <<f, i>> \in arg[u].todo => i = record[f].slot
    /\ pc[u] \in {"lock", "wait", "update"} /\ arg[u].file = f => arg[u].slot = record[f].slot
    /\ pc[u] = "wait" /\ arg[u].file = f => arg[u].ss = slot[record[f].slot].ss
    /\ ~(pc[u] = "cut" /\ arg[u].file = f)

ListInv == \A u \in Users : Asking(u) => Current(u) /\ Knows(u)

\* The listing has still to refresh the file.
Due(u, f)    == \E i \in 1..Slots : <<f, i>> \in arg[u].todo
Awaits(u, f) == Due(u, f) \/ (pc[u] \in {"lock", "wait", "update"} /\ arg[u].file = f)

\* A file whose turn is over shows a count of the time of the listing,
Refreshed(u) ==
  \A f \in Files : Settled(f) => Awaits(u, f) \/ record[f].words \in seen[u][f]

\* and so does a count that some thread, of this or of another listing, has received and
\* is about to store, unless the listing asks for it once more.
Storing(u) ==
  \A v \in Users, f \in Files :
    Settled(f) /\ pc[v] = "update" /\ arg[v].file = f =>
      \/ Due(u, f)
      \/ pc[u] = "lock" /\ arg[u].file = f
      \/ arg[v].words \in seen[u][f]

ViewInv == \A u \in Users : Viewing(u) => Refreshed(u) /\ Storing(u)

\* Only a thread that has answered has an answer under way.
ReplyInv ==
  /\ CountsFresh
  /\ reply = [u \in Users |-> reply[u]]
  /\ \A u \in Users : pc[u] # "answered" => reply[u] = NoReply
  /\ \A u \in Users : \A line \in reply[u].files : line[1] \in Files

IndInv == TypeInv /\ FolderInv /\ ListInv /\ ViewInv /\ ReplyInv

-----------------------------------------------------------------------------
(* Names *)

\* A name of one character.
LEMMA SingletonSeq ==
  ASSUME NEW S, NEW a \in S
  PROVE  <<a>> \in Seq(S)
  OBVIOUS

\* snprintf cuts at the buffer's size, and a name that fits is copied whole.
LEMMA FitNames ==
  ASSUME NEW s \in Seq(Chars)
  PROVE  /\ Fit(s) \in Seq(Chars) /\ Len(Fit(s)) <= MaxName
         /\ Len(s) <= MaxName => Fit(s) = s
<1>1. MaxName \in Nat \ {0} /\ Len(s) \in Nat
  BY BoundAssumption
<1>2. CASE Len(s) <= MaxName
  BY <1>1, <1>2 DEF Fit
<1>3. CASE ~(Len(s) <= MaxName)
  <2>1. Fit(s) = SubSeq(s, 1, MaxName)
    BY <1>3 DEF Fit
  <2>2. SubSeq(s, 1, MaxName) \in Seq(Chars) /\ Len(SubSeq(s, 1, MaxName)) = MaxName
    BY <1>1, <1>3
  <2>3. QED
    BY <1>1, <1>3, <2>1, <2>2
<1>4. QED
  BY <1>2, <1>3

\* A typed name is a nonempty sequence of characters that fits.
LEMMA TypedNames ==
  ASSUME NEW n \in FolderNames
  PROVE  n \in Seq(Chars) /\ n # Root /\ Len(n) <= MaxName /\ Len(n) \in Nat \ {0}
<1>1. n \in Seq(STRING) /\ n # <<>> /\ Len(n) <= MaxName
  BY NameAssumption
<1>2. \A i \in 1..Len(n) : n[i] \in Chars
  <2>1. CharsOf(n) \subseteq Chars
    BY DEF Chars, TypedChars
  <2>2. QED
    BY <2>1 DEF CharsOf
<1>3. n = [i \in 1..Len(n) |-> n[i]] /\ Len(n) \in Nat
  BY <1>1
<1>4. n \in [1..Len(n) -> Chars]
  BY <1>2, <1>3
<1>5. n \in Seq(Chars)
  BY <1>3, <1>4, SeqDef
<1>6. Len(n) # 0
  BY <1>1, EmptySeq
<1>7. QED
  BY <1>1, <1>3, <1>5, <1>6 DEF Root

\* What is behind the first characters of a name.
LEMMA AfterNames ==
  ASSUME NEW s \in Seq(Chars), NEW n \in Nat
  PROVE  /\ After(s, n) \in Seq(Chars)
         /\ n >= Len(s) => After(s, n) = <<>>
<1>1. After(s, n) \in Seq(Chars)
  BY DEF After
<1>2. ASSUME n >= Len(s) PROVE After(s, n) = <<>>
  BY <1>2, SubSeqEmpty DEF After
<1>3. QED
  BY <1>1, <1>2

\* A name starts with itself.
LEMMA StartsWithItself ==
  ASSUME NEW s \in Seq(Chars)
  PROVE  StartsWith(s, s)
<1>1. SubSeq(s, 1, Len(s)) = s
  OBVIOUS
<1>2. QED
  BY <1>1 DEF StartsWith

\* A moved folder name fits its buffer, and the folder itself gets the new name whole.
LEMMA NewFolderNames ==
  ASSUME NEW s \in Seq(Chars), NEW src \in FolderNames, NEW dst \in FolderNames
  PROVE  /\ NewFolder(s, src, dst) \in Seq(Chars)
         /\ Len(NewFolder(s, src, dst)) <= MaxName
         /\ s = src => NewFolder(s, src, dst) = dst
<1> DEFINE behind == After(s, Len(src))
           rest == IF StartsWith(behind, <<"/">>) THEN After(behind, 1) ELSE behind
<1>1. src \in Seq(Chars) /\ dst \in Seq(Chars) /\ Len(dst) <= MaxName /\ Len(src) \in Nat
  BY TypedNames
<1>2. behind \in Seq(Chars) /\ (s = src => behind = <<>>)
  BY <1>1, AfterNames
<1> HIDE DEF behind
<1>3. rest \in Seq(Chars)
  BY <1>2, AfterNames
<1>4. ASSUME s = src PROVE rest = <<>>
  <2>1. ~StartsWith(behind, <<"/">>)
    BY <1>2, <1>4 DEF StartsWith
  <2>2. QED
    BY <1>2, <1>4, <2>1
<1> HIDE DEF rest
<1>5. dst \o <<"/">> \o rest \in Seq(Chars)
  <2>1. <<"/">> \in Seq(Chars)
    <3>1. Separator \in Chars
      BY DEF Chars
    <3>2. <<Separator>> \in Seq(Chars)
      BY <3>1, SingletonSeq
    <3>3. QED
      BY <3>2 DEF Separator
  <2>2. dst \o <<"/">> \in Seq(Chars)
    BY <1>1, <2>1, ConcatProperties
  <2>3. QED
    BY <1>3, <2>2, ConcatProperties
<1>6. NewFolder(s, src, dst) = IF rest = <<>> THEN Fit(dst) ELSE Fit(dst \o <<"/">> \o rest)
  BY DEF NewFolder, rest, behind
<1>7. QED
  BY <1>1, <1>4, <1>5, <1>6, FitNames

\* The loops over the registry find the entry of a name, because there is only one.
LEMMA FindEntry ==
  ASSUME NSTypes, OneFolderPerName, NEW name \in Names
  PROVE  Find(name) \in Indices /\ registry[Find(name)].name = name
<1>1. Len(registry) \in Nat
  BY DEF NSTypes
<1>2. PICK i \in Indices : registry[i].name = name
  BY DEF Names
<1>3. \A j \in 1..(i - 1) : registry[j].name # name
  BY <1>1, <1>2 DEF OneFolderPerName, Indices
<1>4. QED
  BY <1>2, <1>3 DEF Find

\* A new record has no folder.
LEMMA NewRecordTyping ==
  ASSUME NEW u \in Owners, NEW i \in 1..Slots, NEW w \in Words
  PROVE  /\ NewRecord(u, i, w) \in Rec /\ NewRecord(u, i, w).folder = Root
         /\ Len(NewRecord(u, i, w).folder) <= MaxName
<1>1. Root \in Seq(Chars) /\ Len(Root) = 0
  BY DEF Root
<1>2. QED
  BY <1>1, BoundAssumption DEF NewRecord, Rec

\* A thread at rest.
LEMMA NoCallTyping ==
  /\ NoCall \in Calls /\ NoCall.cmd = "none" /\ NoCall.flags = {} /\ NoCall.todo = {}
  /\ NoCall.file = None /\ NoCall.folder = Root /\ NoCall.words = 0
  /\ Root \in Seq(Chars) /\ Len(Root) = 0 /\ 0 \in Words
  BY BoundAssumption DEF NoCall, Calls, Root, Words

\* A thread that executes a command on one file.
LEMMA OneFileCall ==
  ASSUME NEW cmd \in {"MOVE", "CREATE", "DELETE"}, NEW f \in Files, NEW i \in 1..Slots, NEW a,
         a = [NoCall EXCEPT !.cmd = cmd, !.file = f, !.slot = i]
  PROVE  a \in Calls /\ a.cmd = cmd /\ CallOK("lock", a) /\ "lock" \in Labels
<1>1. 0..Slots = {0} \cup 1..Slots
  BY BoundAssumption
<1>2. QED
  BY <1>1, NoCallTyping DEF NoCall, Calls, CallOK, Labels, Lists

\* What a storage server reports is a count.
LEMMA ReportedTyping ==
  ASSUME SSTypes, NEW s \in Servers, NEW f \in Files
  PROVE  Reported(s, f) \in Words
  BY NoCallTyping DEF SSTypes, Reported, Doc

-----------------------------------------------------------------------------
(* Types *)

\* The file records lose those of a slot.
LEMMA PurgeRecords ==
  ASSUME NEW i, Purge(i), record \in [Files -> Rec \cup {None}]
  PROVE  /\ record' \in [Files -> Rec \cup {None}]
         /\ \A f \in Files : record'[f] = None \/ record'[f] = record[f]
  BY DEF Purge

\* The registry and the records keep their types.
LEMMA NSTypesStep == IndInv /\ [Next]_vars => NSTypes'
<1> SUFFICES ASSUME IndInv, [Next]_vars PROVE NSTypes'
  OBVIOUS
<1> USE DEF IndInv, TypeInv
<1>1. ASSUME NEW u \in Users, NEW name \in FolderNames, handle_create_folder_request(u, name)
      PROVE  NSTypes'
  <2>1. CASE registry' = Append(registry, [name |-> name, owner |-> u]) /\ Len(registry) < MaxFolders
    <3>1. [name |-> name, owner |-> u] \in Entry
      BY DEF Entry
    <3>2. registry' \in Seq(Entry) /\ Len(registry') = Len(registry) + 1
      BY <2>1, <3>1, AppendProperties DEF NSTypes
    <3>3. QED
      BY <1>1, <2>1, <3>2, BoundAssumption DEF handle_create_folder_request, NSTypes, Present
  <2>2. CASE UNCHANGED registry
    BY <1>1, <2>2 DEF handle_create_folder_request, NSTypes, Present
  <2>3. QED
    BY <1>1, <2>1, <2>2 DEF handle_create_folder_request
<1>2. ASSUME NEW u \in Users, NEW f \in Files, NEW name \in FolderNames,
             handle_move_file_request(u, f, name)
      PROVE  NSTypes'
  <2>1. name \in Seq(Chars) /\ Len(name) <= MaxName
    BY TypedNames
  <2>2. CASE UNCHANGED record
    BY <1>2, <2>2 DEF handle_move_file_request, NSTypes, Present
  <2>3. CASE record' = [record EXCEPT ![f].folder = name] /\ f \in Present
    <3>1. record[f] \in Rec
      BY <2>3 DEF NSTypes, Present
    <3>2. [record[f] EXCEPT !.folder = name] \in Rec
          /\ [record[f] EXCEPT !.folder = name].folder = name
      BY <2>1, <3>1 DEF Rec
    <3>3. record' = [record EXCEPT ![f] = [record[f] EXCEPT !.folder = name]]
      BY <2>3
    <3>4. QED
      BY <1>2, <2>1, <3>2, <3>3 DEF handle_move_file_request, NSTypes, Present
  <2>4. QED
    BY <1>2, <2>2, <2>3 DEF handle_move_file_request, SetFolder
<1>3. ASSUME NEW u \in Users, NEW src \in FolderNames, NEW dst \in FolderNames,
             handle_move_folder_request(u, src, dst)
      PROVE  NSTypes'
  <2>1. CASE UNCHANGED nsVars
    BY <2>1 DEF NSTypes, Present, nsVars
  <2>2. CASE Movable(u, src, dst) /\ Rename(u, src, dst)
    <3>1. Find(src) \in Indices /\ registry \in Seq(Entry)
      BY <2>2, FindEntry DEF Movable, FolderInv, NSTypes
    <3>2. registry' \in Seq(Entry) /\ Len(registry') = Len(registry)
      <4>1. registry' = [registry EXCEPT ![Find(src)].name = dst]
        BY <2>2 DEF Rename
      <4> DEFINE e == [registry[Find(src)] EXCEPT !.name = dst]
      <4>2. e \in Entry
        <5>1. registry[Find(src)] \in Entry
          BY <3>1, ElementOfSeq DEF Indices
        <5>2. QED
          BY <5>1 DEF Entry
      <4>3. registry' = [registry EXCEPT ![Find(src)] = e]
        BY <4>1
      <4> HIDE DEF e
      <4>4. QED
        BY <3>1, <4>2, <4>3, ExceptSeq DEF Indices
    <3>3. ASSUME NEW f \in Files
          PROVE  /\ record'[f] \in Rec \cup {None}
                 /\ record'[f] # None => Len(record'[f].folder) <= MaxName
      <4> DEFINE s == NewFolder(record[f].folder, src, dst)
      <4>1. CASE f \in Present /\ record'[f] = [record[f] EXCEPT !.folder = s]
        <5>1. record[f] \in Rec
          BY <4>1 DEF NSTypes, Present
        <5>2. s \in Seq(Chars) /\ Len(s) <= MaxName
          BY <5>1, NewFolderNames DEF Rec
        <5> HIDE DEF s
        <5>3. [record[f] EXCEPT !.folder = s] \in Rec /\ [record[f] EXCEPT !.folder = s].folder = s
          BY <5>1, <5>2 DEF Rec
        <5>4. QED
          BY <4>1, <5>2, <5>3
      <4>2. CASE record'[f] = record[f]
        BY <4>2 DEF NSTypes, Present
      <4>3. QED
        BY <2>2, <4>1, <4>2 DEF Rename
    <3>4. record' = [f \in Files |-> record'[f]]
      BY <2>2 DEF Rename
    <3>5. QED
      BY <3>2, <3>3, <3>4 DEF NSTypes, Present
  <2>3. QED
    BY <1>3, <2>1, <2>2 DEF handle_move_folder_request
<1>4. ASSUME NEW u \in Users, NEW f \in Files, Delete(u, f)
      PROVE  NSTypes'
  <2>1. UNCHANGED registry /\ (UNCHANGED record \/ record' = [record EXCEPT ![f] = None])
    BY <1>4 DEF Delete
  <2>2. QED
    BY <2>1 DEF NSTypes, Present
<1>5. ASSUME NEW u \in Users, search_update_file_metadata(u)
      PROVE  NSTypes'
  <2>1. CASE UNCHANGED record
    BY <1>5, <2>1 DEF search_update_file_metadata, NSTypes, Present
  <2>2. CASE arg[u].file \in Present /\ record' = [record EXCEPT ![arg[u].file].words = arg[u].words]
    <3>1. arg[u].words \in Words
      BY DEF ThreadTypes, Calls
    <3> DEFINE f == arg[u].file
               r == [record[f] EXCEPT !.words = arg[u].words]
    <3>2. record[f] \in Rec
      BY <2>2 DEF NSTypes, Present
    <3>3. r \in Rec /\ r.folder = record[f].folder
      BY <3>1, <3>2 DEF Rec
    <3>4. record' = [record EXCEPT ![f] = r]
      BY <2>2
    <3> HIDE DEF r, f
    <3>5. f \in Present
      BY <2>2 DEF f
    <3>6. QED
      BY <1>5, <3>3, <3>4, <3>5 DEF search_update_file_metadata, NSTypes, Present
  <2>3. QED
    BY <1>5, <2>1, <2>2 DEF search_update_file_metadata
<1>6. ASSUME NEW u \in Users, search_add_file(u)
      PROVE  NSTypes'
  <2> DEFINE r == NewRecord(u, arg[u].slot, 0)
  <2>1. arg[u].slot \in 1..Slots /\ u \in Owners
    BY <1>6 DEF search_add_file, ThreadTypes, CallOK, Owners
  <2>2. r \in Rec /\ Len(r.folder) <= MaxName
    BY <2>1, NewRecordTyping, NoCallTyping
  <2>3. UNCHANGED registry /\ (UNCHANGED record \/ record' = [record EXCEPT ![arg[u].file] = r])
    BY <1>6 DEF search_add_file
  <2> HIDE DEF r
  <2>4. QED
    BY <2>2, <2>3 DEF NSTypes, Present
<1>7. ASSUME NEW i, Purge(i), UNCHANGED registry
      PROVE  NSTypes'
  <2>1. /\ record' \in [Files -> Rec \cup {None}]
        /\ \A f \in Files : record'[f] = None \/ record'[f] = record[f]
    BY <1>7, PurgeRecords DEF NSTypes
  <2>2. QED
    BY <1>7, <2>1 DEF NSTypes, Present
<1>8. ASSUME NEW s \in Servers, NEW i \in 1..Slots, Register(s, i)
      PROVE  NSTypes'
  <2>1. ASSUME NEW f \in Files
        PROVE  /\ record'[f] \in Rec \cup {None}
               /\ record'[f] # None => Len(record'[f].folder) <= MaxName
    <3>1. CASE record'[f] = record[f]
      BY <3>1 DEF NSTypes, Present
    <3>2. CASE disk[s][f] # None /\ record'[f] = NewRecord(disk[s][f].owner, i, disk[s][f].words)
      <4>1. disk[s][f].owner \in Owners /\ disk[s][f].words \in Words
        BY <3>2 DEF SSTypes, Doc
      <4>2. QED
        BY <3>2, <4>1, NewRecordTyping
    <3>3. QED
      BY <1>8, <3>1, <3>2 DEF Register
  <2>2. record' = [f \in Files |-> record'[f]] /\ UNCHANGED registry
    BY <1>8 DEF Register
  <2>3. QED
    BY <2>1, <2>2 DEF NSTypes, Present
<1>9. ASSUME UNCHANGED nsVars
      PROVE  NSTypes'
  BY <1>9 DEF NSTypes, Present, nsVars
<1>10. ASSUME NEW u \in Users, Request(u)
       PROVE  NSTypes'
  <2>1. ASSUME NEW cmd, NEW folder, NEW flags, View(u, cmd, folder, flags) PROVE UNCHANGED nsVars
    BY <2>1 DEF View
  <2>2. ASSUME NEW f \in Files, Create(u, f) PROVE UNCHANGED nsVars
    BY <2>2 DEF Create
  <2>3. QED
    BY <1>1, <1>2, <1>3, <1>4, <1>9, <1>10, <2>1, <2>2
       DEF Request, handle_view_request, handle_view_folder_request
<1>11. ASSUME NEW u \in Users, Thread(u)
       PROVE  NSTypes'
  <2>1. ASSUME \/ NotifyNext(u) \/ Lock(u) \/ NotifyFails(u) \/ Refresh(u) \/ GetMetadata(u)
               \/ GetMetadataFails(u) \/ ListLong(u) \/ Receive(u) \/ CreateDocument(u)
               \/ SetOwner(u) \/ DeleteDocument(u)
        PROVE  UNCHANGED nsVars
    BY <2>1 DEF NotifyNext, Lock, NotifyFails, Refresh, GetMetadata, GetMetadataFails, ListLong,
       Receive, CreateDocument, SetOwner, DeleteDocument
  <2>2. ExchangeFails(u) => Purge(arg[u].slot) /\ UNCHANGED registry
    BY DEF ExchangeFails
  <2>3. QED
    BY <1>5, <1>6, <1>7, <1>9, <1>11, <2>1, <2>2 DEF Thread
<1>12. ASSUME StorageServer
       PROVE  NSTypes'
  <2>1. ASSUME NEW s, NEW f, NEW words, Write(s, f, words) PROVE UNCHANGED nsVars
    BY <2>1 DEF Write
  <2>2. ASSUME NEW s, Stop(s) PROVE UNCHANGED nsVars
    BY <2>2 DEF Stop
  <2>3. \A i : Remove(i) => Purge(i) /\ UNCHANGED registry
    BY DEF Remove
  <2>4. QED
    BY <1>7, <1>8, <1>9, <1>12, <2>1, <2>2, <2>3 DEF StorageServer
<1>13. UNCHANGED vars => UNCHANGED nsVars
  BY DEF vars
<1>14. QED
  BY <1>9, <1>10, <1>11, <1>12, <1>13 DEF Next

\* An entry of a document in a file_table changes.
LEMMA DiskEntry ==
  ASSUME SSTypes, NEW s \in Servers, NEW f \in Files, NEW d \in Doc \cup {None},
         disk' = [disk EXCEPT ![s][f] = d], UNCHANGED <<up, slot>>
  PROVE  SSTypes'
<1>1. disk' \in [Servers -> [Files -> Doc \cup {None}]]
  BY DEF SSTypes
<1>2. QED
  BY <1>1 DEF SSTypes, Online, Active

\* A slot loses its server.
LEMMA PurgeSlots ==
  ASSUME SSTypes, NEW i, Purge(i), UNCHANGED <<disk, up>>
  PROVE  SSTypes'
<1>1. slot' \in [1..Slots -> [ss : Servers, open : BOOLEAN] \cup {None}]
  BY DEF Purge, SSTypes
<1>2. \A j \in 1..Slots : slot'[j] = None \/ slot'[j] = slot[j]
  BY DEF Purge, SSTypes
<1>3. \A j \in Online' : up[slot'[j].ss]
  BY <1>2 DEF SSTypes, Online, Active
<1>4. QED
  BY <1>1, <1>3 DEF SSTypes

\* The storage servers keep their types, and a slot whose socket is alive has a server
\* that runs.
LEMMA SSTypesStep == IndInv /\ [Next]_vars => SSTypes'
<1> SUFFICES ASSUME IndInv, [Next]_vars PROVE SSTypes'
  OBVIOUS
<1> USE DEF IndInv, TypeInv
<1>1. ASSUME NEW u \in Users, CreateDocument(u)
      PROVE  SSTypes'
  <2>1. arg[u].ss \in Servers /\ arg[u].file \in Files
    BY <1>1 DEF CreateDocument, ThreadTypes, CallOK
  <2>2. PICK s \in Servers, f \in Files : s = arg[u].ss /\ f = arg[u].file
    BY <2>1
  <2>3. PICK d : d = IF disk[s][f] = None THEN [owner |-> None, words |-> 0] ELSE disk[s][f]
    OBVIOUS
  <2>4. disk' = [disk EXCEPT ![s][f] = d] /\ UNCHANGED <<up, slot>>
    BY <1>1, <2>2, <2>3 DEF CreateDocument
  <2>5. d \in Doc \cup {None}
    BY <2>3, NoCallTyping DEF SSTypes, Doc, Owners
  <2>6. QED
    BY <2>4, <2>5, DiskEntry
<1>2. ASSUME NEW u \in Users, SetOwner(u)
      PROVE  SSTypes'
  <2>1. UNCHANGED <<up, slot>> /\ arg[u].slot \in 1..Slots /\ arg[u].file \in Files
    BY <1>2 DEF SetOwner, ThreadTypes, CallOK
  <2>2. CASE UNCHANGED disk
    BY <2>1, <2>2 DEF SSTypes, Online, Active
  <2>3. CASE /\ arg[u].slot \in Online /\ disk[slot[arg[u].slot].ss][arg[u].file] # None
             /\ disk' = [disk EXCEPT ![slot[arg[u].slot].ss][arg[u].file].owner = u]
    <3>1. slot[arg[u].slot].ss \in Servers
      BY <2>1, <2>3 DEF Online, Active, SSTypes
    <3>2. PICK s \in Servers, f \in Files : s = slot[arg[u].slot].ss /\ f = arg[u].file
      BY <2>1, <3>1
    <3>3. PICK d : d = [disk[s][f] EXCEPT !.owner = u]
      OBVIOUS
    <3>4. disk' = [disk EXCEPT ![s][f] = d]
      BY <2>3, <3>2, <3>3
    <3>5. disk[s][f] \in Doc
      BY <2>3, <3>2 DEF SSTypes
    <3>6. d \in Doc
      BY <3>3, <3>5 DEF Doc, Owners
    <3>7. QED
      BY <2>1, <3>4, <3>6, DiskEntry
  <2>4. QED
    BY <1>2, <2>2, <2>3 DEF SetOwner
<1>3. ASSUME NEW u \in Users, DeleteDocument(u)
      PROVE  SSTypes'
  <2>1. arg[u].ss \in Servers /\ arg[u].file \in Files
    BY <1>3 DEF DeleteDocument, ThreadTypes, CallOK
  <2>2. disk' = [disk EXCEPT ![arg[u].ss][arg[u].file] = None] /\ UNCHANGED <<up, slot>>
    BY <1>3 DEF DeleteDocument
  <2>3. QED
    BY <2>1, <2>2, DiskEntry
<1>4. ASSUME NEW s \in Servers, NEW f \in Files, NEW words \in Words, Write(s, f, words)
      PROVE  SSTypes'
  <2>1. disk[s][f] \in Doc
    BY <1>4 DEF Write, SSTypes
  <2>2. PICK d : d = [disk[s][f] EXCEPT !.words = words]
    OBVIOUS
  <2>3. d \in Doc
    BY <2>1, <2>2 DEF Doc
  <2>4. disk' = [disk EXCEPT ![s][f] = d] /\ UNCHANGED <<up, slot>>
    BY <1>4, <2>2 DEF Write
  <2>5. QED
    BY <2>3, <2>4, DiskEntry
<1>5. ASSUME NEW s \in Servers, Stop(s)
      PROVE  SSTypes'
  <2>1. slot' \in [1..Slots -> [ss : Servers, open : BOOLEAN] \cup {None}]
    <3>1. ASSUME NEW i \in 1..Slots, slot[i] # None
          PROVE  [slot[i] EXCEPT !.open = FALSE] \in [ss : Servers, open : BOOLEAN]
      BY <3>1 DEF SSTypes
    <3>2. QED
      BY <1>5, <3>1 DEF Stop, SSTypes, Active
  <2>2. ASSUME NEW i \in Online' PROVE slot'[i] = slot[i] /\ slot[i] # None /\ slot[i].ss # s /\ i \in Online
    <3>1. i \in 1..Slots /\ slot'[i] # None /\ slot'[i].open
      BY <2>2 DEF Online, Active
    <3>2. ASSUME slot[i] # None, slot[i].ss = s PROVE FALSE
      <4>1. slot'[i] = [slot[i] EXCEPT !.open = FALSE]
        BY <1>5, <3>1, <3>2 DEF Stop, Active
      <4>2. slot[i] \in [ss : Servers, open : BOOLEAN]
        BY <3>1, <3>2 DEF SSTypes
      <4>3. QED
        BY <3>1, <4>1, <4>2
    <3>3. slot'[i] = slot[i]
      BY <1>5, <3>1, <3>2 DEF Stop, Active
    <3>4. QED
      BY <3>1, <3>2, <3>3 DEF Online, Active
  <2>3. \A i \in Online' : up'[slot'[i].ss]
    BY <1>5, <2>2 DEF Stop, SSTypes, Online, Active
  <2>4. up' \in [Servers -> BOOLEAN] /\ UNCHANGED disk
    BY <1>5 DEF Stop, SSTypes
  <2>5. QED
    BY <2>1, <2>3, <2>4 DEF SSTypes
<1>6. ASSUME NEW s \in Servers, NEW i \in 1..Slots, Register(s, i)
      PROVE  SSTypes'
  <2>1. /\ slot' = [slot EXCEPT ![i] = [ss |-> s, open |-> TRUE]]
        /\ up' = [up EXCEPT ![s] = TRUE] /\ UNCHANGED disk
    BY <1>6 DEF Register
  <2>2. \A j \in Online' : up'[slot'[j].ss]
    BY <2>1 DEF SSTypes, Online, Active
  <2>3. QED
    BY <2>1, <2>2 DEF SSTypes
<1>7. ASSUME NEW i, Purge(i), UNCHANGED <<disk, up>>
      PROVE  SSTypes'
  BY <1>7, PurgeSlots
<1>8. ASSUME UNCHANGED ssVars
      PROVE  SSTypes'
  BY <1>8 DEF SSTypes, Online, Active, ssVars
<1>9. ASSUME NEW u \in Users, Request(u)
      PROVE  SSTypes'
  <2>1. UNCHANGED ssVars
    BY <1>9 DEF Request, handle_create_folder_request, handle_move_file_request,
       handle_move_folder_request, handle_view_request, handle_view_folder_request, View, Create, Delete
  <2>2. QED
    BY <1>8, <2>1
<1>10. ASSUME NEW u \in Users, Thread(u)
       PROVE  SSTypes'
  <2>1. ASSUME \/ NotifyNext(u) \/ Lock(u) \/ NotifyFails(u) \/ Refresh(u) \/ GetMetadata(u)
               \/ GetMetadataFails(u) \/ search_update_file_metadata(u) \/ ListLong(u)
               \/ Receive(u) \/ search_add_file(u)
        PROVE  UNCHANGED ssVars
    BY <2>1 DEF NotifyNext, Lock, NotifyFails, Refresh, GetMetadata, GetMetadataFails,
       search_update_file_metadata, ListLong, Receive, search_add_file
  <2>2. ExchangeFails(u) => Purge(arg[u].slot) /\ UNCHANGED <<disk, up>>
    BY DEF ExchangeFails
  <2>3. QED
    BY <1>1, <1>2, <1>3, <1>7, <1>8, <1>10, <2>1, <2>2 DEF Thread
<1>11. ASSUME StorageServer
       PROVE  SSTypes'
  <2>1. \A i : Remove(i) => Purge(i) /\ UNCHANGED <<disk, up>>
    BY DEF Remove
  <2>2. QED
    BY <1>4, <1>5, <1>6, <1>7, <1>11, <2>1 DEF StorageServer
<1>12. UNCHANGED vars => UNCHANGED ssVars
  BY DEF vars
<1>13. QED
  BY <1>8, <1>9, <1>10, <1>11, <1>12 DEF Next

\* Files come into the root.
LEMMA InRootTyping ==
  ASSUME HistTypes, NSTypes, NEW F, InRoot(F), UNCHANGED registry
  PROVE  /\ place' \in [Files -> 0..Len(registry') \cup {None}]
         /\ swept' \in [Files -> BOOLEAN]
  BY DEF InRoot, HistTypes, NSTypes

\* The histories of the folders and the counters keep their types.
LEMMA HistTypesStep == IndInv /\ [Next]_vars => HistTypes'
<1> SUFFICES ASSUME IndInv, [Next]_vars PROVE HistTypes'
  OBVIOUS
<1> USE DEF IndInv, TypeInv
<1> DEFINE PlaceOK == place \in [Files -> 0..Len(registry) \cup {None}] /\ swept \in [Files -> BOOLEAN]
<1>1. ASSUME UNCHANGED <<registry, place, swept>>
      PROVE  PlaceOK'
  BY <1>1 DEF HistTypes
<1>2. ASSUME NEW F, InRoot(F), UNCHANGED registry
      PROVE  PlaceOK'
  BY <1>2, InRootTyping
<1>3. ASSUME NEW u \in Users, NEW name \in FolderNames, handle_create_folder_request(u, name)
      PROVE  PlaceOK'
  <2>1. Len(registry) \in Nat /\ (registry' = registry \/ Len(registry') = Len(registry) + 1)
    BY <1>3 DEF handle_create_folder_request, NSTypes
  <2>2. UNCHANGED <<place, swept>>
    BY <1>3 DEF handle_create_folder_request, histVars
  <2>3. QED
    BY <2>1, <2>2 DEF HistTypes
<1>4. ASSUME NEW u \in Users, NEW f \in Files, NEW name \in FolderNames,
             handle_move_file_request(u, f, name)
      PROVE  PlaceOK'
  <2>1. ASSUME name \in Names PROVE Find(name) \in 0..Len(registry)
    BY <2>1, FindEntry DEF Indices, FolderInv, NSTypes
  <2>2. UNCHANGED registry /\ (SetFolder(f, name) \/ UNCHANGED <<place, swept>>)
    BY <1>4 DEF handle_move_file_request
  <2>3. QED
    BY <2>1, <2>2 DEF SetFolder, HistTypes
<1>5. ASSUME NEW u \in Users, NEW src \in FolderNames, NEW dst \in FolderNames,
             handle_move_folder_request(u, src, dst)
      PROVE  PlaceOK'
  <2>1. Len(registry') = Len(registry) /\ UNCHANGED place
    BY <1>5 DEF handle_move_folder_request, Rename, nsVars
  <2>2. swept' \in [Files -> BOOLEAN]
    BY <1>5 DEF handle_move_folder_request, Rename, HistTypes
  <2>3. QED
    BY <2>1, <2>2 DEF HistTypes
<1> HIDE DEF PlaceOK
<1>6. ASSUME NEW u \in Users, Request(u)
      PROVE  PlaceOK'
  <2>1. ASSUME NEW cmd, NEW folder, NEW flags, View(u, cmd, folder, flags)
        PROVE  UNCHANGED <<registry, place, swept>>
    BY <2>1 DEF View, nsVars
  <2>2. ASSUME NEW f \in Files, Create(u, f) PROVE UNCHANGED <<registry, place, swept>>
    BY <2>2 DEF Create, nsVars, histVars
  <2>3. ASSUME NEW f \in Files, Delete(u, f)
        PROVE  UNCHANGED registry /\ (InRoot({f}) \/ UNCHANGED <<place, swept>>)
    BY <2>3 DEF Delete, histVars
  <2>4. QED
    BY <1>1, <1>2, <1>3, <1>4, <1>5, <1>6, <2>1, <2>2, <2>3
       DEF Request, handle_view_request, handle_view_folder_request
<1>7. ASSUME NEW u \in Users, Thread(u)
      PROVE  PlaceOK'
  <2>1. ASSUME \/ NotifyNext(u) \/ Lock(u) \/ NotifyFails(u) \/ Refresh(u) \/ GetMetadata(u)
               \/ GetMetadataFails(u) \/ search_update_file_metadata(u) \/ ListLong(u)
               \/ Receive(u) \/ CreateDocument(u) \/ SetOwner(u) \/ DeleteDocument(u)
        PROVE  UNCHANGED <<registry, place, swept>>
    BY <2>1 DEF NotifyNext, Lock, NotifyFails, Refresh, GetMetadata, GetMetadataFails, nsVars,
       search_update_file_metadata, ListLong, Receive, CreateDocument, SetOwner, DeleteDocument, histVars
  <2>2. ExchangeFails(u) => UNCHANGED registry /\ \E F : InRoot(F)
    BY DEF ExchangeFails, Purge
  <2>3. ASSUME search_add_file(u)
        PROVE  UNCHANGED registry /\ (InRoot({arg[u].file}) \/ UNCHANGED <<place, swept>>)
    BY <2>3 DEF search_add_file
  <2>4. QED
    BY <1>1, <1>2, <1>7, <2>1, <2>2, <2>3 DEF Thread
<1>8. ASSUME StorageServer
      PROVE  PlaceOK'
  <2>1. ASSUME NEW s, NEW f, NEW words, Write(s, f, words) PROVE UNCHANGED <<registry, place, swept>>
    BY <2>1 DEF Write, nsVars
  <2>2. ASSUME NEW s, Stop(s) PROVE UNCHANGED <<registry, place, swept>>
    BY <2>2 DEF Stop, nsVars
  <2>3. ASSUME NEW i, Remove(i) PROVE UNCHANGED registry /\ \E F : InRoot(F)
    BY <2>3 DEF Remove, Purge
  <2>4. ASSUME NEW s, NEW i, Register(s, i) PROVE UNCHANGED registry /\ \E F : InRoot(F)
    BY <2>4 DEF Register
  <2>5. QED
    BY <1>1, <1>2, <1>8, <2>1, <2>2, <2>3, <2>4 DEF StorageServer
<1>9. UNCHANGED vars => UNCHANGED <<registry, place, swept>>
  BY DEF vars, nsVars, histVars
<1>10. requests' \in 0..MaxRequests /\ outages' \in 0..MaxOutages
  <2>1. ASSUME NEW u \in Users, Request(u)
        PROVE  requests < MaxRequests /\ requests' = requests + 1 /\ UNCHANGED outages
    BY <2>1 DEF Request, handle_create_folder_request, handle_move_file_request, Begin,
       handle_move_folder_request, handle_view_request, handle_view_folder_request, View, Create, Delete
  <2>2. ASSUME NEW u \in Users, Thread(u) PROVE UNCHANGED <<requests, outages>>
    BY <2>2 DEF Thread
  <2>3. ASSUME StorageServer
        PROVE  UNCHANGED requests /\ (UNCHANGED outages \/ (outages < MaxOutages /\ outages' = outages + 1))
    BY <2>3 DEF StorageServer
  <2>4. UNCHANGED vars => UNCHANGED <<requests, outages>>
    BY DEF vars
  <2>5. \/ requests < MaxRequests /\ requests' = requests + 1 /\ UNCHANGED outages
        \/ UNCHANGED requests /\ (UNCHANGED outages \/ (outages < MaxOutages /\ outages' = outages + 1))
    BY <2>1, <2>2, <2>3, <2>4 DEF Next
  <2>6. QED
    BY <2>5, BoundAssumption DEF HistTypes
<1>11. PlaceOK'
  BY <1>1, <1>6, <1>7, <1>8, <1>9 DEF Next
<1>12. QED
  BY <1>10, <1>11 DEF HistTypes, PlaceOK

\* The histories of the listings keep their types.
LEMMA ListTypesStep == IndInv /\ [Next]_vars => ListTypes'
<1> SUFFICES ASSUME IndInv, [Next]_vars PROVE ListTypes'
  OBVIOUS
<1> USE DEF IndInv, TypeInv
<1>1. ASSUME NEW F, Unsettle(F) PROVE loose' \in [Files -> BOOLEAN]
  BY <1>1 DEF Unsettle, ListTypes
<1>2. ASSUME NEW f \in Files, NEW words \in Words, SeenNow(f, words)
      PROVE  seen' \in [Users -> [Files -> SUBSET Words]]
  <2>1. ASSUME NEW u \in Users
        PROVE  [seen[u] EXCEPT ![f] = @ \cup {words}] \in [Files -> SUBSET Words]
    BY DEF ListTypes
  <2>2. QED
    BY <1>2, <2>1 DEF SeenNow, ListTypes
<1>3. ASSUME NEW u \in Users, NEW cmd \in Lists, NEW folder \in FolderNames \cup {Root},
             NEW flags \in Flags, View(u, cmd, folder, flags)
      PROVE  ListTypes'
  <2>1. PICK now : now = [f \in Files |-> CountsNow(f)]
    OBVIOUS
  <2>2. ASSUME NEW f \in Files PROVE CountsNow(f) \subseteq Words
    <3>1. \A s \in Servers : disk[s][f] # None => disk[s][f].words \in Words
      BY DEF SSTypes, Doc
    <3>2. Served(f) => slot[record[f].slot].ss \in Servers
      BY DEF Served, Online, Active, SSTypes
    <3>3. Served(f) => Reported(slot[record[f].slot].ss, f) \in Words
      BY <3>2, ReportedTyping
    <3>4. QED
      BY <3>1, <3>3 DEF CountsNow
  <2>3. now \in [Files -> SUBSET Words]
    BY <2>1, <2>2
  <2>4. UNCHANGED listVars \/ (seen' = [seen EXCEPT ![u] = now] /\ loose' \in [Files -> BOOLEAN])
    BY <1>3, <2>1 DEF View, ListTypes
  <2>5. QED
    BY <2>3, <2>4 DEF ListTypes, listVars
<1>4. ASSUME NEW u \in Users, Receive(u)
      PROVE  ListTypes'
  <2>1. NotSeen \in [Files -> SUBSET Words]
    BY DEF NotSeen
  <2>2. loose' \in [Files -> BOOLEAN]
    BY <1>4 DEF Receive, ListTypes
  <2>3. QED
    BY <1>4, <2>1, <2>2 DEF Receive, ListTypes
<1>5. ASSUME UNCHANGED listVars
      PROVE  ListTypes'
  BY <1>5 DEF ListTypes, listVars
<1>6. ASSUME NEW F, Unsettle(F), UNCHANGED seen
      PROVE  ListTypes'
  BY <1>1, <1>6 DEF ListTypes
<1>7. ASSUME NEW u \in Users, search_add_file(u)
      PROVE  ListTypes'
  <2>1. arg[u].file \in Files /\ SeenNow(arg[u].file, 0) /\ Unsettle({arg[u].file})
    BY <1>7 DEF search_add_file, ThreadTypes, CallOK
  <2>2. QED
    BY <1>1, <1>2, <2>1, NoCallTyping DEF ListTypes
<1>8. ASSUME NEW u \in Users, Request(u)
      PROVE  ListTypes'
  <2>1. ASSUME \/ \E name \in FolderNames : handle_create_folder_request(u, name)
               \/ \E f \in Files, name \in FolderNames : handle_move_file_request(u, f, name)
               \/ \E src, dst \in FolderNames : handle_move_folder_request(u, src, dst)
               \/ \E f \in Files : Create(u, f)
        PROVE  UNCHANGED listVars
    BY <2>1 DEF handle_create_folder_request, handle_move_file_request, handle_move_folder_request,
       Create, histVars
  <2>2. ASSUME NEW f \in Files, Delete(u, f)
        PROVE  UNCHANGED listVars \/ (Unsettle({f}) /\ UNCHANGED seen)
    BY <2>2 DEF Delete, histVars
  <2>3. QED
    BY <1>3, <1>5, <1>6, <1>8, <2>1, <2>2
       DEF Request, handle_view_request, handle_view_folder_request, Lists
<1>9. ASSUME NEW u \in Users, Thread(u)
      PROVE  ListTypes'
  <2>1. ASSUME \/ NotifyNext(u) \/ Lock(u) \/ NotifyFails(u) \/ Refresh(u) \/ GetMetadata(u)
               \/ GetMetadataFails(u) \/ search_update_file_metadata(u) \/ ListLong(u) \/ SetOwner(u)
        PROVE  UNCHANGED listVars
    BY <2>1 DEF NotifyNext, Lock, NotifyFails, Refresh, GetMetadata, GetMetadataFails,
       search_update_file_metadata, ListLong, SetOwner, histVars
  <2>2. ASSUME CreateDocument(u) \/ DeleteDocument(u) \/ ExchangeFails(u)
        PROVE  UNCHANGED seen /\ \E F : Unsettle(F)
    BY <2>2 DEF CreateDocument, DeleteDocument, ExchangeFails, Purge
  <2>3. QED
    BY <1>4, <1>5, <1>6, <1>7, <1>9, <2>1, <2>2 DEF Thread
<1>10. ASSUME StorageServer
       PROVE  ListTypes'
  <2>1. ASSUME NEW s, NEW f \in Files, NEW words \in Words, Write(s, f, words) PROVE ListTypes'
    BY <1>2, <2>1 DEF Write, ListTypes
  <2>2. ASSUME \/ \E s \in Servers : Stop(s)
               \/ \E i \in 1..Slots : Remove(i)
               \/ \E s \in Servers, i \in 1..Slots : Register(s, i)
        PROVE  UNCHANGED seen /\ \E F : Unsettle(F)
    BY <2>2 DEF Stop, Remove, Register, Purge
  <2>3. QED
    BY <1>6, <1>10, <2>1, <2>2 DEF StorageServer
<1>11. UNCHANGED vars => UNCHANGED listVars
  BY DEF vars, histVars
<1>12. QED
  BY <1>5, <1>8, <1>9, <1>10, <1>11 DEF Next

\* A thread that answers is at rest.
LEMMA AnswerThread ==
  ASSUME ThreadTypes, NEW u \in Users, NEW answer, Answer(u, answer), UNCHANGED up
  PROVE  ThreadTypes'
  BY NoCallTyping DEF Answer, ThreadTypes, CallOK, Labels, Lists

\* A thread goes on with a command that fits its label.
LEMMA ContinueThread ==
  ASSUME ThreadTypes, NEW u \in Users, NEW label \in Labels, NEW a \in Calls,
         CallOK(label, a), Continue(u, label, a), label = "wait" => up[a.ss], UNCHANGED up
  PROVE  ThreadTypes'
  BY DEF Continue, ThreadTypes

\* A thread begins a command on one file.
LEMMA OneFileThread ==
  ASSUME ThreadTypes, NEW u \in Users, NEW cmd \in {"MOVE", "CREATE", "DELETE"}, NEW f \in Files,
         NEW i \in 1..Slots, NEW a, a = [NoCall EXCEPT !.cmd = cmd, !.file = f, !.slot = i],
         Continue(u, "lock", a), UNCHANGED up
  PROVE  ThreadTypes'
<1>1. a \in Calls /\ CallOK("lock", a) /\ "lock" \in Labels
  BY OneFileCall
<1>2. QED
  BY <1>1, ContinueThread

\* A thread turns to the next of the files it has collected.
LEMMA ProceedThread ==
  ASSUME ThreadTypes, NEW u \in Users, NEW label \in {"notify", "refresh"}, pc[u] = label,
         Proceed(u, label), UNCHANGED up
  PROVE  ThreadTypes'
<1>0. PICK e \in arg[u].todo :
        Continue(u, IF e[2] \in Active THEN "lock" ELSE label,
                 [arg[u] EXCEPT !.todo = @ \ {e}, !.file = e[1], !.slot = e[2]])
  BY DEF Proceed
<1>1. PICK a :
        /\ a = [arg[u] EXCEPT !.todo = @ \ {e}, !.file = e[1], !.slot = e[2]]
        /\ Continue(u, IF e[2] \in Active THEN "lock" ELSE label, a)
  BY <1>0
<1>2. arg[u] \in Calls /\ CallOK(label, arg[u])
  BY DEF ThreadTypes
<1>3. e \in Files \X (1..Slots)
  BY <1>2 DEF Calls
<1>4. e[1] \in Files /\ e[2] \in 1..Slots /\ 1..Slots \subseteq 0..Slots
  BY <1>3
<1>5. PICK next \in {"lock", label} : Continue(u, next, a)
  BY <1>1
<1>6. a \in Calls /\ a.cmd = arg[u].cmd /\ a.flags = arg[u].flags /\ a.file = e[1] /\ a.slot = e[2]
  BY <1>1, <1>2, <1>4 DEF Calls
<1>7. CallOK(next, a) /\ next \in Labels
  BY <1>2, <1>4, <1>6 DEF CallOK, Labels, Lists
<1>8. QED
  BY <1>5, <1>6, <1>7, ContinueThread

\* The threads keep their types, and their labels fit their commands.
LEMMA ThreadTypesStep == IndInv /\ [Next]_vars => ThreadTypes'
<1> SUFFICES ASSUME IndInv, [Next]_vars PROVE ThreadTypes'
  OBVIOUS
<1> USE DEF IndInv, TypeInv
<1>1. ASSUME NEW u \in Users, NEW name \in FolderNames, handle_create_folder_request(u, name)
      PROVE  ThreadTypes'
  BY <1>1, AnswerThread DEF handle_create_folder_request, ssVars
<1>2. ASSUME NEW u \in Users, NEW f \in Files, NEW name \in FolderNames,
             handle_move_file_request(u, f, name)
      PROVE  ThreadTypes'
  <2>1. UNCHANGED up
    BY <1>2 DEF handle_move_file_request, ssVars
  <2>2. CASE Answer(u, ERROR)
    BY <2>1, <2>2, AnswerThread
  <2>3. ASSUME NEW i \in 1..Slots, NEW a, Continue(u, "lock", a),
               a = [NoCall EXCEPT !.cmd = "MOVE", !.file = f, !.slot = i]
        PROVE  ThreadTypes'
    BY <2>1, <2>3, OneFileThread
  <2>4. record[f].slot \in Active => record[f].slot \in 1..Slots
    BY DEF Active
  <2>5. QED
    BY <1>2, <2>2, <2>3, <2>4 DEF handle_move_file_request
<1>3. ASSUME NEW u \in Users, NEW src \in FolderNames, NEW dst \in FolderNames,
             handle_move_folder_request(u, src, dst)
      PROVE  ThreadTypes'
  <2>1. UNCHANGED up
    BY <1>3 DEF handle_move_folder_request, ssVars
  <2>2. CASE Rename(u, src, dst)
    <3>1. PICK todo, a : /\ todo = WithSlots({f \in Present : StartsWith(record[f].folder, src)})
                         /\ a = [NoCall EXCEPT !.cmd = "MOVEFOLDER", !.todo = todo]
                         /\ Continue(u, "notify", a)
      BY <2>2 DEF Rename
    <3>2. todo \subseteq Files \X (1..Slots)
      BY <3>1 DEF WithSlots, Present, NSTypes, Rec
    <3>3. a \in Calls /\ CallOK("notify", a) /\ "notify" \in Labels
      BY <3>1, <3>2, NoCallTyping DEF NoCall, Calls, CallOK, Labels, Lists
    <3>4. QED
      BY <2>1, <3>1, <3>3, ContinueThread
  <2>3. QED
    BY <1>3, <2>1, <2>2, AnswerThread DEF handle_move_folder_request
<1>4. ASSUME NEW u \in Users, NEW cmd \in Lists, NEW folder \in FolderNames \cup {Root},
             NEW flags \in Flags, View(u, cmd, folder, flags)
      PROVE  ThreadTypes'
  <2>1. UNCHANGED up
    BY <1>4 DEF View, ssVars
  <2>2. CASE \E list : Answer(u, list)
    BY <2>1, <2>2, AnswerThread
  <2>3. ASSUME NEW todo, NEW a, todo = WithSlots(Collected(cmd, folder)), "long" \in flags,
               a = [NoCall EXCEPT !.cmd = cmd, !.folder = folder, !.flags = flags, !.todo = todo],
               Continue(u, "refresh", a)
        PROVE  ThreadTypes'
    <3>1. todo \subseteq Files \X (1..Slots)
      BY <2>3 DEF WithSlots, Collected, Present, NSTypes, Rec
    <3>2. folder \in Seq(Chars) /\ flags \subseteq {"all", "long"}
      BY TypedNames, NoCallTyping, BoundAssumption
    <3>3. a \in Calls /\ CallOK("refresh", a) /\ "refresh" \in Labels
      BY <2>3, <3>1, <3>2, NoCallTyping DEF NoCall, Calls, CallOK, Labels, Lists
    <3>4. QED
      BY <2>1, <2>3, <3>3, ContinueThread
  <2>4. QED
    BY <1>4, <2>2, <2>3 DEF View
<1>5. ASSUME NEW u \in Users, NEW f \in Files, Create(u, f)
      PROVE  ThreadTypes'
  <2>1. UNCHANGED up
    BY <1>5 DEF Create, ssVars
  <2>2. ASSUME NEW i \in 1..Slots, NEW a, Continue(u, "lock", a),
               a = [NoCall EXCEPT !.cmd = "CREATE", !.file = f, !.slot = i]
        PROVE  ThreadTypes'
    BY <2>1, <2>2, OneFileThread
  <2>3. Active \subseteq 1..Slots
    BY DEF Active
  <2>4. QED
    BY <1>5, <2>1, <2>2, <2>3, AnswerThread DEF Create
<1>6. ASSUME NEW u \in Users, NEW f \in Files, Delete(u, f)
      PROVE  ThreadTypes'
  <2>1. UNCHANGED up
    BY <1>6 DEF Delete, ssVars
  <2>2. ASSUME NEW i \in 1..Slots, NEW a, Continue(u, "lock", a),
               a = [NoCall EXCEPT !.cmd = "DELETE", !.file = f, !.slot = i]
        PROVE  ThreadTypes'
    BY <2>1, <2>2, OneFileThread
  <2>3. record[f].slot \in Active => record[f].slot \in 1..Slots
    BY DEF Active
  <2>4. QED
    BY <1>6, <2>1, <2>2, <2>3, AnswerThread DEF Delete
<1>7. ASSUME NEW u \in Users, NotifyNext(u)
      PROVE  ThreadTypes'
  BY <1>7, AnswerThread, ProceedThread DEF NotifyNext, ssVars
<1>8. ASSUME NEW u \in Users, Lock(u)
      PROVE  ThreadTypes'
  <2>1. UNCHANGED up /\ pc[u] = "lock" /\ arg[u] \in Calls /\ CallOK("lock", arg[u])
    BY <1>8 DEF Lock, ThreadTypes, ssVars
  <2>2. CASE Continue(u, "cut", arg[u])
    <3>1. CallOK("cut", arg[u]) /\ "cut" \in Labels
      BY <2>1 DEF CallOK, Labels
    <3>2. QED
      BY <2>1, <2>2, <3>1, ContinueThread
  <2>3. ASSUME NEW a, a = [arg[u] EXCEPT !.ss = slot[arg[u].slot].ss], arg[u].slot \in Online,
               Continue(u, "wait", a)
        PROVE  ThreadTypes'
    <3>1. slot[arg[u].slot].ss \in Servers /\ up[slot[arg[u].slot].ss]
      BY <2>3 DEF SSTypes, Online, Active
    <3>2. a \in Calls /\ a.ss = slot[arg[u].slot].ss /\ CallOK("wait", a) /\ "wait" \in Labels
      BY <2>1, <2>3, <3>1 DEF Calls, CallOK, Labels
    <3>3. QED
      BY <2>1, <2>3, <3>1, <3>2, ContinueThread
  <2>4. QED
    BY <1>8, <2>2, <2>3 DEF Lock
<1>9. ASSUME NEW u \in Users, NotifyFails(u)
      PROVE  ThreadTypes'
  <2>1. UNCHANGED up /\ arg[u] \in Calls /\ CallOK("cut", arg[u])
    BY <1>9 DEF NotifyFails, ThreadTypes, ssVars
  <2>2. arg[u].cmd = "MOVEFOLDER" => CallOK("notify", arg[u])
    BY <2>1 DEF CallOK
  <2>3. QED
    BY <1>9, <2>1, <2>2, AnswerThread, ContinueThread DEF NotifyFails, Labels
<1>10. ASSUME NEW u \in Users, Refresh(u)
       PROVE  ThreadTypes'
  BY <1>10, ProceedThread DEF Refresh, ssVars
<1>11. ASSUME NEW u \in Users, GetMetadata(u)
       PROVE  ThreadTypes'
  <2>1. UNCHANGED up /\ arg[u] \in Calls /\ CallOK("wait", arg[u]) /\ arg[u].cmd \in Lists
    BY <1>11 DEF GetMetadata, ThreadTypes, Lists, ssVars
  <2>2. Reported(arg[u].ss, arg[u].file) \in Words
    BY <2>1, ReportedTyping DEF CallOK
  <2>3. PICK a : a = [arg[u] EXCEPT !.words = Reported(arg[u].ss, arg[u].file)]
    OBVIOUS
  <2>4. a \in Calls /\ CallOK("update", a) /\ "update" \in Labels
    BY <2>1, <2>2, <2>3 DEF Calls, CallOK, Labels
  <2>5. QED
    BY <1>11, <2>1, <2>3, <2>4, ContinueThread DEF GetMetadata
<1>12. ASSUME NEW u \in Users, GetMetadataFails(u) \/ search_update_file_metadata(u)
       PROVE  ThreadTypes'
  <2>1. UNCHANGED up /\ Continue(u, "refresh", arg[u]) /\ arg[u] \in Calls
    BY <1>12 DEF GetMetadataFails, search_update_file_metadata, ThreadTypes, ssVars
  <2>2. CallOK("refresh", arg[u]) /\ "refresh" \in Labels
    BY <1>12 DEF GetMetadataFails, search_update_file_metadata, ThreadTypes, CallOK, Labels, Lists
  <2>3. QED
    BY <2>1, <2>2, ContinueThread
<1>13. ASSUME NEW u \in Users, ListLong(u) \/ SetOwner(u) \/ DeleteDocument(u) \/ ExchangeFails(u)
       PROVE  ThreadTypes'
  <2>1. UNCHANGED up /\ \E answer : Answer(u, answer)
    BY <1>13 DEF ListLong, SetOwner, DeleteDocument, ExchangeFails, ssVars
  <2>2. QED
    BY <2>1, AnswerThread
<1>14. ASSUME NEW u \in Users, Receive(u)
       PROVE  ThreadTypes'
  BY <1>14 DEF Receive, ThreadTypes, CallOK, Labels, ssVars
<1>15. ASSUME NEW u \in Users, CreateDocument(u)
       PROVE  ThreadTypes'
  <2>1. UNCHANGED up /\ Continue(u, "add", arg[u]) /\ arg[u] \in Calls /\ "add" \in Labels
    BY <1>15 DEF CreateDocument, ThreadTypes, Labels
  <2>2. CallOK("add", arg[u])
    BY <1>15 DEF CreateDocument, ThreadTypes, CallOK
  <2>3. QED
    BY <2>1, <2>2, ContinueThread
<1>16. ASSUME NEW u \in Users, search_add_file(u)
       PROVE  ThreadTypes'
  <2>1. UNCHANGED up /\ Continue(u, "owner", arg[u]) /\ arg[u] \in Calls /\ "owner" \in Labels
    BY <1>16 DEF search_add_file, ThreadTypes, Labels, ssVars
  <2>2. CallOK("owner", arg[u])
    BY <1>16 DEF search_add_file, ThreadTypes, CallOK
  <2>3. QED
    BY <2>1, <2>2, ContinueThread
<1>17. ASSUME NEW s \in Servers, Stop(s)
       PROVE  ThreadTypes'
  <2>1. /\ pc' = [u \in Users |-> IF pc[u] = "wait" /\ arg[u].ss = s THEN "cut" ELSE pc[u]]
        /\ UNCHANGED arg /\ up' = [up EXCEPT ![s] = FALSE]
    BY <1>17 DEF Stop
  <2>2. \A u \in Users : CallOK("wait", arg[u]) => CallOK("cut", arg[u])
    BY DEF CallOK
  <2>3. ASSUME NEW u \in Users
        PROVE  pc'[u] \in Labels /\ CallOK(pc'[u], arg[u]) /\ (pc'[u] = "wait" => up'[arg[u].ss])
    <3>1. CASE pc[u] = "wait" /\ arg[u].ss = s
      BY <2>1, <2>2, <3>1 DEF ThreadTypes, Labels
    <3>2. CASE ~(pc[u] = "wait" /\ arg[u].ss = s)
      BY <2>1, <3>2 DEF ThreadTypes, CallOK, SSTypes
    <3>3. QED
      BY <3>1, <3>2
  <2>4. QED
    BY <2>1, <2>3 DEF ThreadTypes
<1>18. ASSUME UNCHANGED <<pc, arg>>, \A s \in Servers : up[s] => up'[s]
       PROVE  ThreadTypes'
  BY <1>18 DEF ThreadTypes, CallOK
<1>19. ASSUME StorageServer
       PROVE  ThreadTypes'
  <2>1. ASSUME NEW s, NEW f, NEW words, Write(s, f, words) PROVE UNCHANGED <<pc, arg, up>>
    BY <2>1 DEF Write
  <2>2. ASSUME NEW i, Remove(i) PROVE UNCHANGED <<pc, arg, up>>
    BY <2>2 DEF Remove
  <2>3. ASSUME NEW s \in Servers, NEW i, Register(s, i)
        PROVE  UNCHANGED <<pc, arg>> /\ \A t \in Servers : up[t] => up'[t]
    BY <2>3 DEF Register, SSTypes
  <2>4. QED
    BY <1>17, <1>18, <1>19, <2>1, <2>2, <2>3 DEF StorageServer
<1>20. UNCHANGED vars => UNCHANGED <<pc, arg, up>>
  BY DEF vars, ssVars
<1>21. ASSUME NEW u \in Users, Request(u) PROVE ThreadTypes'
  BY <1>1, <1>2, <1>3, <1>4, <1>5, <1>6, <1>21
     DEF Request, handle_view_request, handle_view_folder_request, Lists
<1>22. ASSUME NEW u \in Users, Thread(u) PROVE ThreadTypes'
  BY <1>7, <1>8, <1>9, <1>10, <1>11, <1>12, <1>13, <1>14, <1>15, <1>16, <1>22 DEF Thread
<1>23. QED
  BY <1>18, <1>19, <1>20, <1>21, <1>22 DEF Next

\* What an answering thread and one that goes on leave alone.
LEMMA OthersRest ==
  ASSUME ThreadTypes, NEW u \in Users, NEW label, NEW a,
         \/ Continue(u, label, a)
         \/ label = "answered" /\ a = NoCall /\ \E answer : Answer(u, answer)
  PROVE  /\ pc'[u] = label /\ arg'[u] = a
         /\ \A v \in Users \ {u} : pc'[v] = pc[v] /\ arg'[v] = arg[v]
  BY DEF Answer, Continue, ThreadTypes

\* A thread that does not hold a socket_mutex does something that needs none.
LEMMA MutexAway ==
  ASSUME MutexInv, NEW u \in Users, UNCHANGED holder,
         pc[u] \notin {"wait", "cut", "update"}, pc'[u] \notin {"wait", "cut", "update"},
         \A v \in Users \ {u} : pc'[v] = pc[v] /\ arg'[v] = arg[v]
  PROVE  MutexInv'
  BY DEF MutexInv

\* A thread gives its socket_mutex back.
LEMMA MutexLeave ==
  ASSUME MutexInv, ThreadTypes, NEW u \in Users, Unlock(u),
         pc[u] \in {"wait", "cut", "update"}, pc'[u] \notin {"wait", "cut", "update"},
         \A v \in Users \ {u} : pc'[v] = pc[v] /\ arg'[v] = arg[v]
  PROVE  MutexInv'
<1>1. arg[u].slot \in 1..Slots /\ holder[arg[u].slot] = u
  BY DEF MutexInv, ThreadTypes, CallOK
<1>2. /\ holder'[arg[u].slot] = None
      /\ \A i \in (1..Slots) \ {arg[u].slot} : holder'[i] = holder[i] /\ holder[i] # u
      /\ holder' \in [1..Slots -> Users \cup {None}]
  BY <1>1 DEF Unlock, MutexInv
<1>3. \A v \in Users \ {u} : holder[arg[u].slot] # v
  BY <1>1
<1>4. QED
  BY <1>1, <1>2, <1>3, NoneAssumption DEF MutexInv

\* The socket_mutex of a slot is held by the thread that talks to its server.
LEMMA MutexStep == IndInv /\ [Next]_vars => MutexInv'
<1> SUFFICES ASSUME IndInv, [Next]_vars PROVE MutexInv'
  OBVIOUS
<1> USE DEF IndInv, TypeInv
<1>1. ASSUME NEW u \in Users, Request(u)
      PROVE  MutexInv'
  <2>1. UNCHANGED holder /\ pc[u] = "idle"
    BY <1>1 DEF Request, handle_create_folder_request, handle_move_file_request, Begin,
       handle_move_folder_request, handle_view_request, handle_view_folder_request, View, Create, Delete
  <2>2. \/ \E answer : Answer(u, answer)
        \/ \E label \in {"lock", "notify", "refresh"} : \E a : Continue(u, label, a)
    BY <1>1 DEF Request, handle_create_folder_request, handle_move_file_request, Rename,
       handle_move_folder_request, handle_view_request, handle_view_folder_request, View, Create, Delete
  <2>3. /\ pc'[u] \in {"lock", "notify", "refresh", "answered"}
        /\ \A v \in Users \ {u} : pc'[v] = pc[v] /\ arg'[v] = arg[v]
    BY <2>2, OthersRest
  <2>4. QED
    BY <2>1, <2>3, MutexAway
<1>2. ASSUME NEW u \in Users, \/ NotifyNext(u) \/ Refresh(u) \/ ListLong(u) \/ search_add_file(u)
                              \/ SetOwner(u) \/ Receive(u)
      PROVE  MutexInv'
  <2>1. UNCHANGED holder /\ pc[u] \notin {"wait", "cut", "update"}
    BY <1>2 DEF NotifyNext, Refresh, ListLong, search_add_file, SetOwner, Receive
  <2>2. CASE Receive(u)
    BY <2>1, <2>2, MutexAway DEF Receive, ThreadTypes
  <2>3. CASE \/ \E answer : Answer(u, answer)
             \/ \E label \in {"lock", "notify", "refresh", "owner"} : \E a : Continue(u, label, a)
    <3>1. /\ pc'[u] \in {"lock", "notify", "refresh", "owner", "answered"}
          /\ \A v \in Users \ {u} : pc'[v] = pc[v] /\ arg'[v] = arg[v]
      BY <2>3, OthersRest
    <3>2. QED
      BY <2>1, <3>1, MutexAway
  <2>4. QED
    BY <1>2, <2>2, <2>3 DEF NotifyNext, Refresh, ListLong, search_add_file, SetOwner, Proceed
<1>3. ASSUME NEW u \in Users, \/ NotifyFails(u) \/ GetMetadataFails(u) \/ CreateDocument(u)
                              \/ search_update_file_metadata(u) \/ DeleteDocument(u) \/ ExchangeFails(u)
      PROVE  MutexInv'
  <2>1. Unlock(u) /\ pc[u] \in {"wait", "cut", "update"}
    BY <1>3 DEF NotifyFails, GetMetadataFails, CreateDocument, search_update_file_metadata,
       DeleteDocument, ExchangeFails
  <2>2. \/ \E answer : Answer(u, answer)
        \/ \E label \in {"notify", "refresh", "add"} : Continue(u, label, arg[u])
    BY <1>3 DEF NotifyFails, GetMetadataFails, CreateDocument, search_update_file_metadata,
       DeleteDocument, ExchangeFails
  <2>3. /\ pc'[u] \in {"notify", "refresh", "add", "answered"}
        /\ \A v \in Users \ {u} : pc'[v] = pc[v] /\ arg'[v] = arg[v]
    BY <2>2, OthersRest
  <2>4. QED
    BY <2>1, <2>3, MutexLeave
<1>4. ASSUME NEW u \in Users, Lock(u)
      PROVE  MutexInv'
  <2>1. PICK i \in 1..Slots : i = arg[u].slot
    BY <1>4 DEF Lock, ThreadTypes, CallOK
  <2>2. holder[i] = None /\ holder' = [holder EXCEPT ![i] = u] /\ pc[u] = "lock"
    BY <1>4, <2>1 DEF Lock
  <2>3. PICK label, a : label \in {"wait", "cut"} /\ Continue(u, label, a) /\ a.slot = i
    BY <1>4, <2>1 DEF Lock, ThreadTypes, Calls
  <2>4. /\ pc'[u] \in {"wait", "cut"} /\ arg'[u].slot = i
        /\ \A v \in Users \ {u} : pc'[v] = pc[v] /\ arg'[v] = arg[v]
    BY <2>3, OthersRest
  <2>5. QED
    BY <2>2, <2>4, NoneAssumption DEF MutexInv
<1>5. ASSUME NEW u \in Users, GetMetadata(u)
      PROVE  MutexInv'
  <2>1. PICK a : Continue(u, "update", a) /\ a.slot = arg[u].slot
    BY <1>5 DEF GetMetadata, ThreadTypes, Calls
  <2>2. /\ pc'[u] = "update" /\ arg'[u].slot = arg[u].slot
        /\ \A v \in Users \ {u} : pc'[v] = pc[v] /\ arg'[v] = arg[v]
    BY <2>1, OthersRest
  <2>3. UNCHANGED holder /\ pc[u] = "wait"
    BY <1>5 DEF GetMetadata
  <2>4. QED
    BY <2>2, <2>3 DEF MutexInv
<1>6. ASSUME UNCHANGED <<holder, arg>>,
             \A u \in Users : pc'[u] = pc[u] \/ (pc[u] = "wait" /\ pc'[u] = "cut")
      PROVE  MutexInv'
  BY <1>6 DEF MutexInv
<1>7. ASSUME StorageServer \/ UNCHANGED vars
      PROVE  /\ UNCHANGED <<holder, arg>>
             /\ \A u \in Users : pc'[u] = pc[u] \/ (pc[u] = "wait" /\ pc'[u] = "cut")
  BY <1>7 DEF StorageServer, Write, Stop, Remove, Register, vars
<1>8. QED
  BY <1>1, <1>2, <1>3, <1>4, <1>5, <1>6, <1>7 DEF Next, Thread

-----------------------------------------------------------------------------
(* The folders *)

\* Records go, or come into the root, and the others stay as they are.
LEMMA RootKeepsFolders ==
  ASSUME FolderInv, UNCHANGED registry, NEW F, InRoot(F),
         \A f \in Files : f \in F => record'[f] = None \/ record'[f].folder = Root,
         \A f \in Files : f \notin F => record'[f] = record[f]
  PROVE  FolderInv'
<1>1. /\ \A f \in Files : f \in F => place'[f] = 0
      /\ \A f \in Files : f \notin F => place'[f] = place[f] /\ (swept[f] => swept'[f])
  BY DEF InRoot
<1>2. FilesFollowFolder'
  BY <1>1 DEF FolderInv, FilesFollowFolder, Present
<1>3. QED
  BY <1>2 DEF FolderInv, OneFolderPerName, Indices

\* Folder names stay different, and files stay with their folders.
LEMMA FolderStep == IndInv /\ [Next]_vars => FolderInv'
<1> SUFFICES ASSUME IndInv, [Next]_vars PROVE FolderInv'
  OBVIOUS
<1> USE DEF IndInv, TypeInv
<1>1. ASSUME NEW u \in Users, NEW name \in FolderNames, handle_create_folder_request(u, name)
      PROVE  FolderInv'
  <2>1. CASE UNCHANGED registry
    BY <1>1, <2>1 DEF handle_create_folder_request, FolderInv, OneFolderPerName, FilesFollowFolder,
       Indices, Present, histVars
  <2>2. CASE name \notin Names /\ registry' = Append(registry, [name |-> name, owner |-> u])
    <3>1. /\ Len(registry) \in Nat /\ Len(registry') = Len(registry) + 1
          /\ \A i \in Indices : registry'[i] = registry[i]
          /\ registry'[Len(registry) + 1].name = name
      BY <2>2, AppendProperties DEF NSTypes, Indices
    <3>2. OneFolderPerName'
      BY <2>2, <3>1 DEF FolderInv, OneFolderPerName, Indices, Names
    <3>3. \A f \in Files : place[f] # None => place[f] = 0 \/ place[f] \in Indices
      BY <3>1 DEF HistTypes, Indices
    <3>4. FilesFollowFolder'
      BY <1>1, <3>1, <3>3 DEF handle_create_folder_request, FolderInv, FilesFollowFolder, Present, histVars
    <3>5. QED
      BY <3>2, <3>4 DEF FolderInv
  <2>3. QED
    BY <1>1, <2>1, <2>2 DEF handle_create_folder_request
<1>2. ASSUME NEW u \in Users, NEW f \in Files, NEW name \in FolderNames,
             handle_move_file_request(u, f, name)
      PROVE  FolderInv'
  <2>1. CASE UNCHANGED <<record, place, swept>>
    BY <1>2, <2>1 DEF handle_move_file_request, FolderInv, OneFolderPerName, FilesFollowFolder,
       Indices, Present
  <2>2. CASE f \in Present /\ SetFolder(f, name)
    <3>1. /\ record[f] \in Rec /\ record'[f].folder = name
          /\ \A g \in Files \ {f} : record'[g] = record[g]
      BY <2>2 DEF SetFolder, NSTypes, Present, Rec
    <3>2. ASSUME name \in Names PROVE Find(name) # 0 /\ registry[Find(name)].name = name
      BY <3>2, FindEntry DEF FolderInv, Indices, NSTypes
    <3>3. /\ place'[f] = IF name \in Names THEN Find(name) ELSE None
          /\ \A g \in Files \ {f} : place'[g] = place[g] /\ swept'[g] = swept[g]
      BY <2>2 DEF SetFolder, HistTypes
    <3>4. UNCHANGED registry
      BY <1>2 DEF handle_move_file_request
    <3>5. FilesFollowFolder'
      BY <3>1, <3>2, <3>3, <3>4 DEF FolderInv, FilesFollowFolder, Present
    <3>6. QED
      BY <3>4, <3>5 DEF FolderInv, OneFolderPerName, Indices
  <2>3. QED
    BY <1>2, <2>1, <2>2 DEF handle_move_file_request
<1>3. ASSUME NEW u \in Users, NEW src \in FolderNames, NEW dst \in FolderNames,
             handle_move_folder_request(u, src, dst)
      PROVE  FolderInv'
  <2>1. CASE UNCHANGED <<nsVars, swept>>
    BY <1>3, <2>1 DEF handle_move_folder_request, FolderInv, OneFolderPerName, FilesFollowFolder,
       Indices, Present, nsVars
  <2>2. CASE Movable(u, src, dst) /\ Rename(u, src, dst)
    <3> DEFINE k == Find(src)
    <3>1. k \in Indices /\ registry[k].name = src /\ registry \in Seq(Entry)
      BY <2>2, FindEntry DEF Movable, FolderInv, NSTypes
    <3>2. /\ Len(registry') = Len(registry) /\ registry'[k].name = dst
          /\ \A i \in Indices \ {k} : registry'[i] = registry[i]
      <4>1. registry[k] \in Entry /\ registry' = [registry EXCEPT ![k].name = dst]
        BY <2>2, <3>1, ElementOfSeq DEF Rename, Indices
      <4>2. [registry[k] EXCEPT !.name = dst] \in Entry /\ [registry[k] EXCEPT !.name = dst].name = dst
        BY <4>1 DEF Entry
      <4> HIDE DEF k
      <4> DEFINE e == [registry[k] EXCEPT !.name = dst]
      <4>3. registry' = [registry EXCEPT ![k] = e]
        BY <4>1
      <4>4. e \in Entry /\ e.name = dst
        BY <4>2
      <4> HIDE DEF e
      <4>5. QED
        BY <3>1, <4>3, <4>4, ExceptSeq DEF Indices
    <3> HIDE DEF k
    <3>3. OneFolderPerName'
      BY <2>2, <3>1, <3>2 DEF Movable, FolderInv, OneFolderPerName, Indices, Names
    <3>4. ASSUME NEW f \in Files, record'[f] # None, place[f] # None, ~swept'[f]
          PROVE  record'[f].folder = IF place[f] = 0 THEN Root ELSE registry'[place[f]].name
      <4> DEFINE moved == {g \in Present : StartsWith(record[g].folder, src)}
      <4>1. /\ f \in moved => record'[f] = [record[f] EXCEPT !.folder = NewFolder(record[f].folder, src, dst)]
            /\ f \notin moved => record'[f] = record[f]
            /\ ~swept[f] /\ (f \in moved => record[f].folder = src)
        BY <2>2, <3>4 DEF Rename
      <4>2. f \in Present /\ record[f] \in Rec
        BY <3>4, <4>1 DEF Present, NSTypes
      <4>3. record[f].folder = IF place[f] = 0 THEN Root ELSE registry[place[f]].name
        BY <3>4, <4>1, <4>2 DEF FolderInv, FilesFollowFolder
      <4>4. place[f] = 0 \/ place[f] \in Indices
        BY <3>1, <3>4 DEF HistTypes, Indices
      <4>5. CASE f \in moved
        <5>1. record'[f].folder = NewFolder(src, src, dst) /\ record[f].folder = src
          BY <4>1, <4>2, <4>5 DEF Rec
        <5>2. src # Root /\ src \in Seq(Chars) /\ NewFolder(src, src, dst) = dst
          BY TypedNames, NewFolderNames
        <5>3. place[f] # 0 /\ place[f] = k
          BY <3>1, <4>3, <4>4, <5>1, <5>2 DEF FolderInv, OneFolderPerName
        <5>4. k # 0
          BY <3>1 DEF Indices
        <5>5. QED
          BY <3>2, <5>1, <5>2, <5>3, <5>4
      <4>6. CASE f \notin moved
        <5>1. record[f].folder # src
          BY <4>2, <4>6, TypedNames, StartsWithItself
        <5>2. place[f] # 0 => place[f] \in Indices \ {k}
          BY <3>1, <4>3, <4>4, <5>1
        <5>3. QED
          BY <3>2, <4>1, <4>3, <4>6, <5>2
      <4>7. QED
        BY <4>5, <4>6
    <3>5. UNCHANGED place
      BY <1>3 DEF handle_move_folder_request
    <3>6. QED
      BY <3>3, <3>4, <3>5 DEF FolderInv, FilesFollowFolder, Present
  <2>3. QED
    BY <1>3, <2>1, <2>2 DEF handle_move_folder_request
<1>4. ASSUME NEW u \in Users, NEW f \in Files, Delete(u, f)
      PROVE  FolderInv'
  <2>1. CASE UNCHANGED <<record, place, swept>>
    BY <1>4, <2>1 DEF Delete, FolderInv, OneFolderPerName, FilesFollowFolder, Indices, Present
  <2>2. CASE record' = [record EXCEPT ![f] = None] /\ InRoot({f})
    BY <1>4, <2>2, RootKeepsFolders DEF Delete, NSTypes
  <2>3. QED
    BY <1>4, <2>1, <2>2 DEF Delete, histVars
<1>5. ASSUME NEW u \in Users, search_add_file(u)
      PROVE  FolderInv'
  <2>1. CASE UNCHANGED <<record, place, swept>>
    BY <1>5, <2>1 DEF search_add_file, FolderInv, OneFolderPerName, FilesFollowFolder, Indices, Present
  <2>2. CASE record' = [record EXCEPT ![arg[u].file] = NewRecord(u, arg[u].slot, 0)] /\ InRoot({arg[u].file})
    <3>1. NewRecord(u, arg[u].slot, 0).folder = Root
      BY DEF NewRecord
    <3>2. UNCHANGED registry
      BY <1>5 DEF search_add_file
    <3>3. QED
      BY <2>2, <3>1, <3>2, RootKeepsFolders DEF NSTypes
  <2>3. QED
    BY <1>5, <2>1, <2>2 DEF search_add_file
<1>6. ASSUME NEW i, Purge(i), UNCHANGED registry
      PROVE  FolderInv'
  <2>1. PICK F : /\ InRoot(F) /\ \A f \in Files : f \in F => record'[f] = None
                 /\ \A f \in Files : f \notin F => record'[f] = record[f]
    BY <1>6 DEF Purge
  <2>2. QED
    BY <1>6, <2>1, RootKeepsFolders
<1>7. ASSUME NEW s \in Servers, NEW i \in 1..Slots, Register(s, i)
      PROVE  FolderInv'
  <2>1. PICK F : F = {f \in Files : disk[s][f] # None /\ (f \in Present => record[f].slot = i)}
    OBVIOUS
  <2>2. /\ InRoot(F)
        /\ \A f \in Files : f \in F => record'[f].folder = Root
        /\ \A f \in Files : f \notin F => record'[f] = record[f]
    BY <1>7, <2>1 DEF Register, NewRecord
  <2>3. UNCHANGED registry
    BY <1>7 DEF Register
  <2>4. QED
    BY <2>2, <2>3, RootKeepsFolders
<1>8. ASSUME UNCHANGED <<registry, place, swept>>,
             \A f \in Files : \/ record'[f] = record[f]
                              \/ f \in Present /\ record'[f].folder = record[f].folder
      PROVE  FolderInv'
  <2>1. FilesFollowFolder'
    BY <1>8 DEF FolderInv, FilesFollowFolder, Present
  <2>2. QED
    BY <1>8, <2>1 DEF FolderInv, OneFolderPerName, Indices
<1>9. ASSUME NEW u \in Users, search_update_file_metadata(u)
      PROVE  FolderInv'
  <2>1. ASSUME arg[u].file \in Present
        PROVE  \A f \in Files : \/ record'[f] = record[f]
                                \/ f \in Present /\ record'[f].folder = record[f].folder
    <3>1. PICK g \in Present : g = arg[u].file
      BY <2>1
    <3>2. record[g] \in Rec /\ record' = [record EXCEPT ![g].words = arg[u].words]
      BY <1>9, <3>1 DEF search_update_file_metadata, NSTypes, Present
    <3>3. QED
      BY <3>1, <3>2 DEF NSTypes, Rec
  <2>2. UNCHANGED <<registry, place, swept>> /\ (arg[u].file \notin Present => UNCHANGED record)
    BY <1>9 DEF search_update_file_metadata, histVars
  <2>3. QED
    BY <1>8, <2>1, <2>2
<1>10. ASSUME NEW u \in Users, Request(u)
       PROVE  FolderInv'
  <2>1. ASSUME NEW cmd, NEW folder, NEW flags, View(u, cmd, folder, flags)
        PROVE  UNCHANGED <<registry, place, swept, record>>
    BY <2>1 DEF View, nsVars
  <2>2. ASSUME NEW f \in Files, Create(u, f) PROVE UNCHANGED <<registry, place, swept, record>>
    BY <2>2 DEF Create, nsVars, histVars
  <2>3. QED
    BY <1>1, <1>2, <1>3, <1>4, <1>8, <1>10, <2>1, <2>2
       DEF Request, handle_view_request, handle_view_folder_request
<1>11. ASSUME NEW u \in Users, Thread(u)
       PROVE  FolderInv'
  <2>1. ASSUME \/ NotifyNext(u) \/ Lock(u) \/ NotifyFails(u) \/ Refresh(u) \/ GetMetadata(u)
               \/ GetMetadataFails(u) \/ ListLong(u) \/ Receive(u) \/ CreateDocument(u)
               \/ SetOwner(u) \/ DeleteDocument(u)
        PROVE  UNCHANGED <<registry, place, swept, record>>
    BY <2>1 DEF NotifyNext, Lock, NotifyFails, Refresh, GetMetadata, GetMetadataFails, nsVars,
       ListLong, Receive, CreateDocument, SetOwner, DeleteDocument, histVars
  <2>2. ExchangeFails(u) => Purge(arg[u].slot) /\ UNCHANGED registry
    BY DEF ExchangeFails
  <2>3. QED
    BY <1>5, <1>6, <1>8, <1>9, <1>11, <2>1, <2>2 DEF Thread
<1>12. ASSUME StorageServer
       PROVE  FolderInv'
  <2>1. ASSUME NEW s, NEW f, NEW words, Write(s, f, words)
        PROVE  UNCHANGED <<registry, place, swept, record>>
    BY <2>1 DEF Write, nsVars
  <2>2. ASSUME NEW s, Stop(s) PROVE UNCHANGED <<registry, place, swept, record>>
    BY <2>2 DEF Stop, nsVars
  <2>3. \A i : Remove(i) => Purge(i) /\ UNCHANGED registry
    BY DEF Remove
  <2>4. QED
    BY <1>6, <1>7, <1>8, <1>12, <2>1, <2>2, <2>3 DEF StorageServer
<1>13. UNCHANGED vars => UNCHANGED <<registry, place, swept, record>>
  BY DEF vars, nsVars, histVars
<1>14. QED
  BY <1>8, <1>10, <1>11, <1>12, <1>13 DEF Next

-----------------------------------------------------------------------------
(* Listings *)

\* A listing shows the counts of the records as they are.
LEMMA ListingLines ==
  ASSUME NEW u, NEW cmd, NEW folder, NEW flags, NEW list \in Listings(u, cmd, folder, flags)
  PROVE  /\ list.cmd = cmd /\ list.flags = flags
         /\ \A line \in list.files : line[1] \in Present /\ line[2] = record[line[1]].words
<1> DEFINE all   == SubFolders(folder)
           dirs  == {i \in all : Cardinality({j \in all : j <= i}) <= Room}
           files == {f \in Present : record[f].folder = folder /\ Permitted(u, flags, f)}
           shown == {Behind(i, folder) : i \in dirs}
           fits  == Cut(files, Room - Cardinality(dirs))
<1>1. PICK F \in fits : list = Response(cmd, flags, shown, {<<f, record[f].words>> : f \in F})
  BY DEF Listings
<1>2. F \subseteq files
  BY DEF Cut
<1>3. F \subseteq Present
  BY <1>2
<1> HIDE DEF shown, fits
<1>4. QED
  BY <1>1, <1>3 DEF Response

\* While a listing is under way, a file that is settled after a step was so before, at the
\* same server, with the same count unless a count is stored, and what that server says of
\* it is the same or is seen by the listing.
Steady(w, f) ==
  /\ Settled(f)
  /\ record'[f].slot = record[f].slot
  /\ record[f].slot \in Online => slot'[record[f].slot] = slot[record[f].slot]
  /\ record'[f].words = record[f].words \/ \E v \in Users : pc[v] = "update" /\ pc'[v] # "update"
  /\ seen[w][f] \subseteq seen'[w][f]
  /\ \A s \in Servers : Reported(s, f)' = Reported(s, f) \/ Reported(s, f)' \in seen'[w][f]

\* A file that is still settled was not among those that a step unsettled.
LEMMA StillSettled ==
  ASSUME NEW F, Unsettle(F), NEW w \in Users, Listing(w), NEW f \in Files, ~loose'[f]
  PROVE  f \notin F /\ ~loose[f]
  BY DEF Unsettle

\* A step that leaves the file alone is steady.
LEMMA SteadyRest ==
  ASSUME NEW w \in Users, NEW f \in Files, Settled(f)', ~loose[f],
         \/ record'[f] = record[f]
         \/ /\ record[f] # None /\ record'[f].slot = record[f].slot
            /\ record'[f].words = record[f].words,
         record[f].slot \in Online => slot'[record[f].slot] = slot[record[f].slot],
         \A s \in Servers : disk'[s][f] = disk[s][f],
         seen[w][f] \subseteq seen'[w][f]
  PROVE  Steady(w, f)
  BY DEF Steady, Settled, Present, Reported

\* One entry of a file_table changes.
LEMMA OneEntry ==
  ASSUME SSTypes, NEW s \in Servers, NEW g \in Files, NEW d, disk' = [disk EXCEPT ![s][g] = d]
  PROVE  /\ disk'[s][g] = d
         /\ \A t \in Servers, f \in Files : t # s \/ f # g => disk'[t][f] = disk[t][f]
  BY DEF SSTypes

\* Every step is steady, for a listing that is under way before and after it.
LEMMA SteadyStep ==
  ASSUME IndInv, [Next]_vars, NEW w \in Users, Listing(w), Listing(w)',
         NEW f \in Files, Settled(f)'
  PROVE  Steady(w, f)
<1> USE DEF IndInv, TypeInv
<1>1. ASSUME UNCHANGED <<disk, slot, seen, loose>>,
             \/ record'[f] = record[f]
             \/ /\ record[f] # None /\ record'[f].slot = record[f].slot
                /\ record'[f].words = record[f].words
      PROVE  Steady(w, f)
  BY <1>1, SteadyRest DEF Settled
<1>2. ASSUME NEW u \in Users, NEW g \in Files, NEW name \in FolderNames,
             handle_move_file_request(u, g, name)
      PROVE  Steady(w, f)
  <2>1. UNCHANGED <<disk, slot, seen, loose>>
    BY <1>2 DEF handle_move_file_request, ssVars, listVars
  <2>2. CASE UNCHANGED record
    BY <1>1, <2>1, <2>2
  <2>3. CASE g \in Present /\ SetFolder(g, name)
    <3>1. record[g] \in Rec /\ record' = [record EXCEPT ![g].folder = name]
      BY <2>3 DEF NSTypes, Present, SetFolder
    <3>2. \/ record'[f] = record[f]
          \/ /\ record[f] # None /\ record'[f].slot = record[f].slot
             /\ record'[f].words = record[f].words
      BY <2>3, <3>1 DEF NSTypes, Rec, Present
    <3>3. QED
      BY <1>1, <2>1, <3>2
  <2>4. QED
    BY <1>2, <2>2, <2>3 DEF handle_move_file_request
<1>3. ASSUME NEW u \in Users, NEW src \in FolderNames, NEW dst \in FolderNames,
             handle_move_folder_request(u, src, dst)
      PROVE  Steady(w, f)
  <2>1. UNCHANGED <<disk, slot, seen, loose>>
    BY <1>3 DEF handle_move_folder_request, ssVars, listVars
  <2>2. CASE UNCHANGED nsVars
    BY <1>1, <2>1, <2>2 DEF nsVars
  <2>3. CASE Rename(u, src, dst)
    <3>1. PICK s : \/ record'[f] = record[f]
                   \/ f \in Present /\ record'[f] = [record[f] EXCEPT !.folder = s]
      BY <2>3 DEF Rename
    <3>2. f \in Present => record[f] \in Rec /\ record[f] # None
      BY DEF NSTypes, Present
    <3>3. \/ record'[f] = record[f]
          \/ /\ record[f] # None /\ record'[f].slot = record[f].slot
             /\ record'[f].words = record[f].words
      BY <3>1, <3>2 DEF Rec
    <3>4. QED
      BY <1>1, <2>1, <3>3
  <2>4. QED
    BY <1>3, <2>2, <2>3 DEF handle_move_folder_request
<1>4. ASSUME NEW u \in Users, NEW cmd, NEW folder, NEW flags, View(u, cmd, folder, flags)
      PROVE  Steady(w, f)
  <2>1. u # w
    <3>1. pc[u] = "idle"
      BY <1>4 DEF View, Begin
    <3>2. arg[u] = NoCall /\ reply[u] = NoReply
      BY <3>1 DEF ThreadTypes, CallOK, ReplyInv
    <3>3. ~Listing(u)
      BY <3>2, NoCallTyping DEF Listing, NoReply, Response
    <3>4. QED
      BY <3>3
  <2>2. seen'[w] = seen[w] /\ ~loose[f]
    BY <1>4, <2>1 DEF View, ListTypes, listVars, Settled
  <2>3. UNCHANGED <<record, disk, slot>>
    BY <1>4 DEF View, nsVars, ssVars
  <2>4. QED
    BY <2>2, <2>3, SteadyRest
<1>5. ASSUME NEW u \in Users, NEW g \in Files, Delete(u, g)
      PROVE  Steady(w, f)
  <2>1. UNCHANGED <<disk, slot, seen>>
    BY <1>5 DEF Delete, ssVars, histVars, listVars
  <2>2. CASE UNCHANGED <<record, loose>>
    BY <1>1, <2>1, <2>2
  <2>3. CASE record' = [record EXCEPT ![g] = None] /\ Unsettle({g})
    <3>1. f # g /\ ~loose[f]
      BY <2>3, StillSettled DEF Settled
    <3>2. record'[f] = record[f]
      BY <2>3, <3>1 DEF NSTypes
    <3>3. QED
      BY <2>1, <3>1, <3>2, SteadyRest
  <2>4. QED
    BY <1>5, <2>2, <2>3 DEF Delete, histVars, listVars
<1>6. ASSUME NEW u \in Users, search_update_file_metadata(u)
      PROVE  Steady(w, f)
  <2>1. UNCHANGED <<disk, slot, seen, loose>>
    BY <1>6 DEF search_update_file_metadata, ssVars, histVars, listVars
  <2>2. ASSUME NEW g \in Present, record' = [record EXCEPT ![g].words = arg[u].words]
        PROVE  record'[f] = record[f] \/ (record[f] # None /\ record'[f].slot = record[f].slot)
    BY <2>2 DEF NSTypes, Rec, Present
  <2>3. pc[u] = "update" /\ pc'[u] # "update"
    BY <1>6 DEF search_update_file_metadata, Continue, ThreadTypes
  <2>4. record'[f] = record[f] \/ (record[f] # None /\ record'[f].slot = record[f].slot)
    BY <1>6, <2>2 DEF search_update_file_metadata
  <2>5. QED
    BY <2>1, <2>3, <2>4 DEF Steady, Settled, Present, Reported
<1>7. ASSUME NEW u \in Users, Receive(u)
      PROVE  Steady(w, f)
  <2>1. u # w
    <3>1. reply'[u] = NoReply /\ arg'[u] = NoCall
      BY <1>7 DEF Receive, ReplyInv, ThreadTypes, CallOK
    <3>2. ~Listing(u)'
      BY <3>1, NoCallTyping DEF Listing, NoReply, Response
    <3>3. QED
      BY <3>2
  <2>2. seen'[w] = seen[w] /\ ~loose[f]
    BY <1>7, <2>1 DEF Receive, ListTypes, Settled
  <2>3. UNCHANGED <<record, disk, slot>>
    BY <1>7 DEF Receive, nsVars, ssVars
  <2>4. QED
    BY <2>2, <2>3, SteadyRest
<1>8. ASSUME NEW u \in Users, CreateDocument(u) \/ DeleteDocument(u)
      PROVE  Steady(w, f)
  <2>1. arg[u].ss \in Servers /\ arg[u].file \in Files
    BY <1>8 DEF CreateDocument, DeleteDocument, ThreadTypes, CallOK
  <2>2. PICK s \in Servers, g \in Files : s = arg[u].ss /\ g = arg[u].file
    BY <2>1
  <2>3. PICK d : disk' = [disk EXCEPT ![s][g] = d]
    BY <1>8, <2>2 DEF CreateDocument, DeleteDocument
  <2>4. Unsettle({g}) /\ UNCHANGED <<record, slot, seen>>
    BY <1>8, <2>2 DEF CreateDocument, DeleteDocument, nsVars
  <2>5. f # g /\ ~loose[f]
    BY <2>4, StillSettled DEF Settled
  <2>6. \A t \in Servers : disk'[t][f] = disk[t][f]
    BY <2>3, <2>5, OneEntry
  <2>7. QED
    BY <2>4, <2>5, <2>6, SteadyRest
<1>9. ASSUME NEW u \in Users, search_add_file(u)
      PROVE  Steady(w, f)
  <2>1. arg[u].file \in Files
    BY <1>9 DEF search_add_file, ThreadTypes, CallOK
  <2>2. PICK g \in Files : g = arg[u].file
    BY <2>1
  <2>3. Unsettle({g}) /\ SeenNow(g, 0) /\ UNCHANGED <<disk, slot>>
    BY <1>9, <2>2 DEF search_add_file, ssVars
  <2>4. f # g /\ ~loose[f]
    BY <2>3, StillSettled DEF Settled
  <2>5. record'[f] = record[f]
    BY <1>9, <2>2, <2>4 DEF search_add_file, NSTypes
  <2>6. seen[w][f] \subseteq seen'[w][f]
    BY <2>3 DEF SeenNow, ListTypes
  <2>7. QED
    BY <2>3, <2>4, <2>5, <2>6, SteadyRest
<1>10. ASSUME NEW u \in Users, SetOwner(u)
       PROVE  Steady(w, f)
  <2>1. UNCHANGED <<record, slot, seen, loose>>
    BY <1>10 DEF SetOwner, nsVars, histVars, listVars
  <2>2. CASE UNCHANGED disk
    BY <1>1, <2>1, <2>2
  <2>3. ASSUME NEW s \in Servers, NEW g \in Files, disk[s][g] # None,
               disk' = [disk EXCEPT ![s][g].owner = u]
        PROVE  Steady(w, f)
    <3>1. PICK d : d = [disk[s][g] EXCEPT !.owner = u]
      OBVIOUS
    <3>2. disk[s][g] \in Doc
      BY <2>3 DEF SSTypes
    <3>3. d \in Doc /\ d.words = disk[s][g].words
      BY <3>1, <3>2 DEF Doc, Owners
    <3>4. d # None
      BY <3>3, NoneAssumption DEF Doc, Owners, Words
    <3>5. /\ disk'[s][g] = d
          /\ \A t \in Servers : t # s \/ f # g => disk'[t][f] = disk[t][f]
      BY <2>3, <3>1 DEF SSTypes
    <3>6. \A t \in Servers : Reported(t, f)' = Reported(t, f)
      BY <2>3, <3>3, <3>4, <3>5 DEF Reported
    <3>7. QED
      BY <2>1, <3>6 DEF Steady, Settled, Present
  <2>4. arg[u].slot \in Online => slot[arg[u].slot].ss \in Servers
    BY DEF Online, Active, SSTypes
  <2>5. arg[u].file \in Files
    BY <1>10 DEF SetOwner, ThreadTypes, CallOK
  <2>6. QED
    BY <1>10, <2>2, <2>3, <2>4, <2>5 DEF SetOwner
<1>11. ASSUME NEW i, Purge(i), UNCHANGED disk
       PROVE  Steady(w, f)
  <2>1. PICK lost : lost = IF i \in Active THEN {g \in Present : record[g].slot = i} ELSE {}
    OBVIOUS
  <2>2. /\ slot' = [slot EXCEPT ![i] = None] /\ Unsettle(lost) /\ UNCHANGED seen
        /\ record'[f] = IF f \in lost THEN None ELSE record[f]
    BY <1>11, <2>1 DEF Purge
  <2>3. f \notin lost /\ ~loose[f] /\ record'[f] = record[f] /\ f \in Present
    BY <2>2, StillSettled DEF Settled, Present
  <2>4. record[f].slot \in Online => record[f].slot # i /\ record[f].slot \in 1..Slots
    BY <2>1, <2>3 DEF Online, Active
  <2>5. record[f].slot \in Online => slot'[record[f].slot] = slot[record[f].slot]
    BY <2>2, <2>4 DEF SSTypes
  <2>6. QED
    BY <1>11, <2>2, <2>3, <2>5, SteadyRest
<1>12. ASSUME NEW s \in Servers, NEW g \in Files, NEW words \in Words, Write(s, g, words)
       PROVE  Steady(w, f)
  <2>1. UNCHANGED <<record, slot, loose>> /\ SeenNow(g, words) /\ disk[s][g] \in Doc
    BY <1>12 DEF Write, nsVars, SSTypes
  <2>2. PICK d : d = [disk[s][g] EXCEPT !.words = words]
    OBVIOUS
  <2>3. d \in Doc /\ d.words = words
    BY <2>1, <2>2 DEF Doc
  <2>4. d # None
    BY <2>3, NoneAssumption DEF Doc, Owners, Words
  <2>5. disk' = [disk EXCEPT ![s][g] = d]
    BY <1>12, <2>2 DEF Write
  <2>6. /\ disk'[s][g] = d
        /\ \A t \in Servers : t # s \/ f # g => disk'[t][f] = disk[t][f]
    BY <2>5 DEF SSTypes
  <2>7. seen[w][f] \subseteq seen'[w][f] /\ (f = g => words \in seen'[w][f])
    BY <2>1 DEF SeenNow, ListTypes
  <2>8. \A t \in Servers : Reported(t, f)' = Reported(t, f) \/ Reported(t, f)' \in seen'[w][f]
    BY <2>3, <2>4, <2>6, <2>7 DEF Reported
  <2>9. QED
    BY <2>1, <2>7, <2>8 DEF Steady, Settled, Present
<1>13. ASSUME NEW s \in Servers, Stop(s)
       PROVE  Steady(w, f)
  <2>1. UNCHANGED <<record, disk, seen>>
    BY <1>13 DEF Stop, nsVars
  <2>2. PICK F : F = {g \in Present : record[g].slot \in Active /\ slot[record[g].slot].ss = s}
    OBVIOUS
  <2>3. f \notin F /\ ~loose[f] /\ f \in Present
    BY <1>13, <2>1, <2>2, StillSettled DEF Stop, Settled, Present
  <2>4. record[f].slot \in Online => slot'[record[f].slot] = slot[record[f].slot]
    BY <1>13, <2>2, <2>3 DEF Stop, Online, Active
  <2>5. QED
    BY <2>1, <2>3, <2>4, SteadyRest
<1>14. ASSUME NEW s \in Servers, NEW i \in 1..Slots, Register(s, i)
       PROVE  Steady(w, f)
  <2>1. PICK files : files = {g \in Files : disk[s][g] # None /\ (g \in Present => record[g].slot = i)}
    OBVIOUS
  <2>2. PICK F : F = files \cup {g \in Present : record[g].slot = i}
    OBVIOUS
  <2>3. /\ Unsettle(F) /\ UNCHANGED <<disk, seen>> /\ i \notin Active
        /\ slot' = [slot EXCEPT ![i] = [ss |-> s, open |-> TRUE]]
        /\ f \notin files => record'[f] = record[f]
    BY <1>14, <2>1, <2>2 DEF Register
  <2>4. f \notin F /\ ~loose[f] /\ record'[f] = record[f]
    BY <2>2, <2>3, StillSettled DEF Settled
  <2>5. record[f].slot \in Online => slot'[record[f].slot] = slot[record[f].slot]
    BY <2>3 DEF Online, Active, SSTypes
  <2>6. QED
    BY <2>3, <2>4, <2>5, SteadyRest
<1>15. ASSUME NEW u \in Users, Request(u)
       PROVE  Steady(w, f)
  <2>1. ASSUME \/ \E name \in FolderNames : handle_create_folder_request(u, name)
               \/ \E g \in Files : Create(u, g)
        PROVE  UNCHANGED <<record, disk, slot, seen, loose>>
    BY <2>1 DEF handle_create_folder_request, Create, nsVars, ssVars, histVars, listVars
  <2>2. QED
    BY <1>1, <1>2, <1>3, <1>4, <1>5, <1>15, <2>1
       DEF Request, handle_view_request, handle_view_folder_request
<1>16. ASSUME NEW u \in Users, Thread(u)
       PROVE  Steady(w, f)
  <2>1. ASSUME \/ NotifyNext(u) \/ Lock(u) \/ NotifyFails(u) \/ Refresh(u) \/ GetMetadata(u)
               \/ GetMetadataFails(u) \/ ListLong(u)
        PROVE  UNCHANGED <<record, disk, slot, seen, loose>>
    BY <2>1 DEF NotifyNext, Lock, NotifyFails, Refresh, GetMetadata, GetMetadataFails, ListLong,
       nsVars, ssVars, histVars, listVars
  <2>2. ExchangeFails(u) => Purge(arg[u].slot) /\ UNCHANGED disk
    BY DEF ExchangeFails
  <2>3. QED
    BY <1>1, <1>6, <1>7, <1>8, <1>9, <1>10, <1>11, <1>16, <2>1, <2>2 DEF Thread
<1>17. ASSUME StorageServer
       PROVE  Steady(w, f)
  <2>1. \A i : Remove(i) => Purge(i) /\ UNCHANGED disk
    BY DEF Remove
  <2>2. QED
    BY <1>11, <1>12, <1>13, <1>14, <1>17, <2>1 DEF StorageServer
<1>18. UNCHANGED vars => UNCHANGED <<record, disk, slot, seen, loose>>
  BY DEF vars, nsVars, ssVars, histVars, listVars
<1>19. QED
  BY <1>1, <1>15, <1>16, <1>17, <1>18 DEF Next

\* A listing that is under way is one for the histories.
LEMMA AskingLists ==
  ASSUME ThreadTypes, NEW u \in Users, Asking(u)
  PROVE  Listing(u) /\ pc[u] \in {"refresh", "lock", "wait", "cut", "update"}
  BY NoCallTyping DEF ThreadTypes, CallOK, Labels, Asking, Listing, Lists

\* A settled file is steady for every listing that goes on.
LEMMA AskingSteady ==
  ASSUME IndInv, [Next]_vars, NEW u \in Users, Asking(u), Asking(u)', NEW f \in Files, Settled(f)'
  PROVE  Steady(u, f)
<1>1. ThreadTypes /\ ThreadTypes'
  BY ThreadTypesStep DEF IndInv, TypeInv
<1>2. Listing(u)
  BY <1>1, AskingLists
<1>3. "long" \in arg'[u].flags
  BY <1>1 DEF ThreadTypes, CallOK, Asking
<1>4. Listing(u)'
  BY <1>3 DEF Listing
<1>5. QED
  BY <1>2, <1>4, SteadyStep

\* The servers of the settled files go on answering with counts a listing may show.
LEMMA CurrentStep ==
  ASSUME IndInv, [Next]_vars, NEW u \in Users, Asking(u), Asking(u)'
  PROVE  Current(u)'
<1>1. Current(u) /\ SSTypes
  BY DEF IndInv, TypeInv, ListInv
<1>2. ASSUME NEW f \in Files, Settled(f)'
      PROVE  record'[f].slot \in Online' /\ Reported(slot[record[f].slot].ss, f)' \in seen'[u][f]
  <2>1. Steady(u, f)
    BY <1>2, AskingSteady
  <2>2. PICK i \in 1..Slots, s \in Servers :
          i = record[f].slot /\ i \in Online /\ s = slot[i].ss /\ Reported(s, f) \in seen[u][f]
    BY <1>1, <2>1 DEF Steady, Current, Online, Active, SSTypes
  <2>3. record'[f].slot = i /\ slot'[i] = slot[i]
    BY <2>1, <2>2 DEF Steady
  <2>4. i \in Online'
    BY <2>2, <2>3 DEF Online, Active
  <2>5. Reported(s, f)' \in seen'[u][f]
    BY <2>1, <2>2 DEF Steady
  <2>6. QED
    BY <2>2, <2>3, <2>4, <2>5
<1>3. QED
  BY <1>2 DEF Current

\* A thread that does not move in a step.
Calm(u) == pc'[u] = pc[u] /\ arg'[u] = arg[u]

\* A listing whose thread does not move keeps what it knows.
LEMMA KnowsKept ==
  ASSUME IndInv, [Next]_vars, NEW u \in Users, Asking(u)', Calm(u)
  PROVE  Asking(u) /\ Current(u)' /\ Knows(u)'
<1>1. Asking(u)
  BY DEF Asking, Calm
<1>2. Current(u) /\ Knows(u)
  BY <1>1 DEF IndInv, ListInv
<1>3. ASSUME NEW f \in Files, Settled(f)'
      PROVE  /\ \A i \in 1..Slots : <<f, i>> \in arg'[u].todo => i = record'[f].slot
             /\ pc'[u] \in {"lock", "wait", "update"} /\ arg'[u].file = f => arg'[u].slot = record'[f].slot
             /\ pc'[u] = "wait" /\ arg'[u].file = f => arg'[u].ss = slot'[record'[f].slot].ss
             /\ ~(pc'[u] = "cut" /\ arg'[u].file = f)
  <2>1. Steady(u, f)
    BY <1>1, <1>3, AskingSteady
  <2>2. Settled(f) /\ record'[f].slot = record[f].slot /\ slot'[record[f].slot] = slot[record[f].slot]
    BY <1>2, <2>1 DEF Steady, Current
  <2>3. QED
    BY <1>2, <2>2 DEF Knows, Calm
<1>4. Knows(u)'
  BY <1>3 DEF Knows
<1>5. QED
  BY <1>1, <1>4, CurrentStep

\* A VIEW -l whose thread does not move keeps its counts if none is stored or received.
LEMMA ViewKept ==
  ASSUME IndInv, [Next]_vars, NEW u \in Users, Viewing(u)', Calm(u),
         \A v \in Users : pc[v] = "update" \/ pc'[v] = "update" => Calm(v)
  PROVE  Refreshed(u)' /\ Storing(u)'
<1>1. Viewing(u) /\ Asking(u) /\ Asking(u)'
  BY DEF Viewing, Asking, Calm, Lists
<1>2. Refreshed(u) /\ Storing(u)
  BY <1>1 DEF IndInv, ViewInv
<1>3. ASSUME NEW f \in Files, Settled(f)'
      PROVE  /\ Settled(f) /\ record'[f].words = record[f].words
             /\ seen[u][f] \subseteq seen'[u][f]
  <2>1. Steady(u, f)
    BY <1>1, <1>3, AskingSteady
  <2>2. QED
    BY <2>1 DEF Steady, Calm
<1>4. \A f : Due(u, f)' <=> Due(u, f)
  BY DEF Due, Calm
<1>5. \A f : Awaits(u, f)' <=> Awaits(u, f)
  BY <1>4 DEF Awaits, Calm
<1>6. Refreshed(u)'
  BY <1>2, <1>3, <1>5 DEF Refreshed
<1>7. Storing(u)'
  BY <1>2, <1>3, <1>4 DEF Storing, Calm
<1>8. QED
  BY <1>6, <1>7

\* A step that moves no listing and no count.
LEMMA QuietStep ==
  ASSUME IndInv, [Next]_vars,
         \A v \in Users : Calm(v) \/ (pc[v] # "update" /\ pc'[v] # "update" /\ ~Asking(v)')
  PROVE  ListInv' /\ ViewInv'
<1>1. \A v \in Users : pc[v] = "update" \/ pc'[v] = "update" => Calm(v)
  OBVIOUS
<1>2. \A u \in Users : Viewing(u) => Asking(u)
  BY DEF Viewing, Asking, Lists
<1>3. ASSUME NEW u \in Users, Asking(u)' PROVE Current(u)' /\ Knows(u)'
  BY <1>3, KnowsKept
<1>4. ASSUME NEW u \in Users, Viewing(u)' PROVE Refreshed(u)' /\ Storing(u)'
  <2>1. Asking(u)'
    BY <1>4 DEF Viewing, Asking, Lists
  <2>2. QED
    BY <1>1, <1>4, <2>1, ViewKept
<1>5. QED
  BY <1>3, <1>4 DEF ListInv, ViewInv

\* A step that moves the thread of one listing, and no count.
LEMMA OneMoves ==
  ASSUME IndInv, [Next]_vars, NEW u \in Users, pc[u] # "update", pc'[u] # "update",
         \A v \in Users \ {u} : Calm(v),
         Asking(u)' => Current(u)' /\ Knows(u)',
         Viewing(u)' => Refreshed(u)' /\ Storing(u)'
  PROVE  ListInv' /\ ViewInv'
<1>1. \A v \in Users : pc[v] = "update" \/ pc'[v] = "update" => Calm(v)
  OBVIOUS
<1>2. ASSUME NEW v \in Users, Asking(v)' PROVE Current(v)' /\ Knows(v)'
  BY <1>2, KnowsKept
<1>3. ASSUME NEW v \in Users, Viewing(v)' PROVE Refreshed(v)' /\ Storing(v)'
  BY <1>1, <1>3, ViewKept
<1>4. QED
  BY <1>2, <1>3 DEF ListInv, ViewInv

\* Listings know the servers of settled files, and show counts of their own time.
LEMMA ListingStep == IndInv /\ [Next]_vars => ListInv' /\ ViewInv'
<1> SUFFICES ASSUME IndInv, [Next]_vars PROVE ListInv' /\ ViewInv'
  OBVIOUS
<1> USE DEF IndInv, TypeInv
<1>1. ASSUME NEW u \in Users, pc[u] # "update", \E answer : Answer(u, answer)
      PROVE  ListInv' /\ ViewInv'
  <2>1. /\ pc'[u] = "answered" /\ arg'[u] = NoCall
        /\ \A v \in Users \ {u} : pc'[v] = pc[v] /\ arg'[v] = arg[v]
    BY <1>1, OthersRest
  <2>2. ~Asking(u)'
    BY <2>1, NoCallTyping DEF Asking, Lists
  <2>3. QED
    BY <1>1, <2>1, <2>2, QuietStep DEF Calm
<1>2. ASSUME NEW u \in Users, pc[u] # "update", NEW label, label # "update", NEW a,
             Continue(u, label, a), a.cmd \notin Lists
      PROVE  ListInv' /\ ViewInv'
  <2>1. /\ pc'[u] = label /\ arg'[u] = a
        /\ \A v \in Users \ {u} : pc'[v] = pc[v] /\ arg'[v] = arg[v]
    BY <1>2, OthersRest
  <2>2. ~Asking(u)'
    BY <1>2, <2>1 DEF Asking
  <2>3. QED
    BY <1>2, <2>1, <2>2, QuietStep DEF Calm
<1>3. ASSUME UNCHANGED <<pc, arg>>
      PROVE  ListInv' /\ ViewInv'
  BY <1>3, QuietStep DEF Calm
<1>4. ASSUME NEW u \in Users, NEW cmd \in Lists, NEW folder, NEW flags, View(u, cmd, folder, flags)
      PROVE  ListInv' /\ ViewInv'
  <2>1. pc[u] = "idle" /\ UNCHANGED <<record, disk, slot>>
    BY <1>4 DEF View, Begin, nsVars, ssVars
  <2>2. CASE \E list : Answer(u, list)
    BY <1>1, <2>1, <2>2
  <2>3. CASE "long" \in flags
    <3>1. PICK todo, a, now :
            /\ todo = WithSlots(Collected(cmd, folder)) /\ now = [f \in Files |-> CountsNow(f)]
            /\ a = [NoCall EXCEPT !.cmd = cmd, !.folder = folder, !.flags = flags, !.todo = todo]
      OBVIOUS
    <3>2. /\ Continue(u, "refresh", a) /\ seen' = [seen EXCEPT ![u] = now]
          /\ loose' = [f \in Files |-> loose[f] \/ (f \in Present /\ ~Served(f))]
      BY <1>4, <2>3, <3>1 DEF View
    <3>3. a.cmd = cmd /\ a.todo = todo
      BY <3>1 DEF NoCall
    <3>4. /\ pc'[u] = "refresh" /\ arg'[u] = a
          /\ \A v \in Users \ {u} : pc'[v] = pc[v] /\ arg'[v] = arg[v]
      BY <3>2, OthersRest
    <3>5. seen'[u] = now
      BY <3>2 DEF ListTypes
    <3>6. ASSUME NEW f \in Files, Settled(f)'
          PROVE  /\ f \in Present /\ record[f].slot \in Online
                 /\ Reported(slot[record[f].slot].ss, f) \in seen'[u][f]
      <4>1. f \in Present /\ Served(f)
        BY <2>1, <3>2, <3>6 DEF Settled, Present
      <4>2. Reported(slot[record[f].slot].ss, f) \in CountsNow(f)
        BY <4>1 DEF CountsNow
      <4>3. QED
        BY <3>1, <3>5, <4>1, <4>2 DEF Served
    <3>7. Current(u)'
      BY <2>1, <3>6 DEF Current, Online, Active, Reported
    <3>8. Knows(u)'
      BY <2>1, <3>1, <3>3, <3>4 DEF Knows, WithSlots
    <3>9. ASSUME Viewing(u)' PROVE Refreshed(u)' /\ Storing(u)'
      <4>1. cmd = "VIEW"
        BY <3>3, <3>4, <3>9 DEF Viewing
      <4>2. ASSUME NEW f \in Files, Settled(f)' PROVE Due(u, f)'
        <5>1. f \in Present /\ record[f].slot \in 1..Slots
          BY <3>6, <4>2 DEF Online, Active
        <5>2. <<f, record[f].slot>> \in todo
          BY <3>1, <4>1, <5>1 DEF WithSlots, Collected
        <5>3. QED
          BY <3>3, <3>4, <5>1, <5>2 DEF Due
      <4>3. QED
        BY <4>2 DEF Refreshed, Storing, Awaits
    <3>10. QED
      BY <2>1, <3>4, <3>7, <3>8, <3>9, OneMoves DEF Calm
  <2>4. QED
    BY <1>4, <2>2, <2>3 DEF View
<1>5. ASSUME NEW u \in Users, Refresh(u)
      PROVE  ListInv' /\ ViewInv'
  <2>1. pc[u] = "refresh" /\ UNCHANGED <<record, disk, slot, seen, loose>> /\ arg[u] \in Calls
    BY <1>5 DEF Refresh, nsVars, ssVars, histVars, listVars, ThreadTypes
  <2>2. PICK e, a, label :
          /\ e \in arg[u].todo
          /\ a = [arg[u] EXCEPT !.todo = @ \ {e}, !.file = e[1], !.slot = e[2]]
          /\ label = IF e[2] \in Active THEN "lock" ELSE "refresh"
          /\ Continue(u, label, a)
    BY <1>5 DEF Refresh, Proceed
  <2>3. /\ pc'[u] = label /\ arg'[u] = a
        /\ \A v \in Users \ {u} : pc'[v] = pc[v] /\ arg'[v] = arg[v]
    BY <2>2, OthersRest
  <2>4. PICK g \in Files, j \in 1..Slots : e = <<g, j>>
    BY <2>1, <2>2 DEF Calls
  <2>5. /\ arg'[u].todo = arg[u].todo \ {<<g, j>>} /\ arg'[u].file = g /\ arg'[u].slot = j
        /\ arg'[u].cmd = arg[u].cmd
    BY <2>1, <2>2, <2>3, <2>4 DEF Calls
  <2>6. Asking(u)
    BY <2>1 DEF Asking, ThreadTypes, CallOK
  <2>7. Current(u) /\ Knows(u)
    BY <2>6 DEF ListInv
  <2>8. Settled(g) => j = record[g].slot /\ j \in Active
    BY <2>2, <2>4, <2>7 DEF Current, Knows, Online
  <2>9. \A f \in Files : Settled(f)' <=> Settled(f)
    BY <2>1 DEF Settled, Present
  <2>10. Current(u)'
    BY <2>1, <2>7, <2>9 DEF Current, Online, Active, Reported
  <2>11. Knows(u)'
    BY <2>1, <2>2, <2>3, <2>5, <2>7, <2>8, <2>9 DEF Knows
  <2>12. ASSUME Viewing(u)' PROVE Refreshed(u)' /\ Storing(u)'
    <3>1. Refreshed(u) /\ Storing(u)
      BY <2>5, <2>12 DEF Viewing, ViewInv
    <3>2. ASSUME NEW f \in Files, Settled(f), Due(u, f)
          PROVE  Due(u, f)' \/ (pc'[u] = "lock" /\ arg'[u].file = f)
      <4>1. PICK i \in 1..Slots : <<f, i>> \in arg[u].todo
        BY <3>2 DEF Due
      <4>2. CASE <<f, i>> = <<g, j>>
        BY <2>2, <2>3, <2>4, <2>5, <2>8, <3>2, <4>2
      <4>3. CASE <<f, i>> # <<g, j>>
        BY <2>5, <4>1, <4>3 DEF Due
      <4>4. QED
        BY <4>2, <4>3
    <3>3. Refreshed(u)'
      BY <2>1, <2>9, <3>1, <3>2 DEF Refreshed, Awaits
    <3>4. \A v \in Users : pc'[v] = "update" => pc[v] = "update" /\ arg'[v] = arg[v]
      BY <2>2, <2>3
    <3>5. Storing(u)'
      BY <2>1, <2>9, <3>1, <3>2, <3>4 DEF Storing
    <3>6. QED
      BY <3>3, <3>5
  <2>13. QED
    BY <2>1, <2>2, <2>3, <2>10, <2>11, <2>12, OneMoves DEF Calm
<1>6. ASSUME NEW u \in Users, Lock(u), Asking(u)
      PROVE  ListInv' /\ ViewInv'
  <2>1. /\ pc[u] = "lock" /\ UNCHANGED <<record, disk, slot, seen, loose>>
        /\ arg[u] \in Calls /\ arg[u].slot \in 1..Slots /\ holder[arg[u].slot] = None
    BY <1>6 DEF Lock, nsVars, ssVars, histVars, listVars, ThreadTypes, CallOK
  <2>2. PICK label, a :
          /\ Continue(u, label, a)
          /\ IF arg[u].slot \in Online
               THEN label = "wait" /\ a = [arg[u] EXCEPT !.ss = slot[arg[u].slot].ss]
               ELSE label = "cut" /\ a = arg[u]
    BY <1>6 DEF Lock
  <2>3. /\ pc'[u] = label /\ arg'[u] = a
        /\ \A v \in Users \ {u} : pc'[v] = pc[v] /\ arg'[v] = arg[v]
    BY <2>2, OthersRest
  <2>4. /\ arg'[u].todo = arg[u].todo /\ arg'[u].file = arg[u].file /\ arg'[u].cmd = arg[u].cmd
        /\ arg'[u].slot = arg[u].slot
        /\ label = "wait" => arg'[u].ss = slot[arg[u].slot].ss
    BY <2>1, <2>2, <2>3 DEF Calls
  <2>5. Current(u) /\ Knows(u)
    BY <1>6 DEF ListInv
  <2>6. \A f \in Files : Settled(f)' <=> Settled(f)
    BY <2>1 DEF Settled, Present
  <2>7. \A f \in Files : Settled(f) /\ arg[u].file = f => label = "wait" /\ arg[u].slot = record[f].slot
    BY <2>1, <2>2, <2>5 DEF Current, Knows
  <2>8. Current(u)'
    BY <2>1, <2>5, <2>6 DEF Current, Online, Active, Reported
  <2>9. Knows(u)'
    BY <2>1, <2>2, <2>3, <2>4, <2>5, <2>6, <2>7 DEF Knows
  <2>10. ASSUME Viewing(u)' PROVE Refreshed(u)' /\ Storing(u)'
    <3>1. Refreshed(u) /\ Storing(u)
      BY <2>4, <2>10 DEF Viewing, ViewInv
    <3>2. Refreshed(u)'
      BY <2>1, <2>3, <2>4, <2>6, <2>7, <3>1 DEF Refreshed, Awaits, Due
    <3>3. ASSUME NEW v \in Users, NEW f \in Files, Settled(f), pc[v] = "update", arg[v].file = f,
                 arg[u].file = f
          PROVE  FALSE
      <4>1. Asking(v)
        BY <3>3 DEF Asking, ThreadTypes, CallOK
      <4>2. arg[v].slot = record[f].slot
        BY <3>3, <4>1 DEF ListInv, Knows
      <4>3. holder[arg[u].slot] = v
        BY <2>1, <2>7, <3>3, <4>2 DEF MutexInv
      <4>4. QED
        BY <2>1, <4>3, NoneAssumption
    <3>4. \A v \in Users : pc'[v] = "update" => pc[v] = "update" /\ arg'[v] = arg[v]
      BY <2>2, <2>3
    <3>5. \A f : Due(u, f) => Due(u, f)'
      BY <2>4 DEF Due
    <3>6. Storing(u)'
      BY <2>1, <2>6, <3>1, <3>3, <3>4, <3>5 DEF Storing
    <3>7. QED
      BY <3>2, <3>6
  <2>11. QED
    BY <2>1, <2>2, <2>3, <2>8, <2>9, <2>10, OneMoves DEF Calm
<1>7. ASSUME NEW u \in Users, GetMetadata(u)
      PROVE  ListInv' /\ ViewInv'
  <2>1. /\ pc[u] = "wait" /\ UNCHANGED <<record, disk, slot, seen, loose>> /\ arg[u] \in Calls
        /\ Asking(u)
    BY <1>7 DEF GetMetadata, nsVars, ssVars, histVars, listVars, ThreadTypes, Asking, Lists
  <2>2. PICK a : /\ a = [arg[u] EXCEPT !.words = Reported(arg[u].ss, arg[u].file)]
                 /\ Continue(u, "update", a)
    BY <1>7 DEF GetMetadata
  <2>3. /\ pc'[u] = "update" /\ arg'[u] = a
        /\ \A v \in Users \ {u} : pc'[v] = pc[v] /\ arg'[v] = arg[v]
    BY <2>2, OthersRest
  <2>4. /\ arg'[u].todo = arg[u].todo /\ arg'[u].file = arg[u].file /\ arg'[u].cmd = arg[u].cmd
        /\ arg'[u].slot = arg[u].slot /\ arg'[u].words = Reported(arg[u].ss, arg[u].file)
    BY <2>1, <2>2, <2>3 DEF Calls
  <2>5. Current(u) /\ Knows(u)
    BY <2>1 DEF ListInv
  <2>6. \A f \in Files : Settled(f)' <=> Settled(f)
    BY <2>1 DEF Settled, Present
  <2>7. Current(u)'
    BY <2>1, <2>5, <2>6 DEF Current, Online, Active, Reported
  <2>8. Knows(u)'
    BY <2>1, <2>3, <2>4, <2>5, <2>6 DEF Knows
  <2>9. ASSUME NEW v \in Users, Asking(v)' PROVE Current(v)' /\ Knows(v)'
    BY <2>3, <2>7, <2>8, <2>9, KnowsKept DEF Calm
  <2>10. ASSUME NEW v \in Users, Viewing(v)' PROVE Refreshed(v)' /\ Storing(v)'
    <3>1. Viewing(v) /\ Asking(v)
      BY <2>3, <2>4, <2>10 DEF Viewing, Asking, Lists
    <3>2. Refreshed(v) /\ Storing(v) /\ Current(v)
      BY <3>1 DEF ViewInv, ListInv
    <3>3. \A f : (Due(v, f)' <=> Due(v, f)) /\ (Awaits(v, f) => Awaits(v, f)')
      BY <2>1, <2>3, <2>4 DEF Due, Awaits
    <3>4. Refreshed(v)'
      BY <2>1, <2>6, <3>2, <3>3 DEF Refreshed
    <3>5. \A f \in Files : Settled(f) /\ arg[u].file = f => arg'[u].words \in seen[v][f]
      BY <2>1, <2>4, <2>5, <3>2 DEF Knows, Current
    <3>6. \A w \in Users \ {u} : pc'[w] = "update" => pc[w] = "update" /\ arg'[w] = arg[w]
      BY <2>3
    <3>7. pc[v] = "lock" => pc'[v] = "lock" /\ arg'[v].file = arg[v].file
      BY <2>1, <2>3
    <3>8. Storing(v)'
      BY <2>1, <2>3, <2>4, <2>6, <3>2, <3>3, <3>5, <3>6, <3>7 DEF Storing
    <3>9. QED
      BY <3>4, <3>8
  <2>11. QED
    BY <2>9, <2>10 DEF ListInv, ViewInv
<1>8. ASSUME NEW u \in Users, GetMetadataFails(u)
      PROVE  ListInv' /\ ViewInv'
  <2>1. /\ pc[u] = "cut" /\ UNCHANGED <<record, disk, slot, seen, loose>> /\ Asking(u)
        /\ Continue(u, "refresh", arg[u])
    BY <1>8 DEF GetMetadataFails, nsVars, ssVars, histVars, listVars, Asking, Lists
  <2>2. /\ pc'[u] = "refresh" /\ arg'[u] = arg[u]
        /\ \A v \in Users \ {u} : pc'[v] = pc[v] /\ arg'[v] = arg[v]
    BY <2>1, OthersRest
  <2>3. Current(u) /\ Knows(u)
    BY <2>1 DEF ListInv
  <2>4. \A f \in Files : Settled(f)' <=> Settled(f)
    BY <2>1 DEF Settled, Present
  <2>5. Current(u)'
    BY <2>1, <2>3, <2>4 DEF Current, Online, Active, Reported
  <2>6. Knows(u)'
    BY <2>1, <2>2, <2>3, <2>4 DEF Knows
  <2>7. ASSUME Viewing(u)' PROVE Refreshed(u)' /\ Storing(u)'
    <3>1. Refreshed(u) /\ Storing(u)
      BY <2>2, <2>7 DEF Viewing, ViewInv
    <3>2. Refreshed(u)'
      BY <2>1, <2>2, <2>4, <3>1 DEF Refreshed, Awaits, Due
    <3>3. \A v \in Users : pc'[v] = "update" => pc[v] = "update" /\ arg'[v] = arg[v]
      BY <2>2
    <3>4. Storing(u)'
      BY <2>1, <2>2, <2>4, <3>1, <3>3 DEF Storing, Due
    <3>5. QED
      BY <3>2, <3>4
  <2>8. QED
    BY <2>1, <2>2, <2>5, <2>6, <2>7, OneMoves DEF Calm
<1>9. ASSUME NEW u \in Users, search_update_file_metadata(u)
      PROVE  ListInv' /\ ViewInv'
  <2>1. /\ pc[u] = "update" /\ UNCHANGED <<disk, slot, seen, loose>> /\ Asking(u)
        /\ Continue(u, "refresh", arg[u]) /\ arg[u].file \in Files
    BY <1>9 DEF search_update_file_metadata, ssVars, histVars, listVars, Asking, ThreadTypes, CallOK
  <2>2. /\ pc'[u] = "refresh" /\ arg'[u] = arg[u]
        /\ \A v \in Users \ {u} : pc'[v] = pc[v] /\ arg'[v] = arg[v]
    BY <2>1, OthersRest
  <2>3. PICK g \in Files : g = arg[u].file
    BY <2>1
  <2>4. ASSUME NEW f \in Files, Settled(f)'
        PROVE  /\ Settled(f) /\ record'[f].slot = record[f].slot
               /\ record'[f].words = IF f = g THEN arg[u].words ELSE record[f].words
    <3>1. CASE g \notin Present
      BY <1>9, <2>1, <2>3, <2>4, <3>1 DEF search_update_file_metadata, Settled, Present
    <3>2. CASE g \in Present
      <4>1. record[g] \in Rec /\ record' = [record EXCEPT ![g].words = arg[u].words]
        BY <1>9, <2>3, <3>2 DEF search_update_file_metadata, NSTypes, Present
      <4>2. QED
        BY <2>1, <2>4, <3>2, <4>1 DEF NSTypes, Rec, Settled, Present
    <3>3. QED
      BY <3>1, <3>2
  <2>5. Asking(u)'
    BY <2>1, <2>2 DEF Asking
  <2>6. Knows(u)'
    BY <2>1, <2>2, <2>4 DEF Knows, ListInv
  <2>7. ASSUME NEW v \in Users, Asking(v)' PROVE Current(v)' /\ Knows(v)'
    BY <2>1, <2>2, <2>5, <2>6, <2>7, KnowsKept, CurrentStep DEF Calm
  <2>8. ASSUME NEW v \in Users, Viewing(v)' PROVE Refreshed(v)' /\ Storing(v)'
    <3>1. Viewing(v)
      BY <2>2, <2>8 DEF Viewing
    <3>2. Refreshed(v) /\ Storing(v)
      BY <3>1 DEF ViewInv
    <3>3. \A w \in Users : pc'[w] = "update" => pc[w] = "update" /\ arg'[w] = arg[w]
      BY <2>2
    <3>4. \A f : Due(v, f)' <=> Due(v, f)
      BY <2>2 DEF Due
    <3>5. pc[v] = "lock" => pc'[v] = "lock" /\ arg'[v].file = arg[v].file
      BY <2>1, <2>2
    <3>6. Storing(v)'
      BY <2>1, <2>4, <3>2, <3>3, <3>4, <3>5 DEF Storing
    <3>7. ASSUME NEW f \in Files, Settled(f)'
          PROVE  Awaits(v, f)' \/ record'[f].words \in seen'[v][f]
      <4>1. CASE f = g
        <5>1. \/ Due(v, f) \/ (pc[v] = "lock" /\ arg[v].file = f)
              \/ arg[u].words \in seen[v][f]
          BY <2>1, <2>3, <2>4, <3>2, <3>7, <4>1 DEF Storing
        <5>2. QED
          BY <2>1, <2>4, <3>4, <3>5, <3>7, <4>1, <5>1 DEF Awaits
      <4>2. CASE f # g
        <5>1. Awaits(v, f) \/ record'[f].words \in seen'[v][f]
          BY <2>1, <2>4, <3>2, <3>7, <4>2 DEF Refreshed
        <5>2. Awaits(v, f) => Awaits(v, f)'
          BY <2>2, <2>3, <3>4, <4>2 DEF Awaits
        <5>3. QED
          BY <5>1, <5>2
      <4>3. QED
        BY <4>1, <4>2
    <3>8. QED
      BY <3>6, <3>7 DEF Refreshed
  <2>9. QED
    BY <2>7, <2>8 DEF ListInv, ViewInv
<1>10. ASSUME NEW s \in Servers, Stop(s)
       PROVE  ListInv' /\ ViewInv'
  <2>1. /\ UNCHANGED <<record, disk, arg, seen>>
        /\ pc' = [u \in Users |-> IF pc[u] = "wait" /\ arg[u].ss = s THEN "cut" ELSE pc[u]]
        /\ Unsettle({f \in Present : record[f].slot \in Active /\ slot[record[f].slot].ss = s})
    BY <1>10 DEF Stop, nsVars
  <2>2. ASSUME NEW u \in Users, Asking(u)'
        PROVE  /\ Asking(u) /\ Listing(u) /\ Current(u) /\ Knows(u)
               /\ \A f \in Files : Settled(f)' => Steady(u, f)
    <3>1. Asking(u)
      BY <2>1, <2>2 DEF Asking
    <3>2. QED
      BY <2>2, <3>1, AskingSteady, AskingLists DEF ListInv
  <2>3. ASSUME NEW u \in Users, Asking(u)', NEW f \in Files, Settled(f)', arg[u].file = f
        PROVE  pc'[u] = pc[u]
    <3>1. SUFFICES ASSUME pc[u] = "wait", arg[u].ss = s PROVE FALSE
      BY <2>1
    <3>2. Settled(f) /\ Listing(u)
      BY <2>2, <2>3 DEF Steady
    <3>3. record[f].slot \in Active /\ slot[record[f].slot].ss = s
      BY <2>2, <2>3, <3>1, <3>2 DEF Current, Knows, Online
    <3>4. f \notin {g \in Present : record[g].slot \in Active /\ slot[record[g].slot].ss = s}
      BY <2>1, <2>3, <3>2, StillSettled DEF Settled
    <3>5. QED
      BY <3>2, <3>3, <3>4 DEF Settled
  <2>4. ASSUME NEW u \in Users, Asking(u)' PROVE Current(u)' /\ Knows(u)'
    <3>1. Current(u)'
      BY <2>2, <2>4, CurrentStep
    <3>2. ASSUME NEW f \in Files, Settled(f)'
          PROVE  /\ Settled(f) /\ record'[f].slot = record[f].slot
                 /\ slot'[record[f].slot] = slot[record[f].slot]
      BY <2>2, <2>4, <3>2 DEF Steady, Current
    <3>3. Knows(u)'
      BY <2>1, <2>2, <2>3, <2>4, <3>2 DEF Knows
    <3>4. QED
      BY <3>1, <3>3
  <2>5. ASSUME NEW u \in Users, Viewing(u)' PROVE Refreshed(u)' /\ Storing(u)'
    <3>1. Viewing(u) /\ Asking(u)'
      BY <2>1, <2>5 DEF Viewing, Asking, Lists
    <3>2. Refreshed(u) /\ Storing(u)
      BY <3>1 DEF ViewInv
    <3>3. \A f \in Files : Settled(f)' => Settled(f)
      BY <2>2, <3>1 DEF Steady
    <3>4. \A f \in Files : Settled(f)' /\ Awaits(u, f) => Awaits(u, f)'
      BY <2>1, <2>3, <3>1 DEF Awaits, Due
    <3>5. Refreshed(u)'
      BY <2>1, <3>2, <3>3, <3>4 DEF Refreshed
    <3>6. /\ \A v \in Users : pc'[v] = "update" => pc[v] = "update"
          /\ pc[u] = "lock" => pc'[u] = "lock"
      BY <2>1
    <3>7. Storing(u)'
      BY <2>1, <3>2, <3>3, <3>6 DEF Storing, Due
    <3>8. QED
      BY <3>5, <3>7
  <2>6. QED
    BY <2>4, <2>5 DEF ListInv, ViewInv
<1>11. ASSUME NEW u \in Users, Request(u)
       PROVE  ListInv' /\ ViewInv'
  <2>1. pc[u] = "idle"
    BY <1>11 DEF Request, handle_create_folder_request, handle_move_file_request, Begin,
       handle_move_folder_request, handle_view_request, handle_view_folder_request, View, Create, Delete
  <2>2. ASSUME NEW cmd \in {"MOVE", "CREATE", "DELETE"}, NEW f \in Files, NEW i \in Active,
               Continue(u, "lock", [NoCall EXCEPT !.cmd = cmd, !.file = f, !.slot = i])
        PROVE  ListInv' /\ ViewInv'
    <3>1. PICK a : a = [NoCall EXCEPT !.cmd = cmd, !.file = f, !.slot = i]
      OBVIOUS
    <3>2. a.cmd \notin Lists
      BY <3>1 DEF NoCall, Lists
    <3>3. QED
      BY <1>2, <2>1, <2>2, <3>1, <3>2
  <2>3. ASSUME NEW todo, Continue(u, "notify", [NoCall EXCEPT !.cmd = "MOVEFOLDER", !.todo = todo])
        PROVE  ListInv' /\ ViewInv'
    <3>1. PICK a : a = [NoCall EXCEPT !.cmd = "MOVEFOLDER", !.todo = todo]
      OBVIOUS
    <3>2. a.cmd \notin Lists
      BY <3>1 DEF NoCall, Lists
    <3>3. QED
      BY <1>2, <2>1, <2>3, <3>1, <3>2
  <2>4. CASE \E name \in FolderNames : handle_create_folder_request(u, name)
    BY <1>1, <2>1, <2>4 DEF handle_create_folder_request
  <2>5. CASE \E f \in Files, name \in FolderNames : handle_move_file_request(u, f, name)
    BY <1>1, <2>1, <2>2, <2>5 DEF handle_move_file_request
  <2>6. CASE \E src, dst \in FolderNames : handle_move_folder_request(u, src, dst)
    BY <1>1, <2>1, <2>3, <2>6 DEF handle_move_folder_request, Rename
  <2>7. CASE \E f \in Files : Create(u, f)
    BY <1>1, <2>1, <2>2, <2>7 DEF Create
  <2>8. CASE \E f \in Files : Delete(u, f)
    BY <1>1, <2>1, <2>2, <2>8 DEF Delete
  <2>9. QED
    BY <1>4, <1>11, <2>4, <2>5, <2>6, <2>7, <2>8
       DEF Request, handle_view_request, handle_view_folder_request, Lists
<1>12. ASSUME NEW u \in Users, Thread(u)
       PROVE  ListInv' /\ ViewInv'
  <2>1. ASSUME pc[u] \in {"notify", "cut", "wait", "add"}, arg[u].cmd \notin Lists,
               \E label \in {"notify", "add", "owner"} : Continue(u, label, arg[u])
        PROVE  ListInv' /\ ViewInv'
    BY <1>2, <2>1
  <2>2. CASE NotifyNext(u)
    <3>1. pc[u] = "notify" /\ arg[u].cmd = "MOVEFOLDER" /\ arg[u] \in Calls
      BY <2>2 DEF NotifyNext, ThreadTypes, CallOK
    <3>2. CASE Proceed(u, "notify")
      <4>1. PICK e, a, label :
              /\ e \in arg[u].todo
              /\ a = [arg[u] EXCEPT !.todo = @ \ {e}, !.file = e[1], !.slot = e[2]]
              /\ label = IF e[2] \in Active THEN "lock" ELSE "notify"
              /\ Continue(u, label, a)
        BY <3>2 DEF Proceed
      <4>2. a.cmd \notin Lists
        BY <3>1, <4>1 DEF Calls, Lists
      <4>3. QED
        BY <1>2, <3>1, <4>1, <4>2
    <3>3. QED
      BY <1>1, <2>2, <3>1, <3>2 DEF NotifyNext
  <2>3. CASE Lock(u) /\ ~Asking(u)
    <3>1. pc[u] = "lock" /\ arg[u] \in Calls
      BY <2>3 DEF Lock, ThreadTypes
    <3>2. PICK a : a = [arg[u] EXCEPT !.ss = slot[arg[u].slot].ss]
      OBVIOUS
    <3>3. a.cmd = arg[u].cmd /\ (Continue(u, "wait", a) \/ Continue(u, "cut", arg[u]))
      BY <2>3, <3>1, <3>2 DEF Lock, Calls
    <3>4. QED
      BY <1>2, <2>3, <3>1, <3>3 DEF Asking
  <2>4. CASE NotifyFails(u)
    BY <1>1, <2>1, <2>4 DEF NotifyFails, Lists
  <2>5. CASE CreateDocument(u)
    BY <2>1, <2>5 DEF CreateDocument, Lists
  <2>6. CASE search_add_file(u)
    BY <2>1, <2>6 DEF search_add_file, ThreadTypes, CallOK, Lists
  <2>7. CASE ListLong(u) \/ SetOwner(u) \/ DeleteDocument(u) \/ ExchangeFails(u)
    BY <1>1, <2>7 DEF ListLong, SetOwner, DeleteDocument, ExchangeFails
  <2>8. CASE Receive(u)
    <3>1. /\ pc[u] = "answered" /\ pc'[u] = "idle" /\ arg'[u] = NoCall
          /\ \A v \in Users \ {u} : pc'[v] = pc[v] /\ arg'[v] = arg[v]
      BY <2>8 DEF Receive, ThreadTypes, CallOK
    <3>2. ~Asking(u)'
      BY <3>1, NoCallTyping DEF Asking, Lists
    <3>3. QED
      BY <3>1, <3>2, QuietStep DEF Calm
  <2>9. QED
    BY <1>5, <1>6, <1>7, <1>8, <1>9, <1>12, <2>2, <2>3, <2>4, <2>5, <2>6, <2>7, <2>8 DEF Thread
<1>13. ASSUME StorageServer
       PROVE  ListInv' /\ ViewInv'
  <2>1. ASSUME \/ \E s \in Servers, f \in Files, words \in Words : Write(s, f, words)
               \/ \E s \in Servers, i \in 1..Slots : Register(s, i)
               \/ \E i \in 1..Slots : Remove(i)
        PROVE  UNCHANGED <<pc, arg>>
    BY <2>1 DEF Write, Register, Remove
  <2>2. QED
    BY <1>3, <1>10, <1>13, <2>1 DEF StorageServer
<1>14. UNCHANGED vars => UNCHANGED <<pc, arg>>
  BY DEF vars
<1>15. QED
  BY <1>3, <1>11, <1>12, <1>13, <1>14 DEF Next

\* While a listing or its answer is under way, what it has seen grows, and so do the loose
\* files.
LEMMA ListingGrows ==
  ASSUME IndInv, [Next]_vars, NEW w \in Users, Listing(w), Listing(w)', NEW f \in Files
  PROVE  (loose[f] => loose'[f]) /\ seen[w][f] \subseteq seen'[w][f]
<1> USE DEF IndInv, TypeInv
<1>1. ASSUME NEW F, Unsettle(F) PROVE loose[f] => loose'[f]
  BY <1>1 DEF Unsettle
<1>2. ASSUME NEW g \in Files, NEW words, SeenNow(g, words) PROVE seen[w][f] \subseteq seen'[w][f]
  BY <1>2 DEF SeenNow, ListTypes
<1>3. ASSUME NEW u \in Users, NEW cmd, NEW folder, NEW flags, View(u, cmd, folder, flags)
      PROVE  (loose[f] => loose'[f]) /\ seen[w][f] \subseteq seen'[w][f]
  <2>1. pc[u] = "idle"
    BY <1>3 DEF View, Begin
  <2>2. arg[u] = NoCall /\ reply[u] = NoReply
    BY <2>1 DEF ThreadTypes, CallOK, ReplyInv
  <2>3. u # w
    BY <2>2, NoCallTyping DEF Listing, NoReply, Response
  <2>4. QED
    BY <1>3, <2>3 DEF View, ListTypes, listVars
<1>4. ASSUME NEW u \in Users, Receive(u)
      PROVE  (loose[f] => loose'[f]) /\ seen[w][f] \subseteq seen'[w][f]
  <2>1. reply'[u] = NoReply /\ arg'[u] = NoCall
    BY <1>4 DEF Receive, ReplyInv, ThreadTypes, CallOK
  <2>2. u # w
    BY <2>1, NoCallTyping DEF Listing, NoReply, Response
  <2>3. QED
    BY <1>4, <2>2 DEF Receive, ListTypes
<1>5. ASSUME NEW u \in Users, Request(u)
      PROVE  (loose[f] => loose'[f]) /\ seen[w][f] \subseteq seen'[w][f]
  <2>1. ASSUME \/ \E name \in FolderNames : handle_create_folder_request(u, name)
               \/ \E g \in Files, name \in FolderNames : handle_move_file_request(u, g, name)
               \/ \E src, dst \in FolderNames : handle_move_folder_request(u, src, dst)
               \/ \E g \in Files : Create(u, g)
        PROVE  UNCHANGED <<seen, loose>>
    BY <2>1 DEF handle_create_folder_request, handle_move_file_request, handle_move_folder_request,
       Create, histVars, listVars
  <2>2. ASSUME NEW g \in Files, Delete(u, g)
        PROVE  UNCHANGED <<seen, loose>> \/ (Unsettle({g}) /\ UNCHANGED seen)
    BY <2>2 DEF Delete, histVars, listVars
  <2>3. QED
    BY <1>1, <1>3, <1>5, <2>1, <2>2 DEF Request, handle_view_request, handle_view_folder_request
<1>6. ASSUME NEW u \in Users, Thread(u)
      PROVE  (loose[f] => loose'[f]) /\ seen[w][f] \subseteq seen'[w][f]
  <2>1. ASSUME \/ NotifyNext(u) \/ Lock(u) \/ NotifyFails(u) \/ Refresh(u) \/ GetMetadata(u)
               \/ GetMetadataFails(u) \/ search_update_file_metadata(u) \/ ListLong(u) \/ SetOwner(u)
        PROVE  UNCHANGED <<seen, loose>>
    BY <2>1 DEF NotifyNext, Lock, NotifyFails, Refresh, GetMetadata, GetMetadataFails,
       search_update_file_metadata, ListLong, SetOwner, histVars, listVars
  <2>2. ASSUME CreateDocument(u) \/ DeleteDocument(u) \/ ExchangeFails(u)
        PROVE  UNCHANGED seen /\ \E F : Unsettle(F)
    BY <2>2 DEF CreateDocument, DeleteDocument, ExchangeFails, Purge
  <2>3. ASSUME search_add_file(u)
        PROVE  arg[u].file \in Files /\ SeenNow(arg[u].file, 0) /\ Unsettle({arg[u].file})
    BY <2>3 DEF search_add_file, ThreadTypes, CallOK
  <2>4. QED
    BY <1>1, <1>2, <1>4, <1>6, <2>1, <2>2, <2>3 DEF Thread
<1>7. ASSUME StorageServer
      PROVE  (loose[f] => loose'[f]) /\ seen[w][f] \subseteq seen'[w][f]
  <2>1. ASSUME NEW s, NEW g \in Files, NEW words, Write(s, g, words)
        PROVE  SeenNow(g, words) /\ UNCHANGED loose
    BY <2>1 DEF Write
  <2>2. ASSUME \/ \E s \in Servers : Stop(s)
               \/ \E i \in 1..Slots : Remove(i)
               \/ \E s \in Servers, i \in 1..Slots : Register(s, i)
        PROVE  UNCHANGED seen /\ \E F : Unsettle(F)
    BY <2>2 DEF Stop, Remove, Register, Purge
  <2>3. QED
    BY <1>1, <1>2, <1>7, <2>1, <2>2 DEF StorageServer
<1>8. UNCHANGED vars => UNCHANGED <<seen, loose>>
  BY DEF vars, histVars, listVars
<1>9. QED
  BY <1>5, <1>6, <1>7, <1>8 DEF Next

\* An answer on its way stays right.
LEMMA ReplyKept ==
  ASSUME IndInv, [Next]_vars, NEW w \in Users, reply'[w] = reply[w],
         reply[w].cmd = "VIEW", "long" \in reply[w].flags, NEW line \in reply[w].files
  PROVE  loose'[line[1]] \/ line[2] \in seen'[w][line[1]]
<1>1. Listing(w) /\ Listing(w)'
  BY DEF Listing
<1>2. line[1] \in Files /\ (loose[line[1]] \/ line[2] \in seen[w][line[1]])
  BY DEF IndInv, ReplyInv, CountsFresh
<1>3. (loose[line[1]] => loose'[line[1]]) /\ seen[w][line[1]] \subseteq seen'[w][line[1]]
  BY <1>1, <1>2, ListingGrows
<1>4. QED
  BY <1>2, <1>3

\* A step that sends no answer keeps those on their way.
LEMMA SilentStep ==
  ASSUME IndInv, [Next]_vars, UNCHANGED reply,
         \A v \in Users : pc'[v] # "answered" => pc[v] # "answered"
  PROVE  ReplyInv'
<1>1. CountsFresh'
  BY ReplyKept DEF CountsFresh
<1>2. QED
  BY <1>1 DEF IndInv, ReplyInv

\* A thread answers: the counts of a VIEW -l have to be right, other answers are kept.
LEMMA AnswerStep ==
  ASSUME IndInv, [Next]_vars, NEW u \in Users, NEW answer, Answer(u, answer),
         \A line \in answer.files : line[1] \in Files,
         answer.cmd = "VIEW" /\ "long" \in answer.flags =>
           \A line \in answer.files : loose'[line[1]] \/ line[2] \in seen'[u][line[1]]
  PROVE  ReplyInv'
<1>1. /\ reply'[u] = answer /\ \A v \in Users \ {u} : reply'[v] = reply[v] /\ pc'[v] = pc[v]
      /\ pc'[u] = "answered" /\ reply' = [v \in Users |-> reply'[v]]
  BY DEF Answer, IndInv, TypeInv, ReplyInv, ThreadTypes
<1>2. ASSUME NEW v \in Users, reply'[v].cmd = "VIEW", "long" \in reply'[v].flags,
             NEW line \in reply'[v].files
      PROVE  loose'[line[1]] \/ line[2] \in seen'[v][line[1]]
  <2>1. CASE v = u
    BY <1>1, <1>2, <2>1
  <2>2. CASE v # u
    BY <1>1, <1>2, <2>2, ReplyKept
  <2>3. QED
    BY <2>1, <2>2
<1>3. CountsFresh'
  BY <1>2 DEF CountsFresh
<1>4. QED
  BY <1>1, <1>3 DEF IndInv, ReplyInv

\* An acknowledgement or an error shows no counts.
LEMMA PlainAnswer ==
  ASSUME IndInv, [Next]_vars, NEW u \in Users, Answer(u, ACK) \/ Answer(u, ERROR)
  PROVE  ReplyInv'
<1>1. ACK.cmd # "VIEW" /\ ERROR.cmd # "VIEW" /\ ACK.files = {} /\ ERROR.files = {}
  BY DEF ACK, ERROR, Response
<1>2. QED
  BY <1>1, AnswerStep

\* The counts of every VIEW -l answer are of the time of the listing.
LEMMA ReplyStep == IndInv /\ [Next]_vars => ReplyInv'
<1> SUFFICES ASSUME IndInv, [Next]_vars PROVE ReplyInv'
  OBVIOUS
<1> USE DEF IndInv, TypeInv
<1>1. ASSUME NEW u \in Users, pc[u] # "answered", UNCHANGED reply, \E label, a : Continue(u, label, a)
      PROVE  ReplyInv'
  <2>1. \A v \in Users \ {u} : pc'[v] = pc[v]
    BY <1>1, OthersRest
  <2>2. QED
    BY <1>1, <2>1, SilentStep
<1>2. ASSUME NEW u \in Users, NEW cmd, NEW folder, NEW flags, View(u, cmd, folder, flags)
      PROVE  ReplyInv'
  <2>1. ASSUME NEW list \in Listings(u, cmd, folder, flags), Answer(u, list), "long" \notin flags
        PROVE  ReplyInv'
    <3>1. list.flags = flags /\ \A line \in list.files : line[1] \in Files
      BY ListingLines DEF Present
    <3>2. QED
      BY <2>1, <3>1, AnswerStep
  <2>2. pc[u] = "idle"
    BY <1>2 DEF View, Begin
  <2>3. QED
    BY <1>1, <1>2, <2>1, <2>2 DEF View
<1>3. ASSUME NEW u \in Users, ListLong(u)
      PROVE  ReplyInv'
  <2>1. PICK list \in Listings(u, arg[u].cmd, arg[u].folder, arg[u].flags) : Answer(u, list)
    BY <1>3 DEF ListLong
  <2>2. /\ list.cmd = arg[u].cmd
        /\ \A line \in list.files : line[1] \in Present /\ line[2] = record[line[1]].words
    BY ListingLines
  <2>3. ASSUME arg[u].cmd = "VIEW" PROVE \A f \in Present : loose[f] \/ record[f].words \in seen[u][f]
    <3>1. Viewing(u) /\ \A f : ~Awaits(u, f)
      BY <1>3, <2>3 DEF ListLong, Viewing, Awaits, Due
    <3>2. QED
      BY <3>1 DEF ViewInv, Refreshed, Settled, Present
  <2>4. UNCHANGED <<seen, loose>>
    BY <1>3 DEF ListLong, histVars, listVars
  <2>5. \A line \in list.files : line[1] \in Files
    BY <2>2 DEF Present
  <2>6. list.cmd = "VIEW" => \A line \in list.files : loose'[line[1]] \/ line[2] \in seen'[u][line[1]]
    BY <2>2, <2>3, <2>4
  <2>7. QED
    BY <2>1, <2>5, <2>6, AnswerStep
<1>4. ASSUME NEW u \in Users, Receive(u)
      PROVE  ReplyInv'
  <2>1. /\ reply'[u] = NoReply /\ pc'[u] = "idle" /\ reply' = [v \in Users |-> reply'[v]]
        /\ \A v \in Users \ {u} : reply'[v] = reply[v] /\ pc'[v] = pc[v]
    BY <1>4 DEF Receive, ReplyInv, ThreadTypes
  <2>2. NoReply.cmd # "VIEW" /\ NoReply.files = {}
    BY DEF NoReply, Response
  <2>3. ASSUME NEW v \in Users, reply'[v].cmd = "VIEW", "long" \in reply'[v].flags,
               NEW line \in reply'[v].files
        PROVE  loose'[line[1]] \/ line[2] \in seen'[v][line[1]]
    BY <2>1, <2>2, <2>3, ReplyKept
  <2>4. CountsFresh'
    BY <2>3 DEF CountsFresh
  <2>5. QED
    BY <2>1, <2>2, <2>4 DEF ReplyInv
<1>5. ASSUME NEW u \in Users, Request(u)
      PROVE  ReplyInv'
  <2>1. pc[u] = "idle"
    BY <1>5 DEF Request, handle_create_folder_request, handle_move_file_request, Begin,
       handle_move_folder_request, handle_view_request, handle_view_folder_request, View, Create, Delete
  <2>2. CASE \/ \E name \in FolderNames : handle_create_folder_request(u, name)
             \/ \E f \in Files, name \in FolderNames : handle_move_file_request(u, f, name)
             \/ \E src, dst \in FolderNames : handle_move_folder_request(u, src, dst)
             \/ \E f \in Files : Create(u, f)
             \/ \E f \in Files : Delete(u, f)
    <3>1. \/ Answer(u, ACK) \/ Answer(u, ERROR)
          \/ UNCHANGED reply /\ \E label, a : Continue(u, label, a)
      BY <2>2 DEF handle_create_folder_request, handle_move_file_request, handle_move_folder_request,
         Rename, Create, Delete
    <3>2. QED
      BY <1>1, <2>1, <3>1, PlainAnswer
  <2>3. QED
    BY <1>2, <1>5, <2>2 DEF Request, handle_view_request, handle_view_folder_request
<1>6. ASSUME NEW u \in Users, Thread(u)
      PROVE  ReplyInv'
  <2>1. CASE \/ NotifyNext(u) \/ Lock(u) \/ NotifyFails(u) \/ Refresh(u) \/ GetMetadata(u)
             \/ GetMetadataFails(u) \/ search_update_file_metadata(u) \/ CreateDocument(u)
             \/ search_add_file(u) \/ SetOwner(u) \/ DeleteDocument(u) \/ ExchangeFails(u)
    <3>1. \/ Answer(u, ACK) \/ Answer(u, ERROR)
          \/ UNCHANGED reply /\ \E label, a : Continue(u, label, a)
      BY <2>1 DEF NotifyNext, Lock, NotifyFails, Refresh, GetMetadata, GetMetadataFails, Proceed,
         search_update_file_metadata, CreateDocument, search_add_file, SetOwner, DeleteDocument,
         ExchangeFails
    <3>2. pc[u] # "answered"
      BY <2>1 DEF NotifyNext, Lock, NotifyFails, Refresh, GetMetadata, GetMetadataFails,
         search_update_file_metadata, CreateDocument, search_add_file, SetOwner, DeleteDocument,
         ExchangeFails
    <3>3. QED
      BY <1>1, <3>1, <3>2, PlainAnswer
  <2>2. QED
    BY <1>3, <1>4, <1>6, <2>1 DEF Thread
<1>7. ASSUME StorageServer \/ UNCHANGED vars
      PROVE  ReplyInv'
  <2>1. UNCHANGED reply /\ \A v \in Users : pc'[v] # "answered" => pc[v] # "answered"
    BY <1>7 DEF StorageServer, Write, Stop, Remove, Register, vars
  <2>2. QED
    BY <2>1, SilentStep
<1>8. QED
  BY <1>5, <1>6, <1>7 DEF Next

-----------------------------------------------------------------------------
(* The theorems *)

\* The invariant holds when the name server starts.
LEMMA InitHolds == Init => IndInv
<1> SUFFICES ASSUME Init PROVE IndInv
  OBVIOUS
<1>1. disk \in [Servers -> [Files -> Doc \cup {None}]]
  <2>1. \A f \in Files : OnDisk[f] # None => [owner |-> OnDisk[f], words |-> 0] \in Doc
    BY NoCallTyping, NameAssumption DEF Doc, Owners
  <2>2. QED
    BY <2>1 DEF Init
<1>2. \A f \in Files : OnDisk[f] # None =>
        /\ NewRecord(OnDisk[f], Home[f], 0) \in Rec
        /\ Len(NewRecord(OnDisk[f], Home[f], 0).folder) <= MaxName
  BY NewRecordTyping, NoCallTyping, NameAssumption DEF Owners
<1>3. NSTypes
  <2>1. registry \in Seq(Entry) /\ Len(registry) = 0
    BY DEF Init
  <2>2. record \in [Files -> Rec \cup {None}] /\ \A f \in Present : Len(record[f].folder) <= MaxName
    BY <1>2 DEF Init, Present
  <2>3. QED
    BY <2>1, <2>2, BoundAssumption DEF NSTypes
<1>4. SSTypes
  <2>1. slot \in [1..Slots -> [ss : Servers, open : BOOLEAN] \cup {None}]
        /\ \A i \in 1..Slots : slot[i].ss \in Servers
    BY NameAssumption DEF Init
  <2>2. QED
    BY <1>1, <2>1 DEF Init, SSTypes, Online, Active
<1>5. HistTypes
  BY BoundAssumption DEF Init, HistTypes
<1>6. ListTypes
  BY DEF Init, ListTypes, NotSeen
<1>7. ThreadTypes
  BY NoCallTyping DEF Init, ThreadTypes, CallOK, Labels, Lists
<1>8. MutexInv
  BY NoneAssumption DEF Init, MutexInv
<1>9. FolderInv
  BY DEF Init, FolderInv, OneFolderPerName, FilesFollowFolder, Indices, Present, NewRecord
<1>10. ListInv /\ ViewInv
  BY NoCallTyping DEF Init, ListInv, ViewInv, Viewing, Asking, Lists
<1>11. ReplyInv
  BY DEF Init, ReplyInv, CountsFresh, NoReply, Response
<1>12. QED
  BY <1>3, <1>4, <1>5, <1>6, <1>7, <1>8, <1>9, <1>10, <1>11 DEF IndInv, TypeInv

\* Every reachable state satisfies the invariant.
LEMMA Invariance == Spec => []IndInv
<1>1. IndInv /\ [Next]_vars => IndInv'
  BY NSTypesStep, SSTypesStep, HistTypesStep, ListTypesStep, ThreadTypesStep, MutexStep,
     FolderStep, ListingStep, ReplyStep DEF IndInv, TypeInv
<1>2. QED
  BY InitHolds, <1>1, PTL DEF Spec

\* Every variable keeps its type: whatever is moved, a folder name fits the buffer of
\* MAX_FILENAME bytes, the registry stays within MAX_FOLDERS, a thread waits for a server
\* that runs, and a socket_mutex is held exactly by the thread that talks through its slot.
THEOREM TypeCorrect == Spec => []TypeOK
<1>1. IndInv => TypeOK
  <2> SUFFICES ASSUME IndInv PROVE TypeOK
    OBVIOUS
  <2> USE DEF IndInv, TypeInv
  <2>1. \A i \in Indices : registry[i].name \in FolderNames /\ registry[i].owner \in Users
    <3>1. \A i \in Indices : registry[i] \in Entry
      BY DEF NSTypes, Indices
    <3>2. QED
      BY <3>1 DEF Entry
  <2>2. \A f \in Present : /\ record[f].owner \in Users \cup {None} /\ record[f].words \in Words
                           /\ Len(record[f].folder) <= MaxName /\ record[f].slot \in 1..Slots
    BY DEF NSTypes, Present, Rec, Owners
  <2>3. disk \in [Servers -> [Files -> [owner : Users \cup {None}, words : Words] \cup {None}]]
    BY DEF SSTypes, Doc, Owners
  <2>4. \A i \in 1..Slots : holder[i] \in Users \cup {None}
    BY DEF MutexInv
  <2>5. QED
    BY <2>1, <2>2, <2>3, <2>4
       DEF TypeOK, NSTypes, SSTypes, HistTypes, ListTypes, ThreadTypes, MutexInv, Labels
<1>2. QED
  BY <1>1, Invariance, PTL

\* No two entries of the folder registry have the same name, for any number of folders
\* created and moved by any number of users (search_add_folder, search_move_folder).
THEOREM FolderNamesUnique == Spec => []OneFolderPerName
<1>1. IndInv => OneFolderPerName
  BY DEF IndInv, FolderInv
<1>2. QED
  BY <1>1, Invariance, PTL

\* A file follows the folder it was put into through every MOVEFOLDER
\* (search_move_folder), except below a moved folder.
THEOREM FilesStayInFolder == Spec => []FilesFollowFolder
<1>1. IndInv => FilesFollowFolder
  BY DEF IndInv, FolderInv
<1>2. QED
  BY <1>1, Invariance, PTL

\* The counts of a VIEW -l answer are counts the documents had during the request, however
\* many listings ask however many servers and store into the same records at the same time
\* (search_get_file_list), for the files that no CREATE, DELETE, registration or stop of a
\* server unsettles while a listing is under way.
THEOREM ViewCountsFresh == Spec => []CountsFresh
<1>1. IndInv => CountsFresh
  BY DEF IndInv, ReplyInv
<1>2. QED
  BY <1>1, Invariance, PTL

=============================================================================
