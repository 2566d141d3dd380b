# DOC++: specifications and proofs

TLA+ specifications of the collaborative document system in `src/`: one name
server (NS), storage servers (SS) and clients, written in C with POSIX threads
over TCP. The repository has no tests; most of what can go wrong in it is a
matter of which thread runs between two system calls, and that is what the
modules describe.

## The system

| part | state | operations | talks to |
|---|---|---|---|
| name server, client threads (`name_server/client_handler.c`, `executor.c`) | locals of each request | CREATE, DELETE, UNDO, INFO, EXEC, READ/WRITE/STREAM and checkpoint redirects, LOCATE, ADDACCESS, REMACCESS, VIEW, VIEWFOLDER, CREATEFOLDER, MOVE, MOVEFOLDER, dead reports, LIST | clients; storage servers over the socket of their registration, one exchange at a time under `socket_mutex` |
| registry (`storage_manager.c`) | `ss_registry`, `next_ss_index` | register, synchronise the file list, remove, pick for a new file | a registration thread per SS |
| file index (`search.c`) | trie of records: server slot, owner, access list, folder, counts; the folder registry | find, add, delete, grant, purge, rebuild; add and move folders, list, refresh counts | `trie_mutex` |
| cache (`cache.c`) | 16 entries, LRU by seconds | lookup, add, invalidate | `cache_mutex` |
| active users (`user_manager.c`) | array of names | register, deregister, list | one call at each end of a client connection |
| storage server, client threads (`storage_server/main.c`) | sentence locks; documents, swap copies, backups, undo logs, checkpoints, request files on disk | WRITE, edit line, ETIRW, UNDO, CHECKPOINT, REVERT, CREATE, DELETE, READ, STREAM, access requests | clients, directly |
| storage server, NS thread (same file) | `file_table` | registration, forwarded commands | NS |
| metadata (`persistence.c`) | `file_table` and its text file | load, save, update | every thread of the SS, without a lock |
| client (`client/main.c`) | its two sockets | login, one command at a time, dead reports, EXEC with a new login | NS by headers and payloads, then, by lines of text, the SS a redirect names |
| wire protocol (`common/protocol.c`, `protocol.h`) | none | send and receive by length | every connection of the NS |

What is hard: the lock list is tested and extended in two critical sections;
no lock covers a file; commits are read, merge, truncate, write; locks and swap
copies are named after descriptors, which are reused; the SS stops with the NS,
whatever its threads are doing; NS handlers hold a socket mutex while they wait
for an answer that may not come; the NS does not ignore SIGPIPE; a storage server gets requests before its file
list has been read; the trie, the cache and the disks are updated one after
another; an SS can die at any point and come back at the same address; `file_table`
is shifted under the pointers of other threads and its file is truncated before it
is rewritten; the client finds the end of a text by a marker in what one `recv`
happens to return; folders are related to files and to each other by nothing but
their names.

What makes each part correct: an edit session changes its sentence and nothing
else, and its effects survive other sessions (StorageServer, DocText); undo
history and backups agree; the parties of an NS-SS exchange are paired, every
request is answered and every mutex given back (NameServer); index, cache and
disks agree about a file once its requests are over; the list of users is the
set of connected users; a permission is one that was asked for or granted; the
table of metadata follows the commands that create and delete files and its file
follows the table (Metadata); both ends of a connection agree on where a message begins, what is
shown is what was sent, and no party waits for ever (ClientSession); a folder name
finds one folder and a file stays in the folder it was put into (Folders).

## Modules

**DocText** (text algorithms, no state). A document is the sequence of words
that `strtok` finds; a word is a base with a number of trailing delimiters, so
that "b.", "." and "c?!" are told apart and the three delimiter characters are
not. `Scan`/`Sentences` are `get_sentence_info_simple` and its two copies in the
ETIRW and edit code, `Available` the range test of WRITE, `Body`, `InsertOK` and
`Insert` an edit line, `Merge` the merge of ETIRW. Recursion is written as
recursive functions.

**EditSession** puts WRITE, edit lines and ETIRW of one user in sequence, to
check these algorithms against what a user is promised.

**StorageServer** has a thread per client descriptor and the NS thread. `pc[p]`
is the next step of a thread; a step ends where another thread may get in:
at each `lock_mutex` section and each file operation.

| code | actions |
|---|---|
| accept, end of the handler, `close` | `Accept`, `Hangup` (EXIT or recv failure: `remove_client_locks`), `CloseFd` |
| WRITE | `Write` (read), `WriteSize` (second read and range), `WriteCheck` (`is_sentence_locked`), `WriteAdd` (`add_sentence_lock`) |
| edit line | `Edit` (the swap copy is the connection's own, one step) |
| ETIRW | `Etirw`, `BackupRead`/`BackupWrite`/`BackupLog` (`create_file_backup`), `EtirwMerge`, `Truncate` (`fopen "w"`), `WriteOut`, `UpdateTable`, `EtirwUnlock` |
| UNDO, from a client or the NS | `Undo`, `UndoFind`, `Truncate`, `WriteOut`, `UndoLog`, `UpdateTable` |
| CHECKPOINT, REVERT | `Checkpoint`, `CheckpointRead`, `CheckpointWrite`; `Revert`, `RevertRead`, then the backup and write steps |
| CREATE, DELETE | `Create`, `Delete` (a thread that has the file open writes to the unlinked one: `arg.live`) |
| end of `main` and the next start | `Shutdown`: threads die where they stand, the disk stays |

**WriteSessions** is the abstract specification of the sessions: a connection is
closed, takes commands or edits one sentence. `StorageServer!ImplementsSessions`
maps the lock list and `pc` to it. It deliberately says nothing about two
connections: the code does not keep them apart (see `ss_exclusion`).

**NameServer** composes the client threads, the registration threads, registry,
index and cache of the NS with the NS side of the storage servers, over FIFO
sockets that break when a server dies. A step ends at each section of
`ss_registry_mutex`, `trie_mutex` or `cache_mutex` and at each blocking call.
`Request` is `route_message`; the first label of a request and the field `cmd`
decide its way through the shared steps `Lookup`, `Hit`, `FindInTrie`, `CacheAdd`,
`CheckPermission`, `Resolve`, `Send`, `Wait`, `Receive`, `RemoveServer`, `Purge`.
A failed `recv` in ADDACCESS and REMACCESS leaves an uninitialised header, which
is a choice between both outcomes. A first `send` to a server that is gone is
accepted and lost, and answered with a reset (`reset`); so is what a server leaves unread when
it ends (`Exit`). From then on a `send` fails (`SendFails`) or raises SIGPIPE, which ends
the NS with its threads and connections (`Sigpipe`, `RegisterSigpipe`, `Kill`); SET_OWNER,
ADDACCESS, REMACCESS and MOVE send header and payload in two calls, so that one message is
enough. A killed NS is not started again in this module (every thread is `gone`):
`NSUp` in ClientSession is its restart.

**UserManager** is the list of active users and the two calls at the ends of a
connection. **AccessRequests** is the request file, its readers and rewriters,
and the two access lists that an approval should change.

**Metadata** is `persistence.c`: `file_table` as an array whose slots beyond
`file_count` keep their old contents, and `metadata.txt` as a sequence of lines that
may be cut. A step is one access to the table or one system call on the file. The NS
thread and every client thread add and remove entries; only the NS thread sets owners
and revokes. Two of them at once can leave the array (`OutOfBounds`), which is undefined and
stops the model until the next start (`wild`).

| code | actions |
|---|---|
| an operation is asked for by the NS or a client | `Begin` |
| `persist_find_file` and the loops like it | `persist_find_file`, one entry a step |
| `add_metadata_entry`, `remove_metadata_entry` | the actions of these names: the name into the slot, then its fields into the slot that is next by then, and the count; shift one entry a step, then count |
| `persist_set_owner`, `persist_set_acl`, `persist_remove_acl` | the actions of these names, through the index that the search found; `persist_set_acl` looks for the user, fills the place behind the list and counts it in three steps |
| `save_metadata` | `SaveOpen` (`fopen "w"`), `SavePrint` (an entry into the buffer), `SaveFlush` (the buffer reaches the file early), `SaveClose` |
| crash, `load_metadata` | `Restart`; `Loaded` and `Parsed` say what `load_metadata` makes of whole and cut lines |

`persist_update_last_accessed` and `update_metadata_entry` change only times and
counts, which are left out: they are a search and a save (`touch`).

**ClientSession** composes one client with its thread at the NS and its thread at
the SS. The connection to the NS is a sequence of headers and payloads; each handler
of `command_loop` is an action of its own name, with a step for each `recv`. The
connection to the SS is a sequence of pieces of text: a marker is two pieces,
so that a `recv` can end inside it, and `Packets` are the beginnings that a `recv` may
return. `NSAnswer`, `NSAsked`, `NSAskFails` and `SSCommand` send what the handlers of
`client_handler.c`, `executor.c` and `storage_server/main.c` can send, whatever the
files are. A handler of `Exchanged` that needs the SS waits for `socket_mutex` or for the answer
(`NSAsk`), which need not come: a CREATE, DELETE or UNDO that fails at the SS is not
acknowledged, and SET_FOLDER never is. Both processes stop and start (`NSDown`, `NSUp`, `SSDown`, `SSUp`), and the
NS may be killed by SIGPIPE (`NSSend`, `NSAskFails`). A `send` to a socket whose other end is
gone is lost or ends the client.

**Folders** is the folder registry, the folder of each record and the listings. A
folder's name is a sequence of characters, because the code compares prefixes of
names. A step is one section of `trie_mutex` or one blocking call. There are several
storage servers; a record names the slot of its server, and a thread goes on with the
slot it has read, although the file may be on another server by then.

| code | actions |
|---|---|
| `search_add_folder`, `search_set_file_folder`, `search_move_folder` and their handlers | `handle_create_folder_request`, `handle_move_file_request`, `handle_move_folder_request`, then `NotifyNext`, `Lock`, `NotifyFails` for `MSG_INTERNAL_SET_FOLDER` |
| `search_get_file_list`, `search_get_files_in_folder` | `handle_view_request`, `handle_view_folder_request`, with `Refresh`, `GetMetadata`, `GetMetadataFails`, `search_update_file_metadata` for each file and `ListLong` when the -l flag is given |
| CREATE | `Create`, `Lock`, `CreateDocument`, `search_add_file`, `SetOwner` |
| DELETE | `Delete` (the record), `Lock`, `DeleteDocument` |
| a server that is gone, for both | `ExchangeFails`, with the purge |
| the storage servers | `Write`, `Stop`, `Remove` (the NS notices), `Register` |

The `MC*` modules only define values for constants. `StorageServerProofs`,
`UserManagerProofs`, `AccessRequestsProofs`, `FoldersProofs`, `NameServerProofs`,
`ClientSessionProofs`, `MetadataProofs` and `EditSessionProofs` hold the theorems.

## Runs

Runs that pass:

| run | checks | instance and why it is enough |
|---|---|---|
| `edit` | `NoBlankWord`, `SentencesPartitionText`, `CommitTouchesOnlyTarget`, `CommitKeepsUnsplitEdits` | every document of up to 3 words over "a", "b.", "." and "c.." (a double delimiter), inputs with delimiters inside and at the end, copies of up to 5 words: all positions of a sentence relative to its neighbours occur |
| `ss_all` | `TypeOK`, `OneSentencePerConnection`, `LocksBelongToOpenConnections`, `CommitHasItsCopy`, `UndoLogResolves`, `SwapChangesUnderLock`, `ImplementsSessions` | two connections and the NS thread, two sentences, 5 requests, two seconds, all commands and restarts; connections are symmetric |
| `ss_live` | `CommitReleasesLock` | all commands, 4 requests, fair threads |
| `ns_all` | `TypeOK`, `MutexFollowsExchange` | all requests, two of them, two clients, two servers over three connections, one cache entry, crashes, dead reports and SIGPIPE |
| `ns_private` | `PrivateFilesConsistent` | each client with its own file, two servers, two cache entries, 4 requests, one place in access lists |
| `ns_live` | `AllAnswered`, `ReplyPairing` | commands that a live server always answers, 3 requests for one file at one server, a crash at any point; the NS answers or is ended by SIGPIPE |
| `users` | `TypeOK`, `ListedOnce`, `ListedAreServed` | four connections, three users, a list of two places: full lists and shared names occur |
| `req_all` | `TypeOK`, `AccessWasAsked` | two users, two connections of the owner, 4 commands, files cut at 2 lines, lists of one entry |
| `client` | `TypeOK`, `InStep`, `ShownIsServed`, `StreamShowsPrefix`, `SuccessMeansDone`, `NoLineDiscarded`, `CommandEnds`, `ThreadEnds` | any number of commands, all of them, one client; texts that are empty or hold a word and the text of a marker; both servers stop and start at any point, without a bound |
| `persist` | `TypeOK`, `TableFollowsCommands`, `GrantsInForce`, `SoloIsDurable`, `CrashLosesTail` | the NS thread and one client's, three files over a table of two places, two users over lists of two places, 4 operations and a crash; files and users are symmetric |
| `folders` | `TypeOK`, `OneFolderPerName`, `FilesFollowFolder`, `CountsFresh` | two users, two servers, folders "a", "a/b" and "c" over a registry of two entries, names of up to 3 characters, a file that is deleted and created again on either server, 4 requests, one stop or removal; a listing of one line fits |

The properties of `client` say: at the prompt nothing is left on the connection to the
NS; a text that ended with its marker was printed as it was sent; a STREAM prints a
beginning of the file; success is printed only for what was done; no line is sent
behind an unread one; a command ends, unless the NS waits for a running SS in it, and
then when the SS stops; the SS thread of a client that left ends with its locks.
"Done" means that the SS has sent OK for this very command; APPROVEREQUEST is excepted,
because it is answered with OK whatever became of the grant. `Whole` assumes that a `recv`
does not end inside the bytes of a marker: the SS sends a marker with one `send` and it
is short, but TCP does not promise it, and the client's own buffer of 8191 bytes cuts
the marker of a text of that length (`TextEnds` in the departures).
Those of `persist` say: as long as no two threads change names or owners at once, the
table has the files that were created and not deleted and their owners, whatever else
the threads do; an access list holds granted users only, except where a removal or another
change of names or of the list ran at the same time; a change that ran alone is in the file; a
crash loses entries from the end of the table only. The conditions of the first two are not
met by the code, which has no lock (`TableAlwaysFollows`, `GrantsAlwaysInForce`). Those of
`folders` say: a name is one folder; files go where their folder
goes, except below another folder that was moved; the counts of VIEW -l are ones
the document had since the request, for files that are not created, deleted or
registered and do not lose their server while a listing is under way (`loose`).
`PrivateFilesConsistent` has its conditions in `ns_private`: no file of two clients, no stop
of a server, a cache with a place for each file.

`requests` bounds the commands of a behaviour, `MaxClock` the seconds; both are
guards of the actions that would exceed them. Deadlock checking is off where the
bound on requests ends every behaviour, and on in the edit and user runs.

A run with `expect: violation` states what a comment or the repository's README says,
and TLC's counterexample shows how the code departs from it:

| run | what is said | what happens |
|---|---|---|
| `ss_exclusion` | locking "prevents simultaneous edits" | two WRITEs pass the test together |

### Other known departures

The modules end with more such statements ("What the repository says and the code
does not keep"). They are not among the project's runs; each configuration
below makes TLC report the violation named, with the MC module of its prefix, so
that a fix of the code, carried over to its module, can be checked by the same file.

| configuration | property | what is said | what happens |
|---|---|---|---|
| `edit_split` | `CommitKeepsEdits` | ETIRW "commits changes" | words behind a typed delimiter are dropped |
| `edit_limit` | `CommitKeepsLength` | "No Size Limits" | text behind the last recorded sentence (256; 2 in the run) is dropped by a commit |
| `ss_merge` | `MergedWithLatest` | merged with the latest state | a commit between merge and write is overwritten |
| `ss_undo_twice` | `UndoGoesBackwards` | UNDO goes backwards | the flag does not survive its own format; the same backup comes back |
| `ss_leftover` | `CommitsOwnEdits` | an ETIRW without edits changes nothing | the swap copy of an earlier connection is committed |
| `ss_undo_edited` | `UndoSparesEditedFiles` | no UNDO of a file being edited | the NS path does not look |
| `ss_checkpoint` | `TagCreatedOnce` | a tag exists once | two requests create it |
| `ss_restart` | `DocumentSurvives` | data survives restarts | a stop between truncation and write empties the document |
| `ns_create_twice` | `CreatorOwns` | creators own their files | two CREATEs succeed |
| `ns_stale_cache` | `CacheAgrees` | a deleted file leaves the cache | a lookup puts it back |
| `ns_delete_race` | `OnlyOwnerDeletes` | only owners delete | the document of the next creator is removed |
| `ns_hang` | `AllAnswered` | requests are answered | a DELETE that fails at the SS is not, and blocks its slot |
| `ns_move` | `MoveAnswered` | MOVE works | its message is unknown to the SS |
| `ns_sync` | `SyncUndisturbed` | the socket is protected by its mutex | a CREATE reads from the file list |
| `ns_late_report` | `LiveServersStayRegistered` | reconnected servers are restored | a late report removes a live server |
| `ns_orphan` | `NoOrphanRecords` | the purge removes all records | a record is added after the purge |
| `ns_owner_lost` | `OwnerSurvives` | metadata survives restarts | a file comes back without an owner |
| `ns_cache_race` | `RedirectsToHome` | a hit returns the file's server | the entry is replaced after the unlock |
| `req_lost` | `RequestsAreStored` | requests are stored | a rewrite loses an append |
| `req_effect` | `ApprovalReachesNameServer` | approval gives access | the NS keeps refusing |

For the properties below no configuration is kept: put the property in place of
those of `client.cfg`, `persist.cfg`, `folders.cfg`, `users.cfg` or `req_lost.cfg`; for
NameServer, of the configuration named in the row.

| module | property | what is said | what happens |
|---|---|---|---|
| NameServer | `CreateIsNew`, with `ns_sync.cfg` | CREATE checks first | a file whose server is registering is emptied |
| NameServer | `ReplyPairing`, with `ns_live.cfg`, three clients, 4 requests and `Commands = {"ADDACCESS", "INFO", "CRASH", "DEAD"}` | the socket is protected by its mutex | a server that has answered stops, a dead report clears its slot, the handler that asked finds no descriptor to read from, and one that had read the descriptor before takes the answer for its own |
| UserManager | `OpenAreListed` | LIST shows the users | a second connection of a user is forgotten |
| AccessRequests | `PendingOnce` | a request exists once | two appends |
| ClientSession | `ReadEnds` | READ ends | ERR_404 is not among the markers of the READ loop; the client waits |
| ClientSession | `ViewRequestsEnds` | VIEWREQUESTS ends | an end marker that comes in the packet of the first line is dropped, and the client waits for it |
| ClientSession | `ShownIsServed`, with a word `END_OF_FILE` in a document | READ shows the file | the client stops at the first end marker, also at one of the document's own |
| ClientSession | `StreamShowsAll` | STREAM shows the file | a word in the packet of the end marker, or behind one that looks like it, is not printed |
| NameServer | `SurvivesServers`, with `ns_owner_lost.cfg` | | a server dies behind the ACK of a CREATE; header and payload of SET_OWNER are two sends, and the second raises SIGPIPE |
| ClientSession | `NeverKilled` | | the NS does not ignore SIGPIPE: its second send to a client that left can end it |
| ClientSession | `TextEnds`, with `Whole = FALSE` | the loop "handles partial reads and looks for the *exact* terminators" (`client/main.c:777`) | a marker cut by a `recv` is not found, and READ waits for ever |
| ClientSession | `ExchangeEnds` | "NM relays confirmation to client" | a CREATE, DELETE or UNDO that fails at the SS, and every MOVE, is not acknowledged; the NS thread keeps `socket_mutex`, and other commands on that server wait too |
| ClientSession | `ApprovalGrants` | "approved" is printed | `persist_set_acl` drops a grant for which the list has no place, and nothing tells |
| ClientSession | `InStep`, with `Lengths = {"fits", "long"}` | | a payload that is refused for its length stays on the connection and is answered as a message |
| Metadata | `GrantsAlwaysInForce` | access lists hold what was granted | a pointer into `file_table` names another file after a removal shifted the entries |
| Metadata | `TableAlwaysFollows` | the table has each file once | two threads that add or remove entries at once, or leave the array |
| Metadata | `AtRestDurable` | metadata is persistent | two saves write over each other |
| Metadata | `CrashKeepsFiles` | "All data survives server restarts" | a crash between `fopen "w"` and `fclose` loses files |
| Folders | `SubfoldersFollow` | "Organize files in folders and subfolders" | the files below a moved folder go, their subfolder's entry does not |
| Folders | `ViewAllListsAll` | VIEW -a "Lists all files on the system" | files in folders are not listed |
| Folders | `FolderCountsFresh` | VIEWFOLDER -l refreshes its files | a file that is moved in after the names were collected is listed unrefreshed |
| Folders | `CountsAlwaysFresh` | VIEW -l refreshes the counts | a slow listing asks the old server of a file that was created again on another one, gets zeros and stores them under the name, over what another listing has just refreshed and is about to show |

Also visible in the modules: two grants that run together can both pass the test
for the last place of an access list and count one entry too many (`raced` in
Metadata); MOVEFOLDER takes along files of other owners, and of folders whose names
only begin with the same characters; a storage server never learns of
folders, so they are lost when it registers again (`Register` in Folders).

### Fairness

`StorageServer!FairSpec`: weak fairness of the steps that a handler takes by
itself. A handler blocks in `recv` only; `lock_mutex` sections are short and
contain no blocking call, so the kernel's scheduler is enough. Clients need not
send anything. `NameServer!FairSpec`: weak fairness of client threads, registration
threads and the NS thread of each SS. Crashes, reports and requests are not
fair. In the runs under fairness a thread that waits for a `socket_mutex` competes
with a bounded number of requests, so that weak fairness is not stronger than
what pthread mutexes give. `ClientSession!Spec`: weak fairness of the client program,
of its thread at the NS and of its thread at the SS. The client and the SS thread block
in `recv` only. The NS thread also waits for a `socket_mutex` that another thread holds during
its exchange, and with it held for the SS; neither need ever end, so `NSAsked`, the end of that
wait, is not fair, and only the failure of the `recv` when the SS has stopped is (`NSAskFails`).
The user, the operators who stop and start the servers, and SIGPIPE
owe nothing; `CommandEnds` and `ThreadEnds` hold although a server may be stopped
and never come back.

## Proofs

Eight modules, each named after the module it extends, hold what TLAPS checks for
every value of the constants that the named assumptions allow:

| module | theorems |
|---|---|
| `StorageServerProofs` | `TypeCorrect`, `OneSentence`, `NoOrphanLocks`, `CommitCopy`, `UndoHistory` (invariants), `SwapUnderLock` (an action property), `RefinesSessions` (the refinement of WriteSessions) |
| `UserManagerProofs` | `TypeCorrect`, `NamesAreUnique`, `NoGhosts` |
| `AccessRequestsProofs` | `TypeCorrect`, `NoAccessUnasked` |
| `FoldersProofs` | `TypeCorrect`, `FolderNamesUnique`, `FilesStayInFolder`, `ViewCountsFresh` |
| `NameServerProofs` | `TypeCorrect`, `MutexesReleased`, `RepliesPaired`, `PrivateConsistent` |
| `ClientSessionProofs` | `TypeCorrect`, `AnswersPaired`, `LinesSeparate`, `SuccessTrue`, `ShownTrue`, `StreamTrue` |
| `MetadataProofs` | `TypeCorrect`, `TableCorrect`, `GrantsCorrect`, `SoloDurable`, `CrashSafe` |
| `EditSessionProofs` | `NoBlank`, `ScanPartitions`, `CommitTouches`, `CommitKeeps` |

The assumptions on constants say that bounds are naturals, that the values standing for
"no file", "no user" or the NS thread are none of the real ones (`NSAssumption`,
`NoFileAssumption`, `NoneAssumption`, `OwnerAssumption`, `NamesAssumption`), that the number of files is
finite (`FilesAssumption`, NameServer) and that tables given as constants are of the
right kind (`UserOfAssumption`, `StartAssumption`, `UsesAssumption`, `NameAssumption`,
`DocsAssumption`; in Folders also the servers that hold the slots at the start, each one slot), and that "no record" is no record (`RecordAssumption`). The
`InputsAssumption` of EditSession, that an edit line has a word, is the `sscanf` of the
edit loop (`%d %2047[^\n]`), which refuses a line without one. They
are stated in the modules that declare the constants, and every run evaluates them.

Ten theorems have a hypothesis of their own, because what they state is false
without it, which TLC shows (see the departures):

- `RepliesPaired` assumes `Steady`: all connections are registered at the start and no
  client sends a dead report. Servers may crash at any point and their slots may be
  cleared by the handler that notices; a SIGPIPE may end the NS, which then reads
  nothing. A registration, whose file list shares the
  socket with requests, breaks the pairing (`ns_sync`); so does a dead report. `ns_live`
  is an instance of `Steady`.
- `PrivateConsistent` assumes `Private`: `Steady`, no crash, no file asked for by two clients,
  no file on two servers or on an unregistered one at the start, and a cache with a place
  for each file. Without that, agreement is lost. With one cache entry for two files, another client's
  file can replace the entry between the unlock of `cache_lookup` and the second read of it:
  ADDACCESS then goes to the wrong server, which acknowledges it, and record and disk
  differ (`ns_private` with `OnDisk <- Spread` and `CacheSize = 1`; the same race as
  `ns_cache_race`). A server that crashes behind a CREATE has a document without a record, and
  two clients of one file can overtake each other (`ns_create_twice`, `ns_delete_race`).
  `ns_private` is an instance of `Private`.
- `AnswersPaired` assumes `Short`: no argument of the user's is longer than the buffer it
  is read into; otherwise its payload stays on the connection.
- `LinesSeparate`, `SuccessTrue` (which excepts APPROVEREQUEST), `ShownTrue` and `StreamTrue` assume `Whole`: no `recv` ends inside
  a marker. The servers may stop and start at any point. `ShownTrue` also assumes `Unmarked`:
  no document holds the text of a marker that ends one. A file with the words `w` and
  `END_OF_FILE` is shown as `w` (`ShownIsServed` with that document). `StreamTrue` needs no such
  thing: a `STREAM_COMPLETE` in a file cuts what is printed, which stays a beginning of the
  file. The run `client` has `Short`, `Whole` and `Unmarked`.
- `ScanPartitions`, `CommitTouches` and `CommitKeeps` assume `MaxDocWords <= MaxSentences`: no text,
  edited copies included, has more words than the scan records sentences (256 in the
  code), so that it cannot have more sentences. Beyond that limit a commit drops text
  (`edit_limit`). The run `edit` has copies of up to 5 words and 8 sentences. `NoBlank`
  needs no such limit.

### The arguments

*Storage server.* None of the invariants is inductive alone; the argument has three
layers. `TypeInv` = `TypeOK` with `CallInv`, which ties each label to its command: the
label `merge` is reached by ETIRW only, a resting thread has no command.
`LockInv` = `OneSentencePerConnection`, `WriteModeInv`, `CommitHasItsCopy`:
`WriteModeInv` says that a connection with a lock waits for a line or commits,
from which follow that `WriteAdd` never meets an older lock of its connection,
that an edit line cannot come between the steps of a commit, and that a
descriptor cannot be closed with a lock. `HistoryInv` = `UndoLogResolves` with
`PendingLogInv`: what a thread is about to append to an undo log, or to write back
as the log, has its backup too. `SwapUnderLock` follows from `LockInv` step by step.

*Refinement of WriteSessions.* The mapping reads the mode of a connection off `pc` and
the first lock with its descriptor. By `LockInv` there is at most one such lock, so
that `WriteAdd`, `EtirwUnlock`, `Hangup`, `CloseFd`, `Accept` and `Shutdown` each map to the
abstract step of that connection, and every other step, of this connection or
of another one, leaves the mode as it was.

*User list.* `IndInv` is the conjunction of the three properties: deregistration removes
the only entry of its name because names are unique, and so leaves every other
entry with its connection. `RemoveAtEntries` is the lemma about the array.

*Access requests.* An entry of an access list and a rewritten file come from the memory
of a thread, which read the file some steps ago: `ArgInv` and `CopyInv` say of the
argument and of the copy what `AccessWasAsked` says of the file. Nothing is said about the
file being up to date, which it is not.

*Folders.* `FolderInv` is `OneFolderPerName` and `FilesFollowFolder`; a record that goes or
comes takes its file back to the root, so that no old place remains. That a move of one
folder leaves the files of the others where they are
rests on lemmas about names: a name begins with a moved name only if it is that name
or the file counts as swept. For `CountsFresh`, `ListInv` follows every listing with -l: the server
of a settled file answers with a count seen since the request (`Current`), and the slot
that was collected with the name, and the server the thread waits for, are those of the
record (`Knows`); a file for which that fails is loose. `ViewInv` adds, for VIEW -l, `Refreshed` (a
file whose turn is over shows such a count) and `Storing` (a count that any thread, of
another listing too, has received and not yet stored is such a count, or the listing
will ask again). `Storing` is what makes it inductive: `MutexInv` keeps two threads from being
between the answer and its storing on the same slot. `ReplyInv` carries the listing to its
reader.

*Name server.* `TypeInv` has a part per subsystem; its part on threads ties each label to
the fields of `arg` that are set there. `MutexFollowsExchange` is inductive together with
it: a label in `Speaking` is entered by taking the mutex of `arg.slot` and left by giving it
back, and the slot does not change in between. `PairInv` has three parts: `SlotInv`
(a slot is cleared only when its connection is silent), `SockInv` (the descriptor that
a handler has read is that of its slot's connection) and `StreamInv` (a socket carries
owner messages, behind them the request of the mutex's holder or the reply to it, and
nothing else). With `MutexFollowsExchange`, whatever the holder reads is its own. What is
invariant is `PairInv`, or that SIGPIPE has ended the NS, after which nobody reads
(`GoneStays`).
`PrivateInv` adds what a request does to its file. `FileInv` says at each label of a handler
how far record, cache and disk have followed the request (`Working`): before its storage
server has served it (`Asked`) the disk is behind the record of an ADDACCESS, or still has
the document of a DELETE, or not yet that of a CREATE; afterwards (`Done`) they agree, or
agree but for the record that CREATE adds last. Which of the two it is can be read off
the socket, which carries the request or no longer does; `CalmInv` says that a request on
a socket is that of the mutex's holder, with its arguments. `CacheInv` says that no file has
two entries, so that a file without an entry finds an empty one (`EmptyPlace`, by the
pigeonhole principle) and nothing is evicted.

*Client.* `StepInv` says for each place of the client what is under way on the NS
connection and where the NS thread is: `LoggingIn`, `Quiet`, `Asking` (request, worked on, or
answer) or `Executing`. It speaks of a running thread only: when the NS is stopped both
directions end. `SessionInv` = `LineInv`, `PlaceInv`, `DoneInv` is the same for the SS connection:
at most one line under way and none while a reply is; the thread's place given
the client's; and `done` whenever a reply that the client takes for success is under
way. `SuccessTrue` needs `LineInv`, because a second line behind an unread one would be
answered by the reply to the first. `TextInv` adds the texts. For READ and the two commands
on checkpoints it says where the text is (`Unanswered`, `Refused`, `Opened`, `Printed`): what is
printed and what is under way, one behind the other, are a beginning of the text
with its end marker, and the printed part is not longer than the text. A packet without the end
marker then lies inside the text and one with it completes the text (`EndFound`);
`Whole` is what excludes a packet that ends between the two, `Unmarked` an end marker before the
end. `Stuck` is the READ that has printed ERR_404 and waits. For STREAM, what is printed and under
way is the start message and the words the thread no longer has to send (`Streaming`), or,
once it has sent its end or was stopped, a beginning of the whole (`Streamed`). `Text` is a fold,
unfolded by the induction below (`TextGrows`).

*Metadata.* `SoleInv` says that, as long as no two threads changed names or owners at once
(`~torn`), only one thread does, the last that began to (`hand`), that it finds room for its
entry and shifts inside the table. `TableInv` says what that thread knows at each of its labels:
only it moves entries, so that what its search has passed by or found is still so, and while it
shifts entries down all but the one that is written next count (`Live`). The others
change access lists only. `ListInv` says the same of every thread as long as no change
was overtaken (`raced`): its index is that of its file, and the user it is about to
list is not listed yet. `SoloInv` follows a save that runs alone: its buffer holds the
entries printed so far, and the file a beginning of it, cut inside its last line.
`StoredInv` says what `load_metadata` would read. `LoadedLoop` is the loop of
`load_metadata`, unfolded by the induction below. The attempt to prove three of these
properties found that they held under the bounds of the run only: lists
that racing grants have made too long are cut when they are loaded, so `TypeOK`,
`SoloIsDurable` and `CrashLosesTail` now say what they say of lists that fit, `raced` is
set by a start that loads a list with a user twice, and the place behind a list is filled
and counted in two steps, as in the code.

*Text.* The library's induction theorems cannot be used, but a set of naturals
that contains 0 and with each number the next one is `Nat`, because another set would have
a least number missing; that is the lemma `Induction`, which needs no operator as
parameter. With it the scan is unfolded word by word (`ScanLoop`), and `Parse` says what a
text's sentences are: spans that follow each other without a gap, each ended by its
first word with a delimiter, the last perhaps unended. A text has one such
parse (`ParseUnique`), and the parse of a text cut behind an end of sentence is that of
its two parts (`ParseConcat`, `Cut`). Hence the sentences of the document before and
behind the locked one are the same in the edited copy, whatever the edit has
made of the locked one: `SessionInv` keeps the copy as the document with only that place
replaced (`Frame`, `Held`), a commit puts back that place (`CommitFrame`), and the two
properties of commits follow.

### Only model-checked

- Liveness (`CommitReleasesLock`, `AllAnswered`, `CommandEnds`, `ThreadEnds`), which the
  prover does not handle. Every invariant that a passing run checks is proved.

## Abstractions

- Refused commands (errors answered without a change of state) are no steps,
  except where a step of another thread can come between the tests.
- The rewrite of an undo log and the write of a checkpoint with its log line are
  one step each. Overlapping writes to one file overlay words, not bytes; the
  request file is kept at the granularity of lines.
- `ADDACCESS`/`REMACCESS` are one step in AccessRequests; their interleavings are
  in NameServer.
- Connections of storage servers to the NS are never given an old descriptor.
  A client of the NS is its user name. Folders are left out of MOVE in NameServer:
  Folders has them.
- ClientSession has one client; what others do to the files is the choice of the
  answers. In Folders a registration is one step, and a NS that SIGPIPE ends just makes no
  more steps. Metadata leaves out sizes, counts, times and the kind of permission;
  an entry that is changed while it is printed is printed before or after.
- `Down` in `DeadReport`: a client reports an address only after it failed to
  connect to it; the report may arrive any time later.

## Not modelled

Fixed buffers in bytes; disk-full and `fopen` failures; the accept loops of the two
servers and the limits of their backlogs; the typed syntax of commands and what is
printed around an answer; PAUSE, RESUME and STOP of STREAM, which no client sends; the
byte order and layout of messages; `popen` of EXEC (its output is a choice); logging
and the directories made at start; `traverse_for_view` and `persist_set_folder`, which
nobody calls. The name server keeps nothing on disk: its restart is `NSDown` and
`NSUp` in ClientSession, and `Shutdown` in StorageServer, because every SS stops with
it. The replication that the repository's README describes does not exist in the
code.

## State

Every part that changes state has a module, and every module with state has its proofs:
DocText and EditSession; StorageServer with its abstract specification and refinement;
NameServer; UserManager, AccessRequests, Folders; ClientSession; Metadata.
