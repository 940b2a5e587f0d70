# BongoSync in TLA+

BongoSync keeps one directory per client computer in step with a directory on a
server. This project models the protocol between them, the transfer of files in
both directions, registration and login, checks the models with TLC and proves
the safety properties with TLAPS.
File names below are relative to `Server/src` and `Client/src`.

## The system

| Part | State | Operations | Modelled in |
|---|---|---|---|
| Server thread per connection (`ClientCommunicator.cpp` `handleClient`) | position in the dialogue, hostname read at login, flag of the tree message, nodes to request, open file | register, login, check_latest, tree (with its request loop), file_transfer | `Sync` (check_latest, tree), `Upload` (the same, chunk by chunk), `Download` (file_transfer), `Accounts` (register, login) |
| Shared state of the threads | one semaphore, one directory `files`, one `tree/tree.json`, one database connection | receive, compare and delete (`SyncHandler.cpp`), store | `Sync`, `ExclusiveStore` |
| Workspace table (`WorkspaceManager.cpp`) | hash and time stamp per account | create, read, update in two commits | `Sync`, `Accounts` |
| User table (`UserManager.cpp`) | password hash and workspace id per email | getUser, addUser | `Accounts` |
| Merkle tree, comparer, hashes (`FileServices`) | none | buildTree, getTreeHash, saveToFile, loadFromFile, compareTrees, calculateHash | `MerkleTree` (nested directories), `Workspace` (flat ones) |
| Older comparison (`FileChangeDetector.cpp`) | none | detectChanges; nobody calls it | `MerkleTree` |
| Client sync (`HandleSync.cpp`, `ServerCommunicator.cpp`) | position in the dialogue, files still to send, `~/.bongo/tree.json`, time stamp | initiateSync, checkWithServer, sendMerkleTreeFile, handleServerResponse, sendFile | `Sync`, `Upload` |
| Client start and watcher (`HandleStart.cpp`, `FileWatcher.cpp`) | watcher on or off, queued events | initiateStart, onFileChange | `Sync`, `Upload` (syncs and watcher), `Download` (before the first sync), `Accounts` (login) |
| Client registration (`HandleRegister.cpp`) | config file | initiateRegistration, createConfigFile | `Accounts` |
| Initial download (`FindAllFiles`, `receiveFile`) | files still to send, files still expected, file under way | file_transfer | `Download` |
| Database set-up, server start | tables, process | initialize, createTables, main | `Accounts` (constraints), `Sync`, `Accounts` (restart) |
| `FilesManager`, `SharedManager`, `ConflictResolver`, sessions | | never called, or only declared | not modelled |
| share, unshare, break commands | | no handler on the server, no effect | not modelled |

How they interact. A client process holds one TCP connection, served by one
server thread. The client speaks first and then waits; the watcher's callback
runs a whole sync per event, so a client has one dialogue at a time. Server
threads meet in the semaphore, the directory, `tree.json` and the database
connection, and only the tree and file_transfer handlers take the semaphore.
Every client registers with the hostname `files` (`Utility.cpp` 12), so all
accounts share one directory, while each account has its own workspace row.

What is hard here: several threads over shared files; a dialogue without time
limits in which both sides count; data measured, read and compared at several
points of it while users write; files cut into chunks on a stream of bytes, and
buffers that may be full; processes that die inside an exchange and leave files and rows behind; a
clock of one second; several messages in one `recv`; results that nobody looks
at. `PROJECT.json` lists the places under "hazards", each with the properties
aimed at it.

What makes the parts correct:

- threads: one exchange at a time, the semaphore comes back, each thread works
  on its own client's tree, and together they are an exclusive store;
- dialogue: each side finds only messages it expects, neither waits in vain;
- content: "latest" is the truth, the stored hash is that of the directory, the
  server's names become the client's, changes arrive;
- trees: the comparison reports every difference once, parents first, and nothing
  else;
- files: what is stored or downloaded is one version of a file, whole, and a
  transfer ends or there is a known reason why it does not;
- accounts: one account per email and one workspace per account, whoever was
  told so can log in, a client that syncs has rows and a directory, and its thread
  knows the directory.

## Modules

`Workspace` - pure. A file's content is its complete 4096-byte chunks and the
rest. `calculateHash` is the first part, which is what `processFileInChunks`
hashes; the model takes SHA-256 as injective. `combineHashes` is the sequence
of the children's hashes in the machine's `directory_iterator` order, without
names, as in the code. `AddedNodes` and `RemovedNodes` are what `compareTrees`
reports of two roots with leaf children: a modified file is in both.

`Sync` - the protocol. One thread and one client process per *run* (one
`bongo start`). The actions of a thread end where another actor could act: a
message received, a message sent, the semaphore taken or posted, a commit. Its
`handler` names the position in `handleClient`:

    poll -> compare_time -> poll                              check_latest
    poll -> wait_tree -> tree_data -> confirm_tree -> compare tree
    compare -> no_sync -> poll                                nothing to request
    compare -> request -> await_file -> file_data -> confirm_file
            -> request | rehash -> stamp -> poll

The client's positions are its calls of `receiveMessage`: `await_latest`,
`await_conf` (tree), `await_response`, `await_fconf` (a file), `await_next`; `idle`
is the event loop. `toServer` and `toClient` are the two halves of the
connection, message by message. `Terminate` is the end of the server process,
which a signal, an exception no thread catches or a SIGPIPE brings about.
`hostname` is what the thread read at login (`ClientCommunicator.cpp` 221), where it
stores files and whose tree it hashes at the end; "unread" stands for the empty
string, which a failed read leaves behind. Such a thread syncs like any other, since
treeReception reads the hostname again, but a file that arrives ends the server
(`ReceiveFileHeaderNowhere`: `create_directories` throws), and at the end it
builds no tree and stores `NoHash`, the empty hash of no tree (`Rebuild`, `rebuiltHash`).
`notAfter` and `stampedNow` are what is left of the clock: whether a run's time
stamp is later than its account's, in whole seconds.

`ExclusiveStore` - the abstract specification of the server: directory, tree
file and table change only in the hands of one holder, who may publish the
hash of the directory as it is in the row of its own account. A run that did not learn
where the directory is (`aware`, `Learn`) can publish `NoHash` only, never the hash of
another state of the directory, and leaves the tree file alone. `Sync` implements
it with the holder being the thread that is between `sem_wait` and `sem_post`, and
the aware runs being those whose threads have read the hostname.

`Accounts` - registration and login, each database call of the path a step of
its own. `ForeignKey` says whether the tables are those `createTables` makes or
older ones without the reference (`Database::initialize` leaves existing
tables alone). A login is two steps, `ReadHostname` and `CheckCredentials`, each of which
may fail alone. It justifies what `Sync` assumes: that a logged-in account has
rows and a directory (`ReadyToSync`), and that its thread knows the hostname
when the database answers (`KnowsHostname`); when it does not, `Start` of `Sync` has
both outcomes.

`MerkleTree` - pure, and without RECURSIVE: nested directories as functions from
paths, `buildTree` with the hashes along the tree, `loadFromFile` as what
`saveToFile` leaves of it (a node without children comes back as a file),
`addedNodes` and `removedNodes` in the order in which `compareTrees` collects
them, and `detectChanges` of the older detector. `CanBuildTree` says when
`calculateHash` does not throw (hazards). Its reference definitions,
`ReportIsExact` and `DetectorMissesNothing`, are stated over paths and sets.

`Upload` - one client and its thread, with the trees of `MerkleTree`: the same
dialogue as `Sync`, but metadata, each chunk and the end of a file are steps of
their own. `opened` is the file `sendFile` has open, with the size it announced;
a file that is renamed or deleted meanwhile stays what it was (`linked`), one that
is written in place changes under the reader's hands. The server's `Target` is
the last component of the path. `mishaps` is a history variable: what happened
to files on their way, so that a property can say which mishap causes what.

`Download` - file_transfer: `AcquireSemaphore`, then metadata and chunks of every
file through a connection whose buffers hold `Capacity` messages, so that `send`
blocks; the client's loop over `Expected` files and the syncs after it, which
read whatever is left in the stream as answers. The exchanges of other clients
are reduced to what `ExclusiveStore` says of them: between `sem_wait` and
`sem_post` they change files. `snapshot` is a history variable, the directory at
the moment the thread got the semaphore.

`MCSync`, `MCUpload`, `MCDownload`, `MCAccounts` - constants of the instances.
`SyncProofs`, `DialogueProofs`, `MirrorProofs`, `WriterProofs` (of `Sync`, each on top
of the one before), `TreeProofs` (of `MerkleTree`), `UploadProofs` (of `Upload`),
`DownloadProofs` and `AccountsProofs` - the theorems. The operators marked "Mutation
of" in the modules are no part of the specifications: each is a plausible bug
that, put in the place of the definition it is named for, violates a property.

How they fit together: `Accounts` justifies what `Sync` starts from
(`ReadyToSync`, `KnowsHostname`); `Sync` has all clients at once and implements `ExclusiveStore`,
which is how the other clients appear in `Download`; `Upload` refines one
dialogue of `Sync` to chunks and nested trees, and `AgreesOnFlatTrees` checks that
on flat directories its comparison is the one of `Workspace` that `Sync` uses.

### The environment

`Sync`, `Accounts` and `Download` take a set `Faults`, so that each property is
checked in the largest environment in which it holds, and what breaks it can be
named.

| Fault | In the code | What it breaks |
|---|---|---|
| tie | a sync in the second of the account's last stamp | ChangesArrive (finding), hence UntiedChangesArrive; with deletions RequestsMissingFiles |
| db | a second transaction on the shared connection throws | Releases (the root is requested and the client has no such file), MirrorsNames (a treeReception that compares nothing), HashIsCurrent, KnowsHostname (a login that could not read the hostname) and, of ImplementsStore, that whoever publishes is aware |
| coalesce | one `recv` returns several messages | AnswersCheckLatest, Releases |
| crash | kill, restart | HashIsCurrent, ChangesArrive |
| overlap | two registrations of one email at once | RegisteredCanLogIn, OneWorkspaceEach |

Edits are chosen likewise: deletions break HashIsCurrent (finding), and a
requested file that is gone breaks NoMutualWait and Releases, since `sendFile`
returns in silence: HeldByStarvedOnly is what remains. Renames break
LatestMeansEqual by the design of the hash, which has no names.

`Upload` allows everything and records it in `mishaps`; its properties name the
ones without which a failure does not happen:

| Mishap | In the code | What follows |
|---|---|---|
| missing | the requested node cannot be opened, `sendFile` returns | server and client wait for each other |
| directory | a directory is opened like a file and announces a size, nothing can be read | the same |
| shrunk | the file lost chunks after it was measured | the same |
| grown | it gained some: they are read as a message | the server ends |
| rewritten | it was written in place while it was read | a mixture is stored |

## Runs

| Run | Instance | Shows |
|---|---|---|
| sync_writes | 1 run, writes, 3 edits, ties, fair | TypeOK, HashIsCurrent, NoMutualWait, RequestsMissingFiles, LatestMeansEqual, UntiedChangesArrive, Releases |
| sync_restarts | 2 runs on one machine, writes and deletions (2), other iteration order on the client, ties, coalescing, crashes, fair | OneTransfer, Dialogue, ComparesOwnTree, MirrorsNames, HeldByStarvedOnly |
| sync_two_accounts | 2 machines, 2 accounts, renames and deletions (2), ties, failing database calls, at login too | OneTransfer, ComparesOwnTree, AnswersCheckLatest, ImplementsStore |
| upload | 4 paths, one of them in a directory, 5 client and 3 server directories, all edits (2), the client may be killed, fair | TypeOK, WaitsHaveCause, EndHasCause, StoresWhatWasOpened, MirrorsLastComponents, RemovalsDoNotThrow, ComparisonIsExact, AgreesOnFlatTrees, GetsAway |
| download | none to 3 files of up to 2 chunks, the client counts 2, buffers for 2, another exchange, coalescing, crashes, fair | TypeOK, SendsOneMoment, NoHalfFiles, FilesAreNoAnswers, ServerGetsAway, ClientGetsAway |
| accounts_ordered | 3 runs on 2 machines, 2 emails, 2 passwords, 4 attempts, fair | RegisteredCanLogIn, KnowsHostname, OneWorkspaceEach, Answered |
| accounts_faults | 3 runs on 2 machines, 2 emails, 3 attempts, all faults | TypeOK, ReadyToSync, WorkspaceOfUser |
| stale_hash, same_second, partial_chunk, registered_hash, foreign_key | small | the findings below |

Bounds. Two names and two versions of the chunks suffice for added, removed,
modified and unchanged files in one comparison, and for exchanges of zero, one
and two files; a second tail is only needed where tails matter (partial_chunk).
Two runs suffice for everything threads do to each other in pairs; they are on one
machine where a dead run's thread meets its successor, and on two where they
work at the same time. `MaxEdits` bounds the behaviours: two edits are enough to
change what an exchange is about to read and to have a further sync after it,
three add one during that one. `MaxAttempts` of 3 or 4 allows a registration by
each machine, a refused one and a login. Queues of `Sync` need no bound: a
dialogue never has more than four messages under way. `sync_two_accounts` has
two accounts whose directories differ, renames, which carry a content to another
name, and deletions; overwriting is in the two other runs of `Sync`, with one account.
`accounts_faults` identifies states that differ in the names of the emails or of the
two runs of one machine; all its properties are invariants that mention neither.

Three bounds of the code are scaled down, for what matters is to be below, at and
above them: a directory with more than `MaxEntries` = 2 entries cannot be hashed
(3 in the code: four hashes are 256 characters), the client counts `Expected` = 2
files (5 in the code) of servers with none to three, and the connection's buffers
hold `Capacity` = 2 messages (some hundred kilobytes). The paths of `upload` have
a directory with a file whose name is also used at the top, the smallest tree in
which the server's flat copies collide; `DirectorySizes` are a failed tellg and
a size beyond what can be read. Files have up to two chunks, so that there is a
first, a last and a middle to break off at. `MaxExchanges` = 1: one change by
another client before, or attempted during, the download; `MaxSyncs` = 2 reads
two messages that were left in the stream.

CHECK_DEADLOCK is off in all runs because the system may stop: users make a
bounded number of edits, and clients may be dead for good.

Fairness. Weak fairness of every thread's and every client's steps: threads are
scheduled, processes run, and TCP delivers while both ends live; in `Download`,
where `send` blocks, only a step that is possible is promised. Not fair: users,
faults, the clock, restarts, the exchanges of others. Posting a semaphore wakes
some waiter, no particular one, so none is promised to be served: Releases,
HeldByStarvedOnly, GetsAway and ServerGetsAway speak of the holder only, and
ClientGetsAway of a client whose thread has the semaphore.

### Findings

Runs that end in a violation, by design; each states what the repository says of
itself (quotations in `PROJECT.json`).

- stale_hash: an exchange that only deletes files does not update the hash.
- same_second: a sync in the second of the last update is compared the wrong way
  round; the change does not arrive. With deletions the server even requests
  files that it has and the client has not.
- partial_chunk: the end of a file after its last complete chunk is not hashed;
  every file below 4096 bytes looks the same.
- registered_hash: an account is registered with the hash of files that the
  server never got, so that the first sync finds nothing to do.
- foreign_key: with the tables the server creates, no account can be created,
  and every registration is answered "user_added".

Two registrations of one email at the same time also violate RegisteredCanLogIn
and OneWorkspaceEach, without the foreign key: both find no user, both are told
"user_added", and only one password is stored. In `accounts_ordered` registrations
of different emails overlap, in every order, and those of one email do not. What
survives the rest is WorkspaceOfUser and ReadyToSync (`accounts_faults`), and
KnowsHostname (theorem HostnameIsKnown, which allows every overlap).

## Proofs

`SyncProofs` proves, for every set of names, contents, accounts, machines and runs,
any initial directories and any faults, from the assumptions in `Workspace` and
`Sync` only (finitely many names, a root that is no name, an account per machine):

- `TypeCorrect`: `Spec => []TypeOK`;
- `MutualExclusion`: `Spec => []OneTransfer`.

Neither is inductive. OneTransfer alone does not survive a thread that starts at
a position inside the section, and TypeOK, which says that the semaphore is 0 or 1,
needs to know who posts it. The invariant is

    IInv == TypeOK /\ OneTransfer /\ Unserved /\ ReceivesFile

`Unserved`: a client that is off has no thread yet, so that `Start` cannot pull a
thread out of the section. `ReceivesFile`: who receives data has a file name, not
the root, in `incoming`, so that what is written is a directory. Lemma `Move` says
what a step of one thread from one position to another does to holders and
semaphore, given that the semaphore moves exactly when the step enters or leaves
`Holding`; `Frames` collects what an action leaves alone. `ServerPreserves`,
`ClientPreserves`, `EnvironmentPreserves`, `EditPreserves` and
`TerminatePreserves` treat one action each per step.

It also proves `StoreImplemented`: `Spec => ImplementsStore`, refinement of
`ExclusiveStore` under the mapping above. That uses IInv in both states of a step:
a step of the one holder is a Change, a Publish or a Release, a `Start` is a Learn or a
stutter, every other step leaves the store alone. The publication is that of an
aware run or of another according to the thread's `hostname`, which no step but
`Start` changes, and a `Start` is no step of a holder (`Unserved`).

`DialogueProofs` proves, under the same assumptions,

- `DialogueNeverSlips`: `Spec => []Dialogue`;
- `OwnTreeCompared`: `Spec => []ComparesOwnTree`;
- `CheckLatestAnswered`: `Spec => []AnswersCheckLatest` if "coalesce" is not a fault.

What a side finds in its stream depends on where the other side was when it sent
it, and an abandoned sync leaves messages behind that the next one reads. The
invariant DInv therefore adds to IInv, for each run,

- `Connected`: which of the two sides are there, and that a connection lasts as long
  as both;
- `Reads` and `Hears`: what each side can find, from its own position alone, since
  the server goes on with what a dead client left, and a client with what a dead
  server did;
- `Together`: while both live, the pairs of positions and the messages under way
  between them, and how many files the server has still to request when the client
  expects so many;
- `Requesting` and `OwnTree`: the tree under way is the client's tree.json, and so is
  `treeFile` in the hands of the thread that received it.

Each step of one run changes the streams of that run only (`WorksAlone`,
`ClientAlone`), and mutual exclusion keeps the others from `treeFile`.

`MirrorProofs` builds on it:

- `ExchangeMirrorsNames`: `Spec => []MirrorsNames` if "db" is not a fault;
- `OnlyMissingRequested`: `Spec /\ []Untied => []RequestsMissingFiles`, likewise;
- `NobodyWaitsForEver`: `Spec /\ []Untied => []NoMutualWait` with writes only,
  directories that are not empty, and neither "db" nor "coalesce".

The first follows every name of the client's tree: in the directory, among the nodes
to be requested, or in the one request or file header under way (`Mirroring`, with
lemma `Compared` on `AddedNodes` and `RemovedNodes`; MInv is DInv with this). The other
two add `Plain`, by which no flag that asks for the reverse comparison is set or
under way, and `Served`: the client has every file of its tree (`HasAll`), the root is
not requested (`Named`), and where a client waits with nothing under way its thread
has a step (`Attended`). `Untied` is a hypothesis on the behaviour, not on the
constants, since what produces a tie is the clock: it also covers two machines of
one account, of which `sync_writes` has only one. Each other hypothesis names a way in
which the wait does happen (see Environment).

`WriterProofs` has the two properties that are true of one machine only. Its hypothesis
`SingleWriter` says that there is one machine, whose user only writes; that the only
fault is a tie; and that at registration the client has every file the server has, under
the same hash. Each part names a way in which HashIsCurrent fails: a deletion
(finding stale_hash), a second machine of the account, a kill, a lost answer or a failing
database between the two, and an account registered with another hash
(registered_hash). `sync_writes` is an instance of it.

- `HashStaysCurrent`: `Spec => []HashIsCurrent` under `SingleWriter`;
- `LatestIsEqual`: `Spec => LatestMeansEqual`, an action property, under
  `SingleWriter` and `Comparable`.

The invariant is

    WInv == DInv /\ Lasting /\ Aware /\ (\A r \in Runs : Within(r)) /\ Current

HashIsCurrent is not inductive, since an exchange that requests nothing does not
write the hash and yet may delete. `Within` excludes that: the names in the
server's directory, in its requests and in the file headers under way are all names of
the client's tree (`Inside`), so that nothing is ever removed but to be received
again. `Lasting`: no process ends, so that what is removed does come back and UpdateHash
is reached. `Aware`: every thread read the hostname, the database being without
failures, so that what UpdateHash stores is the hash of the directory. `Current` is the property at every position outside the transfer.

For LatestIsEqual the hash that arrives is that of the client's tree (`Asking`), and
the root hash contains neither names nor what follows the last complete chunk of a
file. It tells the two directories apart all the same (`HashTellsApart`): the server's
names are among the client's, so that equal numbers of children are equal sets of
names, and the hashes of a name stand at one place in both. `Comparable` is what this
takes: both sides list the names in one order, and no file has an incomplete chunk
(finding partial_chunk).

`TreeProofs` is about the functions of `MerkleTree`, which recurse along the
nodes of a tree. The library's induction theorems take an operator and cannot be
used here; the induction is on sets instead: among the nodes for which a claim fails
there would be one with a longest path, and the claim holds of its children
(`Paths` is finite). What `buildTree` returns is characterised by an equation per
node, the nodes a comparison visits by the nodes both trees have, and its report
by which nodes are in it and which comes before which. Two theorems rest on this,
for any two trees, any order of names and any depth:

- `ComparerIsExact`: what `MerkleTreeComparer` reports turns the one tree into the
  other, misses no file whose hash changed, reports nothing twice, and nothing before
  the directory it is in (`ReportIsExact`);
- `DetectorIsComplete`: where `detectChanges` finds nothing the comparer finds
  nothing (`DetectorMissesNothing`).

`UploadProofs` proves every invariant that `upload` checks, for any paths, contents,
orders of iteration, initial directories, edits and mishaps. Four rest on the
trees: `TypeCorrect` (`TypeOK`, whose strengthening `Typed` says of which tree the
messages and positions of both sides are), `ComparisonsAreExact`
(`ComparisonIsExact`), `RemovalsAreSafe` (`RemovalsDoNotThrow`: what is to be removed
was compared with the server's own files, which are flat), and `FlatComparison`
(`AgreesOnFlatTrees`: without directories the comparison is the one of
`Workspace`). Three are about the conversation: `WaitingHasCause`
(`WaitsHaveCause`), `EndingHasCause` (`EndHasCause`) and `StoredIsOpened`
(`StoresWhatWasOpened`). The invariant is

    Conversation == Typed /\ Connected /\ Measured /\ Dialogue

None of the three is inductive: whether the bytes that the server is about to read
are a message or the rest of a file depends on what the client sent, on how far the
server has counted, and on what happened to the file in between. `Connected`: who is
still there. `Measured`: how the size and the data of the open file differ, and which
mishap accounts for it. `Dialogue`: while the connection lasts, either bytes of a
file that grew are where the server expects a message (`Doomed`), or the two sides
are at one of the pairs of positions that belong together, with these messages
under way (`Exchange`): nothing, a question, the answers to a tree (`Goes` counts the
requests to come), or a file, of which metadata, stored chunks, chunks on their way
and chunks to be sent are the chunks of the opened file, in order, unless it was
rewritten (`Underway`, `Arriving`).

`LastComponentsMirrored` (`MirrorsLastComponents`) adds `Mirrors`: while nodes are being
requested, the last components of the client's tree are the names in the
server's directory and those of the nodes that are still to be requested, asked
for or announced (`Pending`). It takes the exactness of the report at the start, that
two nodes may have one name on the server all along, and `Conversation` for what is
under way at each step.

`DownloadProofs` proves `TypeCorrect` and `OneMomentSent`
(`Spec => []SendsOneMoment`) of `Download`, for any directories, any `Expected` and
`Capacity`, any number of other exchanges. The invariant is

    IInv == TypeOK /\ Exclusive /\ SendsOneMoment /\ ListsFiles /\ CountsDown

`Exclusive`: whoever is between `sem_wait` and `sem_post` is alone there, so that
ChangeFiles cannot fall into a download. `ListsFiles`: what is still to be sent,
and what is being read, exists. `CountsDown`: the client in the loop has a file to
wait for, and a block to wait for inside one; without it `wanted` could fall below
zero.

It also proves `WholeFiles`: `Spec => []NoHalfFiles`. That a client's file is
whole cannot be seen from the client alone: the argument has to know what is
still in the stream and what the server is about to send. On top of IInv,

    Follows == FilesWhole /\ OneDownload /\ Broken /\ Announced /\ InTheMiddle

`FilesWhole` is the property at every moment, but for the file under way.
`Announced` and `InTheMiddle` follow that file: what the client has of it is a
prefix of the server's version, the rest comes in the messages behind, block by
block, and what has not been sent yet is what the server's position says, or the
server is gone (`Carries`, `Continues`). `OneDownload`: there is only one, so that
`snapshot` does not change under the client. `Broken`: while the client lives, only
the end of the server breaks the connection, so that a client in the middle of a
file that finds the stream empty and closed is right to remove it. Lemma
`CarriesTail` moves a file to the front when the client takes a message,
`CarriesAppend` extends it when the server sends one, `FilesStay` is for every other
step of the server.

Last comes `NoFileForAnAnswer`: `Spec => []FilesAreNoAnswers`. Files must be counted
for this: those the client has still to count are as many as the server has still
to send and the stream has still to bring, or the server is gone. AInv adds
`Answering` to the invariant above: before a download nothing is under way (`Fresh`), no
sync is in the stream until the client has counted (`NoSyncYet`), a client waits for
a file's metadata or data while one is to come (`Awaited`), each file comes once
(`Once`), the numbers agree (`Counted`), and what has been counted is there
(`Complete`). The sets are finite because `Names` is assumed to be, which a file
system's limit on the length of a name justifies.

`AccountsProofs` proves `TypeCorrect`, `OwnWorkspace` (`WorkspaceOfUser`) and
`LoggedInIsReady` (`ReadyToSync`) of `Accounts`, for any emails, machines and runs,
with or without the foreign key. The invariant is TypeOK with

- `Tables`: each user owns a workspace and has its id or -1 (`Users`), and so does
  each thread that is about to insert one (`Registrations`), whatever other
  registrations insert meanwhile, for rows are only appended;
- `Clients`: a run that has not begun has no thread or message, and a machine has one
  run at a time (`Processes`); a config exists only after "user_added", which means a
  directory (`Remembered`); and a login asks for the account in the config
  (`Logins`).

`LoggedInIsReady` says nothing of the hostname: a login that could not read it succeeds
all the same. `HostnameIsKnown` (`KnowsHostname`) assumes that the database answers
("db" is not a fault, no foreign key), and allows overlaps and kills. The question
is about two reads and what may lie between them. Whoever logs in has a config,
hence was told "user_added", hence has a row by then, whichever registration inserted it,
and rows are never removed; a run has one thing going on (`Busy`), so that the answer
it reads is the one to its own question. `Promised` has this for each position of a run,
`Configured` for each config; HInv is IInv with both.

Two more theorems assume no foreign key, no overlapping registrations of one email and
no failures (Faults = {}): `ToldIsTrue` (`RegisteredCanLogIn`) and `OneRowEach` (`OneWorkspaceEach`).
Both are about the middle of a registration, when the workspace is there and the user is
not. `Orderly` says that at most one registration of an email is under way (`OneRegisters`), as a
request, a thread at work or an answer (`OneThing`); that it is about an account that is
not there until it is added, and then with the password chosen (`Registers`); that every
row of the workspace table belongs to a user or to the one who is being added
(`WorkspacesOwned`); and that a config names a user who is there (`Configs`).

Every invariant and every action property of the runs, and the refinement, is stated by a
theorem. Only model-checked is liveness (UntiedChangesArrive, ChangesArrive,
Releases, HeldByStarvedOnly, GetsAway, ServerGetsAway, ClientGetsAway, Answered): under
fairness it is out of the prover's reach.

The assumptions are in the modules that declare the constants. Those about data
are: finitely many names and paths, which a file system's limit on their length
justifies; `IsOrder`, by which a `directory_iterator` visits each entry once; and
`HashAssumption`, by which no hash is another's content (`Upload`), and none is the
empty one of no tree (`Sync`; a hash has 64 characters). What the proofs take from
hashes is that equal ones come from equal contents; collisions are not modelled.

## What the models leave out

- In `Sync` a header and the data after it are sent in one step, and a file that is
  being received is the empty file until its last byte has come. `Upload` has both
  in detail, for one client.
- A `treeReception` that cannot read the hostname and compares the wrong way round
  calls `remove` with paths below "/" (`SyncHandler.cpp` 101); `Sync` has the server's
  own directory only, which they do not touch (`TreeReceptionNowhere`).
- `Upload` and `Download` have a database that answers: their thread knows the
  hostname. What follows when it does not is in `Sync`.
- The order of requests within an exchange is left open in `Sync`; it is that of the
  code in `Upload`.
- The deletions inside `treeReception` are one step. A kill between two of them
  leaves a directory that later steps treat like any other.
- In `Sync` the two commits of an update are two steps, but in one second; in
  `Upload` they are one, and which way the time stamps compare is left open there.
- A torn `tree.json` is not represented when the server is killed: whoever
  reads it has received it in the same exchange. Nor is a torn `config.json` of
  the client (hazards).
- The files of `Upload` and `Download` are complete chunks; the rest of a file, which
  is not hashed, is in `Workspace`. `loadFromFile` keeps paths as they are, and
  names are valid on both systems.
- In `Upload` a confirmation and the next request are two messages and are read one by
  one, since the client's pause lies between them; one `recv` with both is in
  `Sync` ("coalesce"). In `Download` such a `recv` ends the client where it parses
  (`ParseError`); metadata read together with the first bytes of the data is that
  case, and so is an empty file's metadata with the next one.
- The server's directory in `Upload` has no subdirectories, for the server never
  makes one; a directory whose copy is a regular file is part of the model.
- The client's answer to "download?" is "n" in `Sync` and `Upload`, "y" in `Download`.
- In `Accounts`, `getUser`'s two queries are one step, and the user types the password chosen
  last. The hash in the workspace row is in `Sync` only.
- A change during a run's first sync is not noticed, for the watcher starts
  afterwards (`HandleStart.cpp` 103-109), and one below a subdirectory never is
  (`FileWatcher.cpp` 26): ChangesArrive is about changes that it noticed.
- `DatabaseManager`'s constructor opens a local connection that hides the member
  (`DatabseManager.cpp` 8); which database the member reaches is up to the
  process's environment, and the models assume one that works.

Not modelled, because nothing reaches it or nothing follows from it: `FilesManager`,
`SharedManager`, `ConflictResolver`, sessions, the commands share, unshare and break
(the server does not know their messages), `listenForUpdates` and what it calls,
deletion of accounts and workspaces, `stop` and `closeServerSocket`; prompts,
validation of addresses, password hashing, SQL and escaping, formatting of
messages, logging.

## Plan

Done: `Workspace`, `Sync`, `ExclusiveStore`, `Accounts`, `MerkleTree`, `Upload`,
`Download`, and the proofs above.

No safety property is left without a theorem. What could be weakened are hypotheses:
`SingleWriter` asks for an environment without kills, although HashIsCurrent should
survive a kill outside an exchange.
