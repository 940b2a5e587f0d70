-------------------------------- MODULE Sync --------------------------------
(***************************************************************************)
(* The synchronisation protocol between the bongo clients and the server.  *)
(*                                                                         *)
(* A run is one `bongo start' on a machine: a client process, its TCP      *)
(* connection and the server thread that serves it.  The machine's         *)
(* configuration names the account it syncs for.  Every account has a row  *)
(* in the workspace table; all accounts share one server directory, for    *)
(* the clients register with the hostname "files".  The server's threads   *)
(* share that directory, the file tree/tree.json and one semaphore.        *)
(*                                                                         *)
(* The user has logged in before a run starts (module Accounts), and has   *)
(* not asked for the initial download.                                     *)
(***************************************************************************)
EXTENDS Workspace

CONSTANTS
    Users,          \* accounts with a row in app_users and in workspace
    Machines,       \* client computers, each with a directory and a config
    Runs,           \* runs of the client, at most one at a time per machine
    Account,        \* the account in the config of each machine
    Home,           \* the machine of each run
    InitialDir,     \* the directory of each machine at the outset
    InitialFiles,   \* the server's directory at the outset
    ServerOrder,    \* directory_iterator order on the server
    ClientOrder,    \* directory_iterator order on the clients
    NoHash,         \* the hash of no tree, "": getTreeHash without a root
    Edits,          \* the kinds of edit the users make
    MaxEdits,       \* how many edits they make: bounds the behaviours only
    Faults          \* what the environment does, see below

\* "tie"      a sync may start in the second of the account's last stamp
\* "db"       two threads may use the shared database connection at once
\* "coalesce" one recv may return several messages
\* "crash"    clients and the server may be killed, the server restarted
ASSUME EnvironmentAssumption ==
    /\ Account \in [Machines -> Users]
    /\ \A u \in Users : \E m \in Machines : Account[m] = u
    /\ Home \in [Runs -> Machines]
    /\ Edits \subseteq {"write", "delete", "rename"}
    /\ MaxEdits \in Nat
    /\ Faults \subseteq {"tie", "db", "coalesce", "crash"}

ASSUME DirectoryAssumption ==
    /\ IsFiniteSet(Names)
    /\ InitialDir \in [Machines -> Workspaces]
    /\ InitialFiles \in Workspaces
    /\ ServerOrder \in Seq(Names)
    /\ ClientOrder \in Seq(Names)

VARIABLES
    running,        \* the server process is up
    semaphore,      \* ClientCommunicator::semaphore
    handler,        \* where the thread of each run is in handleClient
    hostname,       \* the hostname each thread read at login, "unread" for ""
    ahead,          \* the flag of the tree message each thread works on
    addedFiles,     \* the nodes each thread has still to request
    incoming,       \* the file each thread is receiving
    treeFile,       \* tree/tree.json, one for all threads
    files,          \* the server's directory
    workspaceHash,  \* workspace.workspace_hash of each account
    stampedNow,     \* accounts whose modified_at is the current second
    notAfter,       \* runs whose own time stamp is not after modified_at
    localDir,       \* the directory of each machine
    edits,          \* edits made so far
    client,         \* where each run is in HandleSync
    treeJson,       \* ~/.bongo/tree.json as each run last wrote it
    remaining,      \* handleServerResponse's i
    watching,       \* runs whose file watcher is active
    watchEvents,    \* change notifications queued for each run
    toServer,       \* bytes sent by the client, message by message
    toClient,       \* bytes sent by the server
    link            \* the connection: "none", "up" or "gone"

processVars == <<running, semaphore>>
jobVars == <<hostname, ahead, addedFiles, incoming>>
storeVars == <<treeFile, files, workspaceHash, stampedNow>>
machineVars == <<localDir, edits, notAfter>>
netVars == <<toServer, toClient, link>>
serverSide == <<processVars, handler, jobVars, storeVars>>
clientSide == <<machineVars, client, treeJson, remaining, watching, watchEvents>>
vars == <<serverSide, clientSide, netVars>>

User(r) == Account[Home[r]]

\* A thread holds the semaphore from sem_wait to sem_post.
Holding == {"tree_data", "confirm_tree", "compare", "no_sync", "request",
            "await_file", "file_data", "confirm_file", "rehash", "stamp"}
HandlerStates == Holding \cup {"none", "poll", "compare_time", "wait_tree", "closed"}

Awaiting == {"await_latest", "await_conf", "await_response", "await_fconf",
             "await_next"}
ClientStates == Awaiting \cup {"off", "idle", "dead"}

\* The root hashes the two sides can compute.
Hashes == {combineHashes(t, o) : t \in Trees, o \in {ServerOrder, ClientOrder}}

\* A hash is a string of 64 characters.
ASSUME HashAssumption == NoHash \notin Hashes

CheckLatest(hash) == [type |-> "check_latest", hash |-> hash]
TreeHeader(flag) == [type |-> "tree", ahead |-> flag]
TreeData(tree) == [type |-> "tree_data", tree |-> tree]
FileHeader(file) == [type |-> "file_transfer", file |-> file]
FileData(content) == [type |-> "file_data", content |-> content]

Latest == [type |-> "latest"]
NotLatest(flag) == [type |-> "not_latest", ahead |-> flag]
Confirmation == [type |-> "confirmation"]
NoSyncNeeded == [type |-> "no_sync_needed"]
RequestFile(file, n) == [type |-> "request_file", file |-> file, remaining |-> n]

ClientMessages ==
    [type : {"check_latest"}, hash : Hashes] \cup [type : {"tree"}, ahead : BOOLEAN]
    \cup [type : {"tree_data"}, tree : Trees] \cup [type : {"file_transfer"}, file : Names]
    \cup [type : {"file_data"}, content : Contents]
ServerMessages ==
    {Latest, Confirmation, NoSyncNeeded} \cup [type : {"not_latest"}, ahead : BOOLEAN]
    \cup [type : {"request_file"}, file : Names \cup {Root}, remaining : Nat \ {0}]

-----------------------------------------------------------------------------
(* The initial state: every account was registered with the hash of one of *)
(* its machines' directories, and no client has started yet.               *)

Init ==
    /\ running = TRUE
    /\ semaphore = 1
    /\ handler = [r \in Runs |-> "none"]
    /\ hostname = [r \in Runs |-> "unread"]
    /\ ahead = [r \in Runs |-> FALSE]
    /\ addedFiles = [r \in Runs |-> {}]
    /\ incoming = [r \in Runs |-> Root]
    /\ treeFile = buildTree(InitialFiles)
    /\ files = InitialFiles
    /\ workspaceHash \in [Users -> {treeHash(InitialDir[m], ClientOrder) : m \in Machines}]
    /\ \A u \in Users : \E m \in Machines :
           Account[m] = u /\ workspaceHash[u] = treeHash(InitialDir[m], ClientOrder)
    /\ stampedNow = {}
    /\ notAfter = {}
    /\ localDir = InitialDir
    /\ edits = 0
    /\ client = [r \in Runs |-> "off"]
    /\ treeJson = [r \in Runs |-> buildTree(InitialDir[Home[r]])]
    /\ remaining = [r \in Runs |-> 1]
    /\ watching = {}
    /\ watchEvents = [r \in Runs |-> 0]
    /\ toServer = [r \in Runs |-> <<>>]
    /\ toClient = [r \in Runs |-> <<>>]
    /\ link = [r \in Runs |-> "none"]

-----------------------------------------------------------------------------
(* The server's thread for run r: handleClient.                            *)

GoTo(r, state) == handler' = [handler EXCEPT ![r] = state]

Arrived(r, type) == toServer[r] # <<>> /\ Head(toServer[r]).type = type

Receive(r) == toServer' = [toServer EXCEPT ![r] = Tail(@)]

\* recv reports the end of the stream.
Ended(r) == toServer[r] = <<>> /\ link[r] = "gone"

\* What is sent on a connection the peer has closed is lost, or kills the
\* sender, see BrokenPipe.
Reply(r, message) ==
    toClient' = IF link[r] = "up" THEN [toClient EXCEPT ![r] = Append(@, message)]
                                  ELSE toClient

\* A transaction of another thread is open on the one shared connection.
DbMayFail(r) ==
    "db" \in Faults /\ \E s \in Runs \ {r} : handler[s] \notin {"none", "closed"}

\* Mutation of IsLatest: a client whose time is not the later one is told it
\* has the latest version, whatever the hashes.
IsLatestByTime(r) ==
    /\ handler[r] = "poll" /\ Arrived(r, "check_latest")
    /\ Head(toServer[r]).hash = workspaceHash[User(r)] \/ r \in notAfter
    /\ Receive(r)
    /\ Reply(r, Latest)
    /\ UNCHANGED <<serverSide, clientSide, link>>

\* check_latest, the hash in the workspace table is the client's.
IsLatest(r) ==
    /\ handler[r] = "poll" /\ Arrived(r, "check_latest")
    /\ Head(toServer[r]).hash = workspaceHash[User(r)]
    /\ Receive(r)
    /\ Reply(r, Latest)
    /\ UNCHANGED <<serverSide, clientSide, link>>

\* check_latest, the hash differs or could not be read.
IsNotLatest(r) ==
    /\ handler[r] = "poll" /\ Arrived(r, "check_latest")
    /\ Head(toServer[r]).hash # workspaceHash[User(r)] \/ DbMayFail(r)
    /\ Receive(r)
    /\ GoTo(r, "compare_time")
    /\ UNCHANGED <<clientSide, processVars, jobVars, storeVars, toClient, link>>

\* compareTimestamps answers "server" when the client's time is the later
\* one, or when modified_at could not be read; the flag the client derives
\* of the answer is FALSE in these cases.
CompareTimestamps(r) ==
    /\ handler[r] = "compare_time"
    /\ \E flag \in BOOLEAN :
         /\ (flag <=> r \in notAfter) \/ (~flag /\ DbMayFail(r))
         /\ Reply(r, NotLatest(flag))
    /\ GoTo(r, "poll")
    /\ UNCHANGED <<clientSide, processVars, jobVars, storeVars, toServer, link>>

\* Mutation of ReceiveTreeHeader: the tree is received before sem_wait.
ReceiveTreeHeaderUnguarded(r) ==
    /\ handler[r] = "poll" /\ Arrived(r, "tree")
    /\ Receive(r)
    /\ ahead' = [ahead EXCEPT ![r] = Head(toServer[r]).ahead]
    /\ GoTo(r, "tree_data")
    /\ UNCHANGED <<clientSide, processVars, storeVars, hostname, addedFiles,
                   incoming, toClient, link>>

ReceiveTreeHeader(r) ==
    /\ handler[r] = "poll" /\ Arrived(r, "tree")
    /\ Receive(r)
    /\ ahead' = [ahead EXCEPT ![r] = Head(toServer[r]).ahead]
    /\ GoTo(r, "wait_tree")
    /\ UNCHANGED <<clientSide, processVars, storeVars, hostname, addedFiles,
                   incoming, toClient, link>>

\* Mutation of AcquireSemaphore: sem_trywait, its result ignored.
TryAcquireSemaphore(r) ==
    /\ handler[r] = "wait_tree"
    /\ semaphore' = IF semaphore > 0 THEN semaphore - 1 ELSE 0
    /\ GoTo(r, "tree_data")
    /\ UNCHANGED <<clientSide, jobVars, storeVars, netVars, running>>

AcquireSemaphore(r) ==
    /\ handler[r] = "wait_tree"
    /\ semaphore > 0
    /\ semaphore' = semaphore - 1
    /\ GoTo(r, "tree_data")
    /\ UNCHANGED <<clientSide, jobVars, storeVars, netVars, running>>

\* handleFileReception of the tree: it lands in the shared tree/tree.json.
ReceiveTree(r) ==
    /\ handler[r] = "tree_data" /\ Arrived(r, "tree_data")
    /\ Receive(r)
    /\ treeFile' = Head(toServer[r]).tree
    /\ GoTo(r, "confirm_tree")
    /\ UNCHANGED <<clientSide, processVars, jobVars, files, workspaceHash,
                   stampedNow, toClient, link>>

ConfirmTree(r) ==
    /\ handler[r] = "confirm_tree"
    /\ Reply(r, Confirmation)
    /\ GoTo(r, "compare")
    /\ UNCHANGED <<clientSide, processVars, jobVars, storeVars, toServer, link>>

\* A received tree without children is deserialised as a file: when it is the
\* current one, a differing root is a modified file.
RootModified(base, current) == DOMAIN current = {} /\ DOMAIN base # {}

AfterComparison(r, added) ==
    /\ addedFiles' = [addedFiles EXCEPT ![r] = added]
    /\ GoTo(r, IF added = {} THEN "no_sync" ELSE "request")

\* treeReception: compare with the server's directory, delete what the base
\* has and the current tree has not or has in another version.  It reads the
\* hostname itself.
TreeReception(r) ==
    /\ handler[r] = "compare"
    /\ LET own == buildTree(files)
           base == IF ahead[r] THEN treeFile ELSE own
           current == IF ahead[r] THEN own ELSE treeFile
           root == IF ~ahead[r] /\ RootModified(base, current) THEN {Root} ELSE {}
       IN  /\ AfterComparison(r, AddedNodes(base, current) \cup root)
           /\ files' = Without(files, RemovedNodes(base, current))
    /\ treeFile' = buildTree(files')
    /\ UNCHANGED <<clientSide, processVars, netVars, hostname, ahead, incoming,
                   workspaceHash, stampedNow>>

\* treeReception without a directory path: the server's tree is null, and a
\* null base makes every received node an added one.  A null current tree
\* makes every one a removed one: remove is then called with paths below "/",
\* which this module does not have, and not in the server's directory.
TreeReceptionNowhere(r) ==
    /\ handler[r] = "compare"
    /\ DbMayFail(r)
    /\ AfterComparison(r, IF ahead[r] THEN {} ELSE DOMAIN treeFile \cup {Root})
    /\ UNCHANGED <<clientSide, processVars, storeVars, netVars, hostname, ahead,
                   incoming>>

\* Mutation of NoSync: without the continue, the thread goes on to the code
\* after the loop, and posts a second time.
NoSyncFallsThrough(r) ==
    /\ handler[r] = "no_sync"
    /\ Reply(r, NoSyncNeeded)
    /\ semaphore' = semaphore + 1
    /\ GoTo(r, "rehash")
    /\ UNCHANGED <<clientSide, jobVars, storeVars, running, toServer, link>>

\* Nothing to request: the thread answers and continues without storing the
\* hash of the directory it may just have deleted files from.
NoSync(r) ==
    /\ handler[r] = "no_sync"
    /\ Reply(r, NoSyncNeeded)
    /\ semaphore' = semaphore + 1
    /\ GoTo(r, "poll")
    /\ UNCHANGED <<clientSide, jobVars, storeVars, running, toServer, link>>

\* The order of the added nodes, that of a std::map, is left open.
Request(r) ==
    /\ handler[r] = "request"
    /\ \E file \in addedFiles[r] :
         /\ Reply(r, RequestFile(file, Cardinality(addedFiles[r])))
         /\ addedFiles' = [addedFiles EXCEPT ![r] = @ \ {file}]
    /\ GoTo(r, "await_file")
    /\ UNCHANGED <<clientSide, processVars, storeVars, hostname, ahead, incoming,
                   toServer, link>>

\* The loop over addedFiles: the next request, or the new hash.
NextFile(r) == GoTo(r, IF addedFiles[r] = {} THEN "rehash" ELSE "request")

\* The metadata of a requested file; handleFileReception creates or truncates
\* the file before any data comes.
ReceiveFileHeader(r) ==
    /\ handler[r] = "await_file" /\ Arrived(r, "file_transfer")
    /\ hostname[r] # "unread"
    /\ Receive(r)
    /\ incoming' = [incoming EXCEPT ![r] = Head(toServer[r]).file]
    /\ files' = Written(files, incoming'[r], EmptyFile)
    /\ GoTo(r, "file_data")
    /\ UNCHANGED <<clientSide, processVars, treeFile, workspaceHash, stampedNow,
                   hostname, ahead, addedFiles, toClient, link>>

\* Mutation of SkipFile: the recv is repeated until metadata comes.
SkipFileRetries(r) ==
    /\ handler[r] = "await_file"
    /\ Arrived(r, "check_latest") /\ Receive(r)
    /\ UNCHANGED <<clientSide, processVars, handler, jobVars, storeVars, toClient,
                   link>>

\* Another message instead of the metadata is dropped, and so is a failed
\* recv: the loop goes on to the next file.
SkipFile(r) ==
    /\ handler[r] = "await_file"
    /\ \/ Arrived(r, "check_latest") /\ Receive(r)
       \/ Ended(r) /\ UNCHANGED toServer
    /\ NextFile(r)
    /\ UNCHANGED <<clientSide, processVars, jobVars, storeVars, toClient, link>>

\* handleFileReception of a requested file.
ReceiveFile(r) ==
    /\ handler[r] = "file_data" /\ Arrived(r, "file_data")
    /\ Receive(r)
    /\ files' = Written(files, incoming[r], Head(toServer[r]).content)
    /\ GoTo(r, "confirm_file")
    /\ UNCHANGED <<clientSide, processVars, jobVars, treeFile, workspaceHash,
                   stampedNow, toClient, link>>

\* The connection ends inside the data: the truncated file stays.
ReceiveTornFile(r) ==
    /\ handler[r] = "file_data" /\ Ended(r)
    /\ NextFile(r)
    /\ UNCHANGED <<clientSide, processVars, jobVars, storeVars, netVars>>

ConfirmFile(r) ==
    /\ handler[r] = "confirm_file"
    /\ Reply(r, Confirmation)
    /\ NextFile(r)
    /\ UNCHANGED <<clientSide, processVars, jobVars, storeVars, toServer, link>>

\* buildTree of the thread's hostname: without one nothing is built or saved,
\* and getTreeHash has no root to take a hash from.
Rebuild(r) == treeFile' = IF hostname[r] = "unread" THEN treeFile ELSE buildTree(files)

rebuiltHash(r) == IF hostname[r] = "unread" THEN NoHash ELSE treeHash(files, ServerOrder)

\* Mutations of UpdateHash: the hash of the tree the client sent is stored, or
\* the UPDATE has no WHERE.
UpdateHashAsSent(r) ==
    /\ handler[r] = "rehash"
    /\ workspaceHash' = [workspaceHash EXCEPT ![User(r)] =
                            combineHashes(treeJson[r], ServerOrder)]
    /\ GoTo(r, "stamp")
    /\ UNCHANGED <<clientSide, processVars, jobVars, netVars, files, treeFile,
                   stampedNow>>

UpdateHashEveryRow(r) ==
    /\ handler[r] = "rehash"
    /\ Rebuild(r)
    /\ workspaceHash' = [u \in Users |-> rebuiltHash(r)]
    /\ GoTo(r, "stamp")
    /\ UNCHANGED <<clientSide, processVars, jobVars, netVars, files, stampedNow>>

\* buildTree and the first commit of updateWorkspaceByEmail.
UpdateHash(r) ==
    /\ handler[r] = "rehash"
    /\ Rebuild(r)
    /\ workspaceHash' = [workspaceHash EXCEPT ![User(r)] = rebuiltHash(r)]
    /\ GoTo(r, "stamp")
    /\ UNCHANGED <<clientSide, processVars, jobVars, netVars, files,
                   stampedNow>>

\* Mutation of UpdateHashFails: a return that leaves out sem_post.
UpdateHashFailsHolding(r) ==
    /\ handler[r] = "rehash"
    /\ DbMayFail(r)
    /\ Rebuild(r)
    /\ GoTo(r, "poll")
    /\ UNCHANGED <<clientSide, jobVars, netVars, running, semaphore, files,
                   workspaceHash, stampedNow>>

\* updateWorkspaceByEmail fails before its first commit: its result is ignored.
UpdateHashFails(r) ==
    /\ handler[r] = "rehash"
    /\ DbMayFail(r)
    /\ Rebuild(r)
    /\ semaphore' = semaphore + 1
    /\ GoTo(r, "poll")
    /\ UNCHANGED <<clientSide, jobVars, netVars, running, files, workspaceHash,
                   stampedNow>>

\* The second commit, which may fail, and sem_post.
UpdateModifiedAt(r) ==
    /\ handler[r] = "stamp"
    /\ \/ /\ notAfter' = notAfter \cup {s \in Runs : User(s) = User(r)}
          /\ stampedNow' = IF "tie" \in Faults THEN stampedNow \cup {User(r)}
                                               ELSE stampedNow
       \/ DbMayFail(r) /\ UNCHANGED <<notAfter, stampedNow>>
    /\ semaphore' = semaphore + 1
    /\ GoTo(r, "poll")
    /\ UNCHANGED <<jobVars, netVars, running, treeFile, files, workspaceHash,
                   localDir, edits, client, treeJson, remaining, watching,
                   watchEvents>>

CloseConnection(r) ==
    /\ handler[r] = "poll" /\ Ended(r)
    /\ GoTo(r, "closed")
    /\ UNCHANGED <<clientSide, processVars, jobVars, storeVars, netVars>>

\* The process ends, and with it every thread and every connection.
Terminate ==
    /\ running' = FALSE
    /\ semaphore' = 1
    /\ handler' = [r \in Runs |-> IF handler[r] = "none" THEN "none" ELSE "closed"]
    /\ link' = [r \in Runs |-> IF link[r] = "none" THEN "none" ELSE "gone"]
    /\ toServer' = [r \in Runs |-> <<>>]
    /\ UNCHANGED <<clientSide, jobVars, storeVars, toClient>>

\* The connection ends inside the tree: treeReception parses the part that
\* came, and no handler catches the exception.
ReceiveTornTree(r) ==
    /\ handler[r] = "tree_data" /\ Ended(r)
    /\ Terminate

\* A file arrives at a thread without a hostname: create_directories throws on
\* "", and no handler catches the exception.
ReceiveFileHeaderNowhere(r) ==
    /\ handler[r] = "await_file" /\ Arrived(r, "file_transfer")
    /\ hostname[r] = "unread"
    /\ Terminate

\* One recv returns two messages, and the parser's exception ends the process.
ParseError(r) ==
    /\ "coalesce" \in Faults
    /\ handler[r] \in {"poll", "await_file"} /\ Len(toServer[r]) > 1
    /\ Terminate

\* SIGPIPE: send on a connection the client has closed.
BrokenPipe(r) ==
    /\ link[r] = "gone"
    /\ \/ handler[r] \in {"compare_time", "confirm_tree", "no_sync", "request",
                          "confirm_file"}
       \/ handler[r] = "poll" /\ Arrived(r, "check_latest")
    /\ Terminate

Kill == "crash" \in Faults /\ running /\ Terminate

Restart ==
    /\ ~running
    /\ running' = TRUE
    /\ UNCHANGED <<clientSide, jobVars, storeVars, netVars, semaphore, handler>>

\* The clock reaches the next second.  The two commits of an update fall into
\* one second.
NextSecond ==
    /\ stampedNow # {}
    /\ \A r \in Runs : handler[r] # "stamp"
    /\ stampedNow' = {}
    /\ UNCHANGED <<clientSide, processVars, jobVars, netVars, handler, treeFile,
                   files, workspaceHash>>

-----------------------------------------------------------------------------
(* The client: HandleStart, HandleSync and the callback of the file watcher *)

BecomeClient(r, state) == client' = [client EXCEPT ![r] = state]

Answer(r, type) == toClient[r] # <<>> /\ Head(toClient[r]).type = type

Take(r) == toClient' = [toClient EXCEPT ![r] = Tail(@)]

Send(r, messages) ==
    toServer' = IF link[r] = "up" THEN [toServer EXCEPT ![r] = @ \o messages]
                                  ELSE toServer

\* initiateSync returns, whatever its result, and after the first sync the
\* watcher starts.
Finished(r) == BecomeClient(r, "idle") /\ watching' = watching \cup {r}

\* initiateStart with a password the server accepts: a connection and a
\* thread of its own.  Its hostname is read by a call of the login handler's
\* own, whose failure does not make the login fail (module Accounts).
Start(r) ==
    /\ running /\ client[r] = "off"
    /\ \A s \in Runs : Home[s] = Home[r] => client[s] \in {"off", "dead"}
    /\ BecomeClient(r, "idle")
    /\ GoTo(r, "poll")
    /\ link' = [link EXCEPT ![r] = "up"]
    /\ \/ hostname' = [hostname EXCEPT ![r] = "files"]
       \/ "db" \in Faults /\ UNCHANGED hostname
    /\ UNCHANGED <<processVars, ahead, addedFiles, incoming, storeVars, machineVars,
                   treeJson, remaining, watching, watchEvents, toServer, toClient>>

\* Without "tie", a sync starts at least a second after the account's last one.
SecondHasPassed(r) ==
    "tie" \in Faults \/ \A s \in Runs : User(s) = User(r) => handler[s] \notin Holding

\* Mutation of InitiateSync: the tree of the run's first sync is kept.
InitiateSyncCached(r) ==
    /\ client[r] = "idle"
    /\ \/ r \notin watching /\ UNCHANGED watchEvents
       \/ watchEvents[r] > 0 /\ watchEvents' = [watchEvents EXCEPT ![r] = @ - 1]
    /\ SecondHasPassed(r)
    /\ notAfter' = IF User(r) \in stampedNow THEN notAfter \cup {r} ELSE notAfter \ {r}
    /\ Send(r, <<CheckLatest(combineHashes(treeJson[r], ClientOrder))>>)
    /\ BecomeClient(r, "await_latest")
    /\ UNCHANGED <<serverSide, localDir, edits, treeJson, remaining, watching,
                   toClient, link>>

\* initiateSync, called once by HandleStart and then by onFileChange for
\* every event: builds the tree, stamps the config, asks the server.
InitiateSync(r) ==
    /\ client[r] = "idle"
    /\ \/ r \notin watching /\ UNCHANGED watchEvents
       \/ watchEvents[r] > 0 /\ watchEvents' = [watchEvents EXCEPT ![r] = @ - 1]
    /\ SecondHasPassed(r)
    /\ treeJson' = [treeJson EXCEPT ![r] = buildTree(localDir[Home[r]])]
    /\ notAfter' = IF User(r) \in stampedNow THEN notAfter \cup {r} ELSE notAfter \ {r}
    /\ Send(r, <<CheckLatest(treeHash(localDir[Home[r]], ClientOrder))>>)
    /\ BecomeClient(r, "await_latest")
    /\ UNCHANGED <<serverSide, localDir, edits, remaining, watching, toClient,
                   link>>

\* "latest", or a response checkWithServer does not know.
OnLatest(r) ==
    /\ client[r] = "await_latest" /\ toClient[r] # <<>>
    /\ Head(toClient[r]).type # "not_latest"
    /\ Take(r)
    /\ Finished(r)
    /\ UNCHANGED <<serverSide, machineVars, treeJson, remaining, watchEvents,
                   toServer, link>>

\* Mutation of OnNotLatest: the confirmation of the tree is not waited for.
OnNotLatestHasty(r) ==
    /\ client[r] = "await_latest" /\ Answer(r, "not_latest")
    /\ Take(r)
    /\ treeJson' = [treeJson EXCEPT ![r] = buildTree(localDir[Home[r]])]
    /\ Send(r, <<TreeHeader(Head(toClient[r]).ahead), TreeData(treeJson'[r])>>)
    /\ BecomeClient(r, "await_response")
    /\ UNCHANGED <<serverSide, machineVars, remaining, watching, watchEvents,
                   link>>

\* "not_latest": rebuilds the tree and sends its file, header and data.
OnNotLatest(r) ==
    /\ client[r] = "await_latest" /\ Answer(r, "not_latest")
    /\ Take(r)
    /\ treeJson' = [treeJson EXCEPT ![r] = buildTree(localDir[Home[r]])]
    /\ Send(r, <<TreeHeader(Head(toClient[r]).ahead), TreeData(treeJson'[r])>>)
    /\ BecomeClient(r, "await_conf")
    /\ UNCHANGED <<serverSide, machineVars, remaining, watching, watchEvents,
                   link>>

OnTreeConfirmation(r) ==
    /\ client[r] = "await_conf" /\ Answer(r, "confirmation")
    /\ Take(r)
    /\ BecomeClient(r, "await_response")
    /\ UNCHANGED <<serverSide, machineVars, treeJson, remaining, watching,
                   watchEvents, toServer, link>>

OnNoSyncNeeded(r) ==
    /\ client[r] = "await_response" /\ Answer(r, "no_sync_needed")
    /\ Take(r)
    /\ Finished(r)
    /\ UNCHANGED <<serverSide, machineVars, treeJson, remaining, watchEvents,
                   toServer, link>>

\* Mutations of FileDone: the loop of handleServerResponse ends a file early
\* (i > 1), or without the break after the last file.
FileDoneEarly(r, i) ==
    IF i <= 2 THEN Finished(r) /\ UNCHANGED remaining
              ELSE /\ BecomeClient(r, "await_next")
                   /\ remaining' = [remaining EXCEPT ![r] = i - 1]
                   /\ UNCHANGED watching

FileDoneLate(r, i) ==
    IF i = 0 THEN Finished(r) /\ UNCHANGED remaining
             ELSE /\ BecomeClient(r, "await_next")
                  /\ remaining' = [remaining EXCEPT ![r] = i - 1]
                  /\ UNCHANGED watching

\* handleServerResponse is done with the i-th last file.
FileDone(r, i) ==
    IF i = 1 THEN Finished(r) /\ UNCHANGED remaining
             ELSE /\ BecomeClient(r, "await_next")
                  /\ remaining' = [remaining EXCEPT ![r] = i - 1]
                  /\ UNCHANGED watching

\* Mutation of OnRequestFile: sendFile does not wait for the confirmation.
OnRequestFileHasty(r) ==
    /\ client[r] \in {"await_response", "await_next"} /\ Answer(r, "request_file")
    /\ LET request == Head(toClient[r])
           dir == localDir[Home[r]]
           i == IF client[r] = "await_response" THEN request.remaining ELSE remaining[r]
       IN  /\ FileDone(r, i)
           /\ IF request.file \in DOMAIN dir
              THEN Send(r, <<FileHeader(request.file), FileData(dir[request.file])>>)
              ELSE UNCHANGED toServer
    /\ Take(r)
    /\ UNCHANGED <<serverSide, machineVars, treeJson, watchEvents, link>>

\* sendFile: a file that cannot be opened is passed over in silence.
OnRequestFile(r) ==
    /\ client[r] \in {"await_response", "await_next"} /\ Answer(r, "request_file")
    /\ LET request == Head(toClient[r])
           dir == localDir[Home[r]]
           i == IF client[r] = "await_response" THEN request.remaining ELSE remaining[r]
       IN  IF request.file \in DOMAIN dir
           THEN /\ Send(r, <<FileHeader(request.file), FileData(dir[request.file])>>)
                /\ BecomeClient(r, "await_fconf")
                /\ remaining' = [remaining EXCEPT ![r] = i]
                /\ UNCHANGED watching
           ELSE FileDone(r, i) /\ UNCHANGED toServer
    /\ Take(r)
    /\ UNCHANGED <<serverSide, machineVars, treeJson, watchEvents, link>>

OnFileConfirmation(r) ==
    /\ client[r] = "await_fconf" /\ toClient[r] # <<>>
    /\ Take(r)
    /\ FileDone(r, remaining[r])
    /\ UNCHANGED <<serverSide, machineVars, treeJson, watchEvents, toServer,
                   link>>

\* receiveMessage returns nothing, for the server has closed the connection.
OnClosed(r) ==
    /\ client[r] \in Awaiting /\ toClient[r] = <<>> /\ link[r] = "gone"
    /\ Finished(r)
    /\ UNCHANGED <<serverSide, machineVars, netVars, treeJson, remaining,
                   watchEvents>>

\* One recv returns two messages: the parse_error ends the sync, and both
\* messages are lost.
OnCoalesced(r) ==
    /\ "coalesce" \in Faults
    /\ client[r] \in Awaiting /\ Len(toClient[r]) > 1
    /\ toClient' = [toClient EXCEPT ![r] = <<>>]
    /\ Finished(r)
    /\ UNCHANGED <<serverSide, machineVars, treeJson, remaining, watchEvents,
                   toServer, link>>

Dies(r) ==
    /\ BecomeClient(r, "dead")
    /\ link' = [link EXCEPT ![r] = "gone"]
    /\ watching' = watching \ {r}
    /\ watchEvents' = [watchEvents EXCEPT ![r] = 0]
    /\ toClient' = [toClient EXCEPT ![r] = <<>>]

\* A client is killed.  What it had not yet written to the socket is never
\* sent: the stream ends anywhere after what the server has read.
KillClient(r) ==
    /\ "crash" \in Faults
    /\ client[r] \notin {"off", "dead"}
    /\ Dies(r)
    /\ \E n \in 0..Len(toServer[r]) :
         toServer' = [toServer EXCEPT ![r] = SubSeq(@, 1, n)]
    /\ UNCHANGED <<serverSide, machineVars, treeJson, remaining>>

\* SIGPIPE in the client: it sends on a connection the server has closed.
ClientBrokenPipe(r) ==
    /\ link[r] = "gone"
    /\ \/ client[r] = "idle" /\ (r \notin watching \/ watchEvents[r] > 0)
       \/ client[r] = "await_latest" /\ Answer(r, "not_latest")
       \/ client[r] \in {"await_response", "await_next"} /\ Answer(r, "request_file")
    /\ Dies(r)
    /\ UNCHANGED <<serverSide, machineVars, treeJson, remaining, toServer>>

-----------------------------------------------------------------------------
(* The users.                                                              *)

\* The machine's directory becomes dir, and the watcher, if active, queues n
\* events.
Change(m, dir, n) ==
    /\ edits < MaxEdits
    /\ edits' = edits + 1
    /\ localDir' = [localDir EXCEPT ![m] = dir]
    /\ watchEvents' = [r \in Runs |-> IF r \in watching /\ Home[r] = m
                                      THEN watchEvents[r] + n ELSE watchEvents[r]]
    /\ UNCHANGED <<serverSide, netVars, notAfter, client, treeJson, remaining,
                   watching>>

Write(m) ==
    /\ "write" \in Edits
    /\ \E n \in Names, c \in Contents :
         /\ n \in DOMAIN localDir[m] => localDir[m][n] # c
         /\ Change(m, Written(localDir[m], n, c), 1)

Delete(m) ==
    /\ "delete" \in Edits
    /\ \E n \in DOMAIN localDir[m] : Change(m, Without(localDir[m], {n}), 1)

Rename(m) ==
    /\ "rename" \in Edits
    /\ \E n \in DOMAIN localDir[m], to \in Names :
         /\ to # n
         /\ Change(m, Written(Without(localDir[m], {n}), to, localDir[m][n]), 2)

-----------------------------------------------------------------------------
ServerStep(r) ==
    \/ IsLatest(r) \/ IsNotLatest(r) \/ CompareTimestamps(r)
    \/ ReceiveTreeHeader(r) \/ AcquireSemaphore(r) \/ ReceiveTree(r)
    \/ ConfirmTree(r) \/ TreeReception(r) \/ TreeReceptionNowhere(r)
    \/ NoSync(r) \/ Request(r) \/ ReceiveFileHeader(r) \/ SkipFile(r)
    \/ ReceiveFile(r) \/ ReceiveTornFile(r) \/ ConfirmFile(r)
    \/ UpdateHash(r) \/ UpdateHashFails(r) \/ UpdateModifiedAt(r)
    \/ ReceiveTornTree(r) \/ ReceiveFileHeaderNowhere(r) \/ CloseConnection(r)

ClientStep(r) ==
    \/ InitiateSync(r) \/ OnLatest(r) \/ OnNotLatest(r)
    \/ OnTreeConfirmation(r) \/ OnNoSyncNeeded(r) \/ OnRequestFile(r)
    \/ OnFileConfirmation(r) \/ OnClosed(r)

Environment(r) ==
    \/ Start(r) \/ ParseError(r) \/ BrokenPipe(r) \/ OnCoalesced(r)
    \/ KillClient(r) \/ ClientBrokenPipe(r)

Edit(m) == Write(m) \/ Delete(m) \/ Rename(m)

Next ==
    \/ \E r \in Runs : ServerStep(r) \/ ClientStep(r) \/ Environment(r)
    \/ \E m \in Machines : Edit(m)
    \/ Kill \/ Restart \/ NextSecond

Spec == Init /\ [][Next]_vars

\* Threads are scheduled and clients run; sem_wait wakes some waiter, no
\* particular one.
Fairness == \A r \in Runs : WF_vars(ServerStep(r)) /\ WF_vars(ClientStep(r))

FairSpec == Spec /\ Fairness

-----------------------------------------------------------------------------
(* Properties.                                                             *)

ProcessOK ==
    /\ running \in BOOLEAN
    /\ semaphore \in {0, 1}
    /\ handler \in [Runs -> HandlerStates]

JobOK ==
    /\ hostname \in [Runs -> {"unread", "files"}]
    /\ ahead \in [Runs -> BOOLEAN]
    /\ addedFiles \in [Runs -> SUBSET (Names \cup {Root})]
    /\ incoming \in [Runs -> Names \cup {Root}]

StoreOK ==
    /\ treeFile \in Trees
    /\ files \in Workspaces
    /\ workspaceHash \in [Users -> Hashes \cup {NoHash}]
    /\ stampedNow \subseteq Users

MachineOK ==
    /\ localDir \in [Machines -> Workspaces]
    /\ edits \in 0..MaxEdits
    /\ notAfter \subseteq Runs

ClientOK ==
    /\ client \in [Runs -> ClientStates]
    /\ treeJson \in [Runs -> Trees]
    /\ remaining \in [Runs -> Nat \ {0}]
    /\ watching \subseteq Runs
    /\ watchEvents \in [Runs -> Nat]

NetOK ==
    /\ toServer \in [Runs -> Seq(ClientMessages)]
    /\ toClient \in [Runs -> Seq(ServerMessages)]
    /\ link \in [Runs -> {"none", "up", "gone"}]

\* The type of every variable.  The semaphore is never posted twice, and a
\* client is never asked for zero files.
TypeOK == ProcessOK /\ JobOK /\ StoreOK /\ MachineOK /\ ClientOK /\ NetOK

Holders == {r \in Runs : handler[r] \in Holding}

\* No two exchanges are in progress at once, and the semaphore is 1 exactly
\* when none is: every path through the tree handler, the early continue and
\* the failures included, posts what it waited for (ClientCommunicator.cpp
\* 271, 303, 345).
OneTransfer ==
    /\ \A r, s \in Holders : r = s
    /\ semaphore = IF Holders = {} THEN 1 ELSE 0

\* The tree a thread is about to compare is the one its own client sent,
\* although every thread receives into, and every buildTree overwrites, the
\* one file tree/tree.json.
ComparesOwnTree ==
    \A r \in Runs :
        /\ handler[r] \in {"confirm_tree", "compare"}
        /\ client[r] \in {"await_conf", "await_response"}
        => treeFile = treeJson[r]

\* The dialogue never slips: whatever a side waits for, the next message it
\* finds is one that its code can parse and expects at this point.  Only a
\* client that waits for the answer to check_latest copes with others.
Dialogue ==
    \A r \in Runs :
        LET next == IF toServer[r] = <<>> THEN "none" ELSE Head(toServer[r]).type
            answer == IF toClient[r] = <<>> THEN "none" ELSE Head(toClient[r]).type
        IN  /\ handler[r] = "poll" => next \in {"none", "check_latest", "tree"}
            /\ handler[r] = "tree_data" => next \in {"none", "tree_data"}
            /\ handler[r] = "await_file" =>
                   next \in {"none", "check_latest", "file_transfer"}
            /\ handler[r] = "file_data" => next \in {"none", "file_data"}
            /\ client[r] \in {"await_conf", "await_fconf"} =>
                   answer \in {"none", "confirmation"}
            /\ client[r] = "await_response" =>
                   answer \in {"none", "no_sync_needed", "request_file"}
            /\ client[r] = "await_next" => answer \in {"none", "request_file"}

\* Every answer to check_latest is an answer: the client is never told
\* something else (HandleSync.cpp 120, "Unexpected server response").
AnswersCheckLatest ==
    \A r \in Runs :
        client[r] = "await_latest" /\ toClient[r] # <<>> =>
            Head(toClient[r]).type \in {"latest", "not_latest"}

Transferring == {"request", "await_file", "file_data", "confirm_file", "rehash"}

\* From the comparison on, and as long as its client stays in the exchange,
\* the server's directory holds, and is about to get, only names the client's
\* tree has, no file is requested that the directory holds, and an exchange
\* that requested files ends with exactly the client's.  The removed nodes are
\* deleted before the first request, no thread brings one back, and no
\* requested file is left out.
MirrorsNames ==
    \A r \in Runs :
        /\ handler[r] \in Transferring /\ ~ahead[r] /\ link[r] = "up"
        => /\ client[r] \in {"await_conf", "await_response", "await_fconf", "await_next"} =>
                 /\ DOMAIN files \cup (addedFiles[r] \ {Root}) \subseteq DOMAIN treeJson[r]
                 /\ addedFiles[r] \cap DOMAIN files = {}
           /\ handler[r] = "rehash" /\ client[r] \in {"await_fconf", "idle"} =>
                 DOMAIN files = DOMAIN treeJson[r]

\* The server requests "files that it doesn't have" (HandleSync.cpp 34): what
\* is still to be requested is not, or no longer, in its directory.
RequestsMissingFiles ==
    \A r \in Runs :
        /\ handler[r] \in Transferring
        /\ client[r] \in {"await_response", "await_fconf", "await_next"}
        => addedFiles[r] \cap DOMAIN files = {}

\* The hash in the workspace table is that of the server's directory whenever
\* no exchange is in progress: "server once receives the files, updates the
\* tree hash" (HandleSync.cpp 21).
HashIsCurrent ==
    running /\ Holders = {} =>
        \A u \in Users : workspaceHash[u] = treeHash(files, ServerOrder)

\* Client and server do not wait for each other with nothing in transit:
\* neither recv has a time limit.
NoMutualWait ==
    \A r \in Runs :
        ~ /\ link[r] = "up" /\ toServer[r] = <<>> /\ toClient[r] = <<>>
          /\ client[r] \in Awaiting
          /\ handler[r] \in {"poll", "tree_data", "await_file", "file_data"}

\* A client is told that it has the latest version only if its directory and
\* the server's are the same: "If there are any differences: [...] client
\* version newer: request file transfer from client" (FileChangeDetector.h 5).
LatestMeansEqual ==
    [][\A r \in Runs :
          /\ toClient'[r] = Append(toClient[r], Latest)
          /\ buildTree(localDir[Home[r]]) = treeJson[r]
          => files = localDir[Home[r]]]_vars

\* A change that the watcher noticed reaches the server: "the sync should be
\* called again to send the files to server (local hash will have later date
\* of modification so [...] server will detect that there are files that it
\* doesn't have and will request these" (HandleSync.cpp 33).
ChangesArrive ==
    \A r \in Runs : watchEvents[r] > 0 ~> files = localDir[Home[r]]

\* It does as long as no sync starts in the second of the account's last
\* stamp: every change during a sync is picked up by a later event, and the
\* exchange that follows does not stop half way.
Untied == \A r \in Runs : client[r] = "await_latest" => r \notin notAfter

UntiedChangesArrive == []Untied => ChangesArrive

\* The semaphore is released in the end: no exchange keeps the others waiting
\* for ever.
Releases == \A r \in Runs : handler[r] \in Holding ~> handler[r] \notin Holding

\* With deletions, lost answers and kills it may be kept for ever, but only by
\* a thread whose client is still there and has nothing to say: no recv that
\* failed, no message the thread could read and no client that has gone away
\* keeps it (ClientCommunicator.cpp 321 and 394).
Starved(r) ==
    /\ handler[r] \in {"await_file", "file_data", "tree_data"}
    /\ link[r] = "up" /\ toServer[r] = <<>> /\ toClient[r] = <<>>
    /\ client[r] \in Awaiting \cup {"idle"}

HeldByStarvedOnly ==
    \A r \in Runs : <>[](handler[r] \in Holding) => <>[]Starved(r)

\* The server implements the exclusive store: see ExclusiveStore.
Store == INSTANCE ExclusiveStore
            WITH holders <- Holders, aware <- {r \in Runs : hostname[r] # "unread"},
                 Owner <- [r \in Runs |-> User(r)]

ImplementsStore == Store!Spec
=============================================================================
