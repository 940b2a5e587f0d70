------------------------------- MODULE Upload -------------------------------
(***************************************************************************)
(* One client's exchange, chunk by chunk and with nested directories.      *)
(*                                                                         *)
(* Sync has the dialogue between all clients and the server, with files of *)
(* a flat directory sent in one step.  This module has one client and its  *)
(* server thread, and goes into what Sync leaves out: the size of a file   *)
(* is measured a second before its data is read, the stream between the    *)
(* two sides is one of bytes, directories are nested on the client and     *)
(* flat on the server, and a tree may have a node that cannot be sent.     *)
(*                                                                         *)
(* The thread holds the semaphore from the tree to the new hash.           *)
(***************************************************************************)
EXTENDS Integers, MerkleTree

CONSTANTS
    Blocks,         \* what a chunk of a file can hold
    ServerOrder,    \* directory_iterator order on the server
    ClientOrder,    \* directory_iterator order on the client
    InitialDirs,    \* directories the client may start with
    InitialFiles,   \* directories the server may start with
    DirectorySizes, \* what tellg says at the end of an opened directory
    Flags,          \* what compareTimestamps may find
    Edits,          \* the kinds of edit the user makes
    MaxEdits,       \* how many edits: bounds the behaviours only
    Crashes         \* the client may be killed

FileNames == {<<n>> : n \in Names}

ASSUME UploadAssumption ==
    /\ Versions \subseteq Seq(Blocks)
    /\ IsOrder(ServerOrder) /\ IsOrder(ClientOrder)
    /\ InitialDirs \subseteq Directories
    /\ \A held \in InitialFiles :
           /\ DOMAIN held \subseteq FileNames
           /\ held \in [DOMAIN held -> Seq(Blocks)]
    /\ DirectorySizes \subseteq Int
    /\ Flags \subseteq BOOLEAN
    /\ Edits \subseteq {"replace", "inplace", "delete", "mkdir"}
    /\ MaxEdits \in Nat
    /\ Crashes \in BOOLEAN

\* A hash is a string of 64 characters and a chunk has 4096 bytes.  Where there
\* are more entries than can be hashed there is no tree.
ASSUME HashAssumption ==
    /\ Dir \notin Seq(Blocks)
    /\ \A dir \in Directories : CanBuildTree(dir) =>
           \A p \in DOMAIN dir \cup {Root} :
               buildTree(dir, ClientOrder)[p].hash \notin Blocks

VARIABLES
    running,        \* the server process is up
    handler,        \* where the thread is in handleClient
    ahead,          \* the flag of the tree message
    addedFiles,     \* the nodes still to be requested, in order
    incoming,       \* the file being received
    files,          \* the server's directory, without subdirectories
    workspaceHash,  \* workspace.workspace_hash of the client's account
    localDir,       \* the client's directory
    edits,          \* edits made so far
    client,         \* where the client is in HandleSync
    sentTree,       \* the tree the client sent last
    opened,         \* the file sendFile has open
    remaining,      \* handleServerResponse's i
    watching,       \* the file watcher is active
    syncsDue,       \* the first sync, then the queued events
    toServer,       \* what the client has sent, chunk by chunk
    toClient,       \* what the server has sent
    link,           \* the connection is up
    mishaps         \* history: what has happened to files on their way

serverVars == <<running, handler, ahead, addedFiles, incoming, files, workspaceHash>>
userVars == <<localDir, edits, syncsDue>>
clientVars == <<client, sentTree, opened, remaining, watching>>
netVars == <<toServer, toClient, link>>
vars == <<serverVars, userVars, clientVars, netVars, mishaps>>

Holding == {"no_sync", "request", "await_file", "file_data", "confirm_file", "rehash"}
Awaiting == {"await_latest", "await_conf", "await_response", "await_fconf", "await_next"}

CheckLatest(hash) == [type |-> "check_latest", hash |-> hash]
Tree(flag, tree) == [type |-> "tree", ahead |-> flag, tree |-> tree]
FileHeader(name, size) == [type |-> "file_transfer", name |-> name, size |-> size]
Block(block) == [type |-> "block", block |-> block]

Answer(type) == [type |-> type]
NotLatest(flag) == [type |-> "not_latest", ahead |-> flag]
RequestFile(path, n) == [type |-> "request_file", path |-> path, remaining |-> n]

Nothing == [path |-> Root, data |-> <<>>, size |-> 0, sent |-> 0, linked |-> FALSE]

Init ==
    /\ running = TRUE
    /\ handler = "poll"
    /\ ahead = FALSE
    /\ addedFiles = <<>>
    /\ incoming = [name |-> Root, size |-> 0, got |-> 0]
    /\ files \in InitialFiles
    /\ workspaceHash = getTreeHash(buildTree(files, ServerOrder))
    /\ localDir \in InitialDirs
    /\ edits = 0
    /\ client = "idle"
    /\ sentTree = buildTree(<<>>, ClientOrder)
    /\ opened = Nothing
    /\ remaining = 1
    /\ watching = FALSE
    /\ syncsDue = 1
    /\ toServer = <<>>
    /\ toClient = <<>>
    /\ link = TRUE
    /\ mishaps = {}

-----------------------------------------------------------------------------
(* The server's thread.                                                    *)

Arrived(type) == toServer # <<>> /\ Head(toServer).type = type

Receive == toServer' = Tail(toServer)

Ended == toServer = <<>> /\ ~ link

Reply(messages) == toClient' = IF link THEN toClient \o messages ELSE toClient

GoTo(state) == handler' = state

\* check_latest: the flag is what compareTimestamps makes of the two stamps.
CheckVersion ==
    /\ handler = "poll" /\ Arrived("check_latest")
    /\ Receive
    /\ IF Head(toServer).hash = workspaceHash
       THEN Reply(<<Answer("latest")>>)
       ELSE \E flag \in Flags : Reply(<<NotLatest(flag)>>)
    /\ UNCHANGED <<serverVars, userVars, clientVars, link, mishaps>>

Own == buildTree(files, ServerOrder)

\* The nodes treeReception takes as removed and returns as added.
Removed(flag, received) ==
    IF flag THEN removedNodes(loadFromFile(received), Own, ClientOrder)
            ELSE removedNodes(Own, loadFromFile(received), ServerOrder)

Added(flag, received) ==
    IF flag THEN addedNodes(loadFromFile(received), Own, ServerOrder)
            ELSE addedNodes(Own, loadFromFile(received), ClientOrder)

\* std::filesystem::remove throws when a component of the path before the
\* last is a regular file; an absent file is no error.
RemoveThrows(removed) ==
    \E i \in DOMAIN removed :
        /\ Len(removed[i]) > 1
        /\ <<removed[i][1]>> \in DOMAIN files \ ToSet(SubSeq(removed, 1, i - 1))

\* The tree is received and confirmed, the two trees are compared, and what
\* the base has and the current tree has not is deleted: no deletion throws,
\* see RemovalsDoNotThrow.
TreeReception ==
    /\ handler = "poll" /\ Arrived("tree")
    /\ Receive
    /\ LET received == Head(toServer).tree
           flag == Head(toServer).ahead
           removed == Removed(flag, received)
       IN  /\ CanBuildTree(files)
           /\ ahead' = flag
           /\ addedFiles' = Added(flag, received)
           /\ files' = [n \in DOMAIN files \ ToSet(removed) |-> files[n]]
           /\ GoTo(IF addedFiles' = <<>> THEN "no_sync" ELSE "request")
    /\ Reply(<<Answer("confirmation")>>)
    /\ UNCHANGED <<running, incoming, workspaceHash, userVars, clientVars, link,
                   mishaps>>

NoSync ==
    /\ handler = "no_sync"
    /\ Reply(<<Answer("no_sync_needed")>>)
    /\ GoTo("poll")
    /\ UNCHANGED <<running, ahead, addedFiles, incoming, files, workspaceHash,
                   userVars, clientVars, toServer, link, mishaps>>

Request ==
    /\ handler = "request"
    /\ Reply(<<RequestFile(Head(addedFiles), Len(addedFiles))>>)
    /\ addedFiles' = Tail(addedFiles)
    /\ GoTo("await_file")
    /\ UNCHANGED <<running, ahead, incoming, files, workspaceHash, userVars,
                   clientVars, toServer, link, mishaps>>

NextFile == GoTo(IF addedFiles = <<>> THEN "rehash" ELSE "request")

\* Mutations of FileIsComplete: the loop reads one chunk too many or too few.
FileIsOverfull(file) == file.got > file.size

FileIsAlmostComplete(file) == file.got + 1 >= file.size

\* The condition of the loop in handleFileReception, negated: a size of -1
\* leaves nothing to receive.
FileIsComplete(file) == file.got >= file.size

\* Mutations of Target: the server keeps the first component of the path, or
\* all of it.
TargetTop(path) == <<path[1]>>

TargetWhole(path) == path

\* The path of a received file: the last component of the one that was sent.
Target(path) == <<path[Len(path)]>>

\* Mutation of ReceiveFileHeader: the file is opened for appending.
ReceiveFileHeaderAppends ==
    /\ handler = "await_file" /\ Arrived("file_transfer")
    /\ Receive
    /\ LET header == Head(toServer)
           name == Target(header.name)
       IN  /\ incoming' = [name |-> name, size |-> header.size, got |-> 0]
           /\ files' = [n \in DOMAIN files \cup {name} |->
                           IF n \in DOMAIN files THEN files[n] ELSE <<>>]
    /\ GoTo(IF FileIsComplete(incoming') THEN "confirm_file" ELSE "file_data")
    /\ UNCHANGED <<running, ahead, addedFiles, workspaceHash, userVars, clientVars,
                   toClient, link, mishaps>>

ReceiveFileHeader ==
    /\ handler = "await_file" /\ Arrived("file_transfer")
    /\ Receive
    /\ LET header == Head(toServer)
           name == Target(header.name)
       IN  /\ incoming' = [name |-> name, size |-> header.size, got |-> 0]
           /\ files' = [n \in DOMAIN files \cup {name} |->
                           IF n = name THEN <<>> ELSE files[n]]
    /\ GoTo(IF FileIsComplete(incoming') THEN "confirm_file" ELSE "file_data")
    /\ UNCHANGED <<running, ahead, addedFiles, workspaceHash, userVars, clientVars,
                   toClient, link, mishaps>>

ReceiveBlock ==
    /\ handler = "file_data" /\ Arrived("block")
    /\ Receive
    /\ files' = [files EXCEPT ![incoming.name] = Append(@, Head(toServer).block)]
    /\ incoming' = [incoming EXCEPT !.got = @ + 1]
    /\ GoTo(IF FileIsComplete(incoming') THEN "confirm_file" ELSE "file_data")
    /\ UNCHANGED <<running, ahead, addedFiles, workspaceHash, userVars, clientVars,
                   toClient, link, mishaps>>

ReceiveTornFile ==
    /\ handler = "file_data" /\ Ended
    /\ NextFile
    /\ UNCHANGED <<running, ahead, addedFiles, incoming, files, workspaceHash,
                   userVars, clientVars, netVars, mishaps>>

ConfirmFile ==
    /\ handler = "confirm_file"
    /\ Reply(<<Answer("confirmation")>>)
    /\ NextFile
    /\ UNCHANGED <<running, ahead, addedFiles, incoming, files, workspaceHash,
                   userVars, clientVars, toServer, link, mishaps>>

\* Mutation of SkipFile: the recv is repeated until metadata comes.
SkipFileRetries ==
    /\ handler = "await_file"
    /\ Arrived("check_latest") /\ Receive
    /\ UNCHANGED <<serverVars, userVars, clientVars, toClient, link, mishaps>>

\* Another message than metadata is dropped, and so is a failed recv.
SkipFile ==
    /\ handler = "await_file"
    /\ \/ Arrived("check_latest") /\ Receive
       \/ Ended /\ UNCHANGED toServer
    /\ NextFile
    /\ UNCHANGED <<running, ahead, addedFiles, incoming, files, workspaceHash,
                   userVars, clientVars, toClient, link, mishaps>>

UpdateHash ==
    /\ handler = "rehash"
    /\ CanBuildTree(files)
    /\ workspaceHash' = getTreeHash(Own)
    /\ GoTo("poll")
    /\ UNCHANGED <<running, ahead, addedFiles, incoming, files, userVars, clientVars,
                   netVars, mishaps>>

CloseConnection ==
    /\ handler = "poll" /\ Ended
    /\ GoTo("closed")
    /\ UNCHANGED <<running, ahead, addedFiles, incoming, files, workspaceHash,
                   userVars, clientVars, netVars, mishaps>>

\* An exception no handler catches, or SIGPIPE, ends the process.
Terminate ==
    /\ running' = FALSE
    /\ handler' = "closed"
    /\ link' = FALSE
    /\ toServer' = <<>>
    /\ UNCHANGED <<ahead, addedFiles, incoming, files, workspaceHash, userVars,
                   clientVars, toClient, mishaps>>

\* Bytes of a file where a message should begin.
ParseError ==
    /\ handler \in {"poll", "await_file"} /\ Arrived("block")
    /\ Terminate

BuildTreeThrows ==
    /\ handler = "rehash" \/ (handler = "poll" /\ Arrived("tree"))
    /\ ~ CanBuildTree(files)
    /\ Terminate

BrokenPipe ==
    /\ ~ link
    /\ \/ handler \in {"no_sync", "request", "confirm_file"}
       \/ handler = "poll" /\ (Arrived("check_latest") \/ Arrived("tree"))
    /\ Terminate

-----------------------------------------------------------------------------
(* The client.                                                             *)

Found(type) == toClient # <<>> /\ Head(toClient).type = type

Take == toClient' = Tail(toClient)

Send(messages) == toServer' = IF link THEN toServer \o messages ELSE toServer

\* A sync ends, and after the first one the watcher starts.
Finished ==
    /\ client' = "idle"
    /\ watching' = TRUE
    /\ opened' = Nothing

Dies ==
    /\ client' = "dead"
    /\ link' = FALSE
    /\ toClient' = <<>>
    /\ opened' = Nothing

LocalTree == buildTree(localDir, ClientOrder)

InitiateSync ==
    /\ client = "idle" /\ syncsDue > 0
    /\ CanBuildTree(localDir)
    /\ syncsDue' = syncsDue - 1
    /\ Send(<<CheckLatest(getTreeHash(LocalTree))>>)
    /\ client' = "await_latest"
    /\ UNCHANGED <<serverVars, localDir, edits, sentTree, opened, remaining, watching,
                   toClient, link, mishaps>>

\* "latest", or a response checkWithServer does not know.
OnLatest ==
    /\ client = "await_latest" /\ toClient # <<>>
    /\ Head(toClient).type # "not_latest"
    /\ Take
    /\ Finished
    /\ UNCHANGED <<serverVars, userVars, sentTree, remaining, toServer, link, mishaps>>

OnNotLatest ==
    /\ client = "await_latest" /\ Found("not_latest")
    /\ CanBuildTree(localDir)
    /\ Take
    /\ sentTree' = LocalTree
    /\ Send(<<Tree(Head(toClient).ahead, LocalTree)>>)
    /\ client' = "await_conf"
    /\ UNCHANGED <<serverVars, userVars, opened, remaining, watching, link, mishaps>>

\* The exception of buildTree passes through initiateSync and ends the client.
LocalTreeThrows ==
    /\ \/ client = "idle" /\ syncsDue > 0
       \/ client = "await_latest" /\ Found("not_latest")
    /\ ~ CanBuildTree(localDir)
    /\ Dies
    /\ UNCHANGED <<serverVars, userVars, sentTree, remaining, watching, toServer,
                   mishaps>>

OnTreeConfirmation ==
    /\ client = "await_conf" /\ Found("confirmation")
    /\ Take
    /\ client' = "await_response"
    /\ UNCHANGED <<serverVars, userVars, sentTree, opened, remaining, watching,
                   toServer, link, mishaps>>

OnNoSyncNeeded ==
    /\ client = "await_response" /\ Found("no_sync_needed")
    /\ Take
    /\ Finished
    /\ UNCHANGED <<serverVars, userVars, sentTree, remaining, toServer, link, mishaps>>

\* handleServerResponse is done with the i-th last file.
FileDone(i) ==
    IF i = 1 THEN Finished /\ UNCHANGED remaining
             ELSE /\ client' = "await_next"
                  /\ remaining' = i - 1
                  /\ opened' = Nothing
                  /\ UNCHANGED watching

Requested ==
    client \in {"await_response", "await_next"} /\ Found("request_file")

RequestCount ==
    IF client = "await_response" THEN Head(toClient).remaining ELSE remaining

\* sendFile opens the node, measures it and sends the metadata.  A directory
\* opens like a file, its size is whatever the file system says, and there is
\* nothing to read in it.
OpenFile ==
    /\ Requested
    /\ LET path == Head(toClient).path
       IN  /\ path \in DOMAIN localDir
           /\ \E size \in IF localDir[path] = Dir THEN DirectorySizes
                                                  ELSE {Len(localDir[path])} :
                /\ opened' = [path |-> path, size |-> size, sent |-> 0, linked |-> TRUE,
                              data |-> IF localDir[path] = Dir THEN <<>> ELSE localDir[path]]
                /\ Send(<<FileHeader(path, size)>>)
                /\ mishaps' = IF size > Len(opened'.data) THEN mishaps \cup {"directory"}
                                                          ELSE mishaps
    /\ remaining' = RequestCount
    /\ Take
    /\ client' = "sending"
    /\ UNCHANGED <<serverVars, userVars, sentTree, watching, link>>

\* A node that cannot be opened is passed over in silence.
OpenFails ==
    /\ Requested
    /\ Head(toClient).path \notin DOMAIN localDir
    /\ FileDone(RequestCount)
    /\ mishaps' = mishaps \cup {"missing"}
    /\ Take
    /\ UNCHANGED <<serverVars, userVars, sentTree, toServer, link>>

SendBlock ==
    /\ client = "sending" /\ opened.sent < Len(opened.data)
    /\ Send(<<Block(opened.data[opened.sent + 1])>>)
    /\ opened' = [opened EXCEPT !.sent = @ + 1]
    /\ UNCHANGED <<serverVars, userVars, client, sentTree, remaining, watching,
                   toClient, link, mishaps>>

\* read finds the end of the file, wherever it is by now.
EndOfFile ==
    /\ client = "sending" /\ opened.sent >= Len(opened.data)
    /\ client' = "await_fconf"
    /\ UNCHANGED <<serverVars, userVars, sentTree, opened, remaining, watching,
                   netVars, mishaps>>

OnFileConfirmation ==
    /\ client = "await_fconf" /\ toClient # <<>>
    /\ Take
    /\ FileDone(remaining)
    /\ UNCHANGED <<serverVars, userVars, sentTree, toServer, link, mishaps>>

OnClosed ==
    /\ client \in Awaiting /\ toClient = <<>> /\ ~ link
    /\ Finished
    /\ UNCHANGED <<serverVars, userVars, sentTree, remaining, netVars, mishaps>>

\* SIGPIPE in the client.
ClientBrokenPipe ==
    /\ ~ link
    /\ \/ client = "idle" /\ syncsDue > 0
       \/ client = "await_latest" /\ Found("not_latest")
       \/ client = "sending"
       \/ Requested
    /\ Dies
    /\ UNCHANGED <<serverVars, userVars, sentTree, remaining, watching, toServer,
                   mishaps>>

\* What the server has not read by then may be lost.
KillClient ==
    /\ Crashes
    /\ client # "dead"
    /\ Dies
    /\ \E n \in 0..Len(toServer) : toServer' = SubSeq(toServer, 1, n)
    /\ UNCHANGED <<serverVars, userVars, sentTree, remaining, watching, mishaps>>

-----------------------------------------------------------------------------
(* The user.  The watcher sees the top directory only.                     *)

Edit(p, dir) ==
    /\ edits < MaxEdits
    /\ edits' = edits + 1
    /\ localDir' = dir
    /\ syncsDue' = IF watching /\ client # "dead" /\ Len(p) = 1 THEN syncsDue + 1
                                                                ELSE syncsDue
    /\ UNCHANGED <<serverVars, client, sentTree, remaining, watching, netVars>>

Put(p, entry) ==
    [q \in DOMAIN localDir \cup {p} |-> IF q = p THEN entry ELSE localDir[q]]

IsOpen(p) == client = "sending" /\ opened.linked /\ opened.path = p

Unlink(p) == opened' = IF IsOpen(p) THEN [opened EXCEPT !.linked = FALSE] ELSE opened

Room(p) == Len(p) = 1 \/ (Front(p) \in DOMAIN localDir /\ localDir[Front(p)] = Dir)

\* A new file, or one that is written elsewhere and renamed into place.
Replace ==
    /\ "replace" \in Edits
    /\ \E p \in Paths, c \in Versions :
         /\ Room(p)
         /\ p \in DOMAIN localDir => localDir[p] \notin {Dir, c}
         /\ Edit(p, Put(p, c))
         /\ Unlink(p)
    /\ UNCHANGED mishaps

\* A file is written in place, perhaps while sendFile has it open.
Overwrite ==
    /\ "inplace" \in Edits
    /\ \E p \in DOMAIN localDir, c \in Versions :
         /\ localDir[p] \notin {Dir, c}
         /\ Edit(p, Put(p, c))
         /\ IF IsOpen(p)
            THEN /\ opened' = [opened EXCEPT !.data = c]
                 /\ mishaps' = mishaps \cup {"rewritten"}
                        \cup (IF Len(c) > opened.size THEN {"grown"} ELSE {})
                        \cup (IF Len(c) < opened.size THEN {"shrunk"} ELSE {})
            ELSE UNCHANGED <<opened, mishaps>>

Delete ==
    /\ "delete" \in Edits
    /\ \E p \in DOMAIN localDir :
         /\ children(DOMAIN localDir, p, NameOrder) = <<>>
         /\ Edit(p, [q \in DOMAIN localDir \ {p} |-> localDir[q]])
         /\ Unlink(p)
    /\ UNCHANGED mishaps

MakeDirectory ==
    /\ "mkdir" \in Edits
    /\ \E p \in Paths \ DOMAIN localDir :
         /\ Room(p)
         /\ Edit(p, Put(p, Dir))
    /\ UNCHANGED <<opened, mishaps>>

-----------------------------------------------------------------------------
ServerStep ==
    \/ CheckVersion \/ TreeReception \/ NoSync \/ Request \/ ReceiveFileHeader
    \/ ReceiveBlock \/ ReceiveTornFile \/ ConfirmFile \/ SkipFile \/ UpdateHash
    \/ CloseConnection \/ ParseError \/ BuildTreeThrows

ClientStep ==
    \/ InitiateSync \/ OnLatest \/ OnNotLatest \/ LocalTreeThrows
    \/ OnTreeConfirmation \/ OnNoSyncNeeded \/ OpenFile \/ OpenFails \/ SendBlock
    \/ EndOfFile \/ OnFileConfirmation \/ OnClosed

Environment == BrokenPipe \/ ClientBrokenPipe \/ KillClient

User == Replace \/ Overwrite \/ Delete \/ MakeDirectory

Next == ServerStep \/ ClientStep \/ Environment \/ User

Spec == Init /\ [][Next]_vars

Fairness == WF_vars(ServerStep) /\ WF_vars(ClientStep)

FairSpec == Spec /\ Fairness
-----------------------------------------------------------------------------
(* Properties.  The environment is allowed everything; the properties name *)
(* the mishap without which a failure does not happen.                     *)

Trees ==
    {buildTree(dir, ClientOrder) : dir \in {d \in Directories : CanBuildTree(d)}}

Mishaps == {"missing", "directory", "rewritten", "grown", "shrunk"}

\* The type of every variable; the server's directory stays flat.
TypeOK ==
    /\ running \in BOOLEAN /\ ahead \in BOOLEAN /\ watching \in BOOLEAN /\ link \in BOOLEAN
    /\ handler \in Holding \cup {"poll", "closed"}
    /\ client \in Awaiting \cup {"idle", "sending", "dead"}
    /\ addedFiles \in Seq(Paths \cup FileNames \cup {Root})
    /\ incoming \in [name : FileNames \cup {Root}, size : Int, got : Nat]
    /\ DOMAIN files \subseteq FileNames
    /\ \A n \in DOMAIN files : files[n] \in Seq(Blocks)
    /\ localDir \in Directories
    /\ sentTree \in Trees
    /\ opened.path \in Paths \cup {Root} /\ opened.data \in Versions \cup {<<>>}
    /\ opened.size \in Int /\ opened.sent \in Nat /\ opened.linked \in BOOLEAN
    /\ edits \in 0..MaxEdits /\ syncsDue \in Nat /\ remaining \in Nat \ {0}
    /\ mishaps \subseteq Mishaps

\* Neither recv has a time limit.  Client and server wait for each other with
\* nothing in transit only after one of three things: a requested node could
\* not be opened (sendFile returns without a message), it was a directory
\* that announces more than can be read of it, or it lost chunks after it was
\* measured (ServerCommunicator.cpp 106).
WaitsHaveCause ==
    /\ link /\ toServer = <<>> /\ toClient = <<>>
    /\ client \in Awaiting /\ handler \in {"poll", "await_file", "file_data"}
    => mishaps \cap {"missing", "directory", "shrunk"} # {}

\* The server's process ends only when the client has gone away, when a file
\* grew after it was measured, so that its bytes are read as a message, or
\* when the directory has more entries than can be hashed.
EndHasCause ==
    \/ running
    \/ client = "dead"
    \/ "grown" \in mishaps
    \/ ~ CanBuildTree(files)

\* What the server has stored of a file when it confirms it is what the client
\* opened, all of it and nothing else, although the file may have been
\* replaced or deleted by name meanwhile and files of one name in different
\* directories land in one; only writing into the open file tears it.
StoresWhatWasOpened ==
    handler = "confirm_file" /\ link /\ "rewritten" \notin mishaps =>
        files[incoming.name] = opened.data /\ incoming.name = <<Last(opened.path)>>

\* An exchange that compared the right way round ends with the server holding
\* the last components of the paths in the client's tree, no more and no
\* fewer: nothing that was removed comes back through a file of the same name
\* in another directory, and no node is left out (ClientCommunicator.cpp 373).
MirrorsLastComponents ==
    /\ handler = "rehash" /\ ~ ahead
    /\ client \in Awaiting \cup {"idle", "sending"} /\ "missing" \notin mishaps
    => DOMAIN files = {<<Last(p)>> : p \in DOMAIN sentTree \ {Root}}

\* treeReception deletes the removed nodes one by one with calls that throw on
\* a path through a regular file: with parents before their children, and the
\* server's directory flat, none does.
RemovalsDoNotThrow ==
    handler = "poll" /\ Arrived("tree") =>
        ~ RemoveThrows(Removed(Head(toServer).ahead, Head(toServer).tree))

\* Whatever trees the exchange gets to compare, the report is exact and the
\* detector would not have missed a difference.
ComparisonIsExact ==
    handler = "poll" /\ Arrived("tree") =>
        LET received == loadFromFile(Head(toServer).tree)
        IN  /\ ReportIsExact(received, Own)
            /\ ReportIsExact(Own, received)
            /\ DetectorMissesNothing(received, Own)
            /\ DetectorMissesNothing(Own, received)

\* On a flat directory the comparison is the one Sync uses.
Flat == INSTANCE Workspace WITH
            Names <- FileNames, Chunks <- Seq(Blocks), NoChunks <- <<>>,
            Tails <- {0}, NoTail <- 0

Hashes(tree) == [n \in DOMAIN tree \ {Root} |-> tree[n].hash]

AgreesOnFlatTrees ==
    handler = "poll" /\ Arrived("tree") =>
        LET received == Head(toServer).tree
        IN  DOMAIN received \subseteq FileNames \cup {Root} =>
                \A flag \in BOOLEAN :
                    LET base == Hashes(IF flag THEN received ELSE Own)
                        current == Hashes(IF flag THEN Own ELSE received)
                    IN  /\ ToSet(Added(flag, received)) \ {Root} = Flat!AddedNodes(base, current)
                        /\ ToSet(Removed(flag, received)) \ {Root} = Flat!RemovedNodes(base, current)

\* The semaphore is given back in the end, also when the client goes away in
\* the middle of a file, unless one of the mishaps makes both sides wait.
GetsAway == handler \in Holding ~>
    handler \notin Holding \/ mishaps \cap {"missing", "directory", "shrunk"} # {}
=============================================================================
