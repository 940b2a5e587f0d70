------------------------------ MODULE Download ------------------------------
(***************************************************************************)
(* The initial download: a user who answers "y" at the start gets the      *)
(* server's files before the first sync, into "files" of the directory the *)
(* client was started in.                                                  *)
(*                                                                         *)
(* One client and its server thread, chunk by chunk, through a connection  *)
(* whose buffers hold Capacity messages and chunks: send blocks when they  *)
(* are full.  The server sends every file it has; the client counts to     *)
(* Expected, five in the code.  Other threads carry out exchanges, each    *)
(* between sem_wait and sem_post, and change files meanwhile.              *)
(***************************************************************************)
EXTENDS Naturals, Sequences, FiniteSets

CONSTANTS
    Names,          \* file names: at most 255 bytes each, so finitely many
    Blocks,         \* what a chunk of a file can hold
    Contents,       \* what files can hold: sequences of chunks
    InitialFiles,   \* directories the server may start with
    LocalFiles,     \* what is in it before the download
    Expected,       \* the number of files receiveFile waits for
    Capacity,       \* what fits into the buffers of the connection
    MaxExchanges,   \* exchanges of other clients: bounds the behaviours only
    MaxSyncs,       \* syncs after the download: bounds the behaviours only
    Faults          \* "coalesce": one recv returns several messages,
                    \* "crash": either process may be killed

Directories == UNION {[held -> Contents] : held \in SUBSET Names}

ASSUME DownloadAssumption ==
    /\ Names # {} /\ IsFiniteSet(Names)
    /\ Contents \subseteq Seq(Blocks)
    /\ InitialFiles \subseteq Directories
    /\ LocalFiles \in Directories
    /\ Expected \in Nat \ {0} /\ Capacity \in Nat \ {0}
    /\ MaxExchanges \in Nat /\ MaxSyncs \in Nat
    /\ Faults \subseteq {"coalesce", "crash"}

VARIABLES
    semaphore,      \* ClientCommunicator::semaphore
    handler,        \* where the thread is in handleClient and FindAllFiles
    listing,        \* files FindAllFiles has still to send, in any order
    reading,        \* the file sendFile reads, and how far it is
    files,          \* the server's directory
    exchange,       \* another thread is between sem_wait and sem_post
    exchanges,      \* how many have been
    snapshot,       \* history: files when the download got the semaphore
    client,         \* where the client is in receiveFile and after it
    wanted,         \* files receiveFile still waits for
    incoming,       \* the file being received, and what is left of it
    localDir,       \* the directory "files" of the client
    syncs,          \* syncs the client has begun
    toServer,       \* what the client has sent
    toClient,       \* what the server has sent, chunk by chunk
    link            \* the connection is up

storeVars == <<semaphore, files, exchange, exchanges, snapshot>>
threadVars == <<handler, listing, reading>>
clientVars == <<client, wanted, incoming, localDir, syncs>>
netVars == <<toServer, toClient, link>>
vars == <<storeVars, threadVars, clientVars, netVars>>

Sending == {"list", "send_data"}
Receiving == {"await_metadata", "receive"}

Requests == {"file_transfer", "check_latest"}

Metadata(name, size) == [type |-> "metadata", name |-> name, size |-> size]
Block(block) == [type |-> "block", block |-> block]
Answer == [type |-> "answer"]
Messages == [type : {"metadata"}, name : Names, size : Nat]
            \cup [type : {"block"}, block : Blocks] \cup {Answer}

Init ==
    /\ semaphore = 1
    /\ handler = "poll"
    /\ listing = {}
    /\ reading = [name |-> CHOOSE n \in Names : TRUE, sent |-> 0]
    /\ files \in InitialFiles
    /\ exchange = FALSE
    /\ exchanges = 0
    /\ snapshot = files
    /\ client = "prompt"
    /\ wanted = Expected
    /\ incoming = [name |-> CHOOSE n \in Names : TRUE, left |-> 0]
    /\ localDir = LocalFiles
    /\ syncs = 0
    /\ toServer = <<>>
    /\ toClient = <<>>
    /\ link = TRUE

-----------------------------------------------------------------------------
(* The server's thread.                                                    *)

Arrived(type) == toServer # <<>> /\ Head(toServer) = type

\* send returns once the message is in the buffers.
Sends(message) ==
    /\ link /\ Len(toClient) < Capacity
    /\ toClient' = Append(toClient, message)

ReceiveRequest ==
    /\ handler = "poll" /\ Arrived("file_transfer")
    /\ toServer' = Tail(toServer)
    /\ handler' = "wait"
    /\ UNCHANGED <<storeVars, listing, reading, clientVars, toClient, link>>

AcquireSemaphore ==
    /\ handler = "wait" /\ semaphore > 0
    /\ semaphore' = semaphore - 1
    /\ snapshot' = files
    /\ listing' = DOMAIN files
    /\ handler' = "list"
    /\ UNCHANGED <<files, exchange, exchanges, reading, clientVars, netVars>>

\* The file f is opened, measured and announced.
Announce(f) ==
    /\ handler = "list" /\ f \in listing
    /\ Sends(Metadata(f, Len(files[f])))
    /\ reading' = [name |-> f, sent |-> 0]
    /\ handler' = "send_data"
    /\ UNCHANGED <<storeVars, clientVars, toServer, link>>

\* Mutation of SendMetadata: the iterator is not advanced.
SendMetadataAgain == \E f \in listing : Announce(f) /\ UNCHANGED listing

SendMetadata == \E f \in listing : Announce(f) /\ listing' = listing \ {f}

SendBlock ==
    /\ handler = "send_data" /\ reading.sent < Len(files[reading.name])
    /\ Sends(Block(files[reading.name][reading.sent + 1]))
    /\ reading' = [reading EXCEPT !.sent = @ + 1]
    /\ UNCHANGED <<storeVars, handler, listing, clientVars, toServer, link>>

\* Mutation of EndOfFile: sem_post after every file.
EndOfFileReleases ==
    /\ handler = "send_data" /\ reading.sent >= Len(files[reading.name])
    /\ semaphore' = semaphore + 1
    /\ handler' = "list"
    /\ UNCHANGED <<files, exchange, exchanges, snapshot, listing, reading, clientVars,
                   netVars>>

EndOfFile ==
    /\ handler = "send_data" /\ reading.sent >= Len(files[reading.name])
    /\ handler' = "list"
    /\ UNCHANGED <<storeVars, listing, reading, clientVars, netVars>>

ReleaseSemaphore ==
    /\ handler = "list" /\ listing = {}
    /\ semaphore' = semaphore + 1
    /\ handler' = "poll"
    /\ UNCHANGED <<files, exchange, exchanges, snapshot, listing, reading, clientVars,
                   netVars>>

\* check_latest of the syncs that follow; which answer it is belongs to Sync.
AnswerCheckLatest ==
    /\ handler = "poll" /\ Arrived("check_latest")
    /\ Sends(Answer)
    /\ toServer' = Tail(toServer)
    /\ UNCHANGED <<storeVars, threadVars, clientVars, link>>

CloseConnection ==
    /\ handler = "poll" /\ toServer = <<>> /\ ~ link
    /\ handler' = "closed"
    /\ UNCHANGED <<storeVars, listing, reading, clientVars, netVars>>

\* The process ends; the files stay.
Terminate ==
    /\ handler' = "closed"
    /\ link' = FALSE
    /\ toServer' = <<>>
    /\ exchange' = FALSE
    /\ UNCHANGED <<semaphore, files, exchanges, snapshot, listing, reading, clientVars,
                   toClient>>

\* SIGPIPE: the client has gone away.
BrokenPipe ==
    /\ ~ link
    /\ \/ handler = "list" /\ listing # {}
       \/ handler = "send_data" /\ reading.sent < Len(files[reading.name])
       \/ handler = "poll" /\ Arrived("check_latest")
    /\ Terminate

Kill == "crash" \in Faults /\ handler # "closed" /\ Terminate

-----------------------------------------------------------------------------
(* The other threads: see Sync and Upload for what they do.                *)

BeginExchange ==
    /\ handler # "closed" /\ ~ exchange /\ semaphore > 0
    /\ exchanges < MaxExchanges
    /\ semaphore' = semaphore - 1
    /\ exchange' = TRUE
    /\ exchanges' = exchanges + 1
    /\ UNCHANGED <<files, snapshot, threadVars, clientVars, netVars>>

ChangeFiles ==
    /\ exchange
    /\ \/ \E n \in DOMAIN files : files' = [m \in DOMAIN files \ {n} |-> files[m]]
       \/ \E n \in Names, c \in Contents :
              files' = [m \in DOMAIN files \cup {n} |-> IF m = n THEN c ELSE files[m]]
    /\ UNCHANGED <<semaphore, exchange, exchanges, snapshot, threadVars, clientVars,
                   netVars>>

EndExchange ==
    /\ exchange
    /\ semaphore' = semaphore + 1
    /\ exchange' = FALSE
    /\ UNCHANGED <<files, exchanges, snapshot, threadVars, clientVars, netVars>>

-----------------------------------------------------------------------------
(* The client.                                                             *)

Found(type) == toClient # <<>> /\ Head(toClient).type = type

Take == toClient' = Tail(toClient)

Send(message) == toServer' = IF link THEN Append(toServer, message) ELSE toServer

Dies ==
    /\ client' = "dead"
    /\ link' = FALSE
    /\ toClient' = <<>>

RequestFiles ==
    /\ client = "prompt"
    /\ Send("file_transfer")
    /\ client' = "await_metadata"
    /\ UNCHANGED <<storeVars, threadVars, wanted, incoming, localDir, syncs, toClient,
                   link>>

\* Mutation of FileReceived: the loop counts one file too many.
FileReceivedLate ==
    /\ wanted' = wanted - 1
    /\ client' = IF wanted = 0 THEN "ready" ELSE "await_metadata"

\* One turn of the loop over i ends; after the last, receiveFile returns.
FileReceived ==
    /\ wanted' = wanted - 1
    /\ client' = IF wanted = 1 THEN "ready" ELSE "await_metadata"

\* A local file of that name is truncated before any data comes.
OnMetadata ==
    /\ client = "await_metadata" /\ Found("metadata")
    /\ Take
    /\ LET header == Head(toClient)
       IN  /\ incoming' = [name |-> header.name, left |-> header.size]
           /\ localDir' = [n \in DOMAIN localDir \cup {header.name} |->
                              IF n = header.name THEN <<>> ELSE localDir[n]]
           /\ IF header.size = 0 THEN FileReceived
                                 ELSE client' = "receive" /\ UNCHANGED wanted
    /\ UNCHANGED <<storeVars, threadVars, syncs, toServer, link>>

\* Mutation of OnBlock: the loop ends before the last chunk.
OnBlockShort ==
    /\ client = "receive" /\ Found("block")
    /\ Take
    /\ localDir' = [localDir EXCEPT ![incoming.name] = Append(@, Head(toClient).block)]
    /\ incoming' = [incoming EXCEPT !.left = @ - 1]
    /\ IF incoming.left <= 2 THEN FileReceived ELSE UNCHANGED <<client, wanted>>
    /\ UNCHANGED <<storeVars, threadVars, syncs, toServer, link>>

OnBlock ==
    /\ client = "receive" /\ Found("block")
    /\ Take
    /\ localDir' = [localDir EXCEPT ![incoming.name] = Append(@, Head(toClient).block)]
    /\ incoming' = [incoming EXCEPT !.left = @ - 1]
    /\ IF incoming.left = 1 THEN FileReceived ELSE UNCHANGED <<client, wanted>>
    /\ UNCHANGED <<storeVars, threadVars, syncs, toServer, link>>

Lost == toClient = <<>> /\ ~ link

\* receiveFile returns false, and the caller goes on to the first sync.
MetadataLost ==
    /\ client = "await_metadata" /\ Lost
    /\ client' = "ready"
    /\ UNCHANGED <<storeVars, threadVars, wanted, incoming, localDir, syncs, netVars>>

\* Mutation of DataLost: "Optionally, remove the partially written file".
DataLostKeepsFile ==
    /\ client = "receive" /\ Lost
    /\ client' = "ready"
    /\ UNCHANGED <<storeVars, threadVars, wanted, incoming, localDir, syncs, netVars>>

DataLost ==
    /\ client = "receive" /\ Lost
    /\ localDir' = [n \in DOMAIN localDir \ {incoming.name} |-> localDir[n]]
    /\ client' = "ready"
    /\ UNCHANGED <<storeVars, threadVars, wanted, incoming, syncs, netVars>>

\* One recv returns metadata and what follows it: the parser's exception
\* passes through initiateStart and ends the client.
ParseError ==
    /\ "coalesce" \in Faults
    /\ client = "await_metadata" /\ Len(toClient) > 1
    /\ Dies
    /\ UNCHANGED <<storeVars, threadVars, wanted, incoming, localDir, syncs, toServer>>

\* initiateSync: the first one after receiveFile, then one per event.
InitiateSync ==
    /\ client = "ready" \/ (client = "idle" /\ syncs < MaxSyncs)
    /\ syncs' = IF client = "idle" THEN syncs + 1 ELSE syncs
    /\ Send("check_latest")
    /\ client' = "await_latest"
    /\ UNCHANGED <<storeVars, threadVars, wanted, incoming, localDir, toClient, link>>

\* Whatever comes is taken for the answer; what is not one ends the sync.
OnAnswer ==
    /\ client = "await_latest"
    /\ \/ toClient # <<>> /\ Take
       \/ Lost /\ UNCHANGED toClient
    /\ client' = "idle"
    /\ UNCHANGED <<storeVars, threadVars, wanted, incoming, localDir, syncs, toServer,
                   link>>

\* SIGPIPE in the client.
ClientBrokenPipe ==
    /\ ~ link
    /\ client \in {"prompt", "ready"} \/ (client = "idle" /\ syncs < MaxSyncs)
    /\ Dies
    /\ UNCHANGED <<storeVars, threadVars, wanted, incoming, localDir, syncs, toServer>>

KillClient ==
    /\ "crash" \in Faults
    /\ client # "dead"
    /\ Dies
    /\ UNCHANGED <<storeVars, threadVars, wanted, incoming, localDir, syncs, toServer>>

-----------------------------------------------------------------------------
ServerStep ==
    \/ ReceiveRequest \/ AcquireSemaphore \/ SendMetadata \/ SendBlock \/ EndOfFile
    \/ ReleaseSemaphore \/ AnswerCheckLatest \/ CloseConnection \/ BrokenPipe

ClientStep ==
    \/ RequestFiles \/ OnMetadata \/ OnBlock \/ MetadataLost \/ DataLost
    \/ OnAnswer \/ (client = "ready" /\ InitiateSync)

OtherThreads == BeginExchange \/ ChangeFiles \/ EndExchange

Environment == Kill \/ ParseError \/ ClientBrokenPipe \/ KillClient

Next ==
    ServerStep \/ ClientStep \/ OtherThreads \/ Environment
    \/ (client = "idle" /\ InitiateSync)

Spec == Init /\ [][Next]_vars

\* Threads are scheduled and the client runs.  Nobody promises when a thread
\* that waits for the semaphore gets it, and users need not cause any event.
Fairness == WF_vars(ServerStep) /\ WF_vars(ClientStep)

FairSpec == Spec /\ Fairness

-----------------------------------------------------------------------------
(* Properties.                                                             *)

StoreOK ==
    /\ semaphore \in {0, 1}
    /\ files \in Directories /\ snapshot \in Directories
    /\ exchange \in BOOLEAN /\ exchanges \in 0..MaxExchanges

ThreadOK ==
    /\ handler \in Sending \cup {"poll", "wait", "closed"}
    /\ listing \subseteq Names
    /\ reading \in [name : Names, sent : Nat]

ClientOK ==
    /\ client \in Receiving \cup {"prompt", "ready", "await_latest", "idle", "dead"}
    /\ wanted \in 0..Expected
    /\ incoming \in [name : Names, left : Nat]
    /\ DOMAIN localDir \subseteq Names
    /\ \A n \in DOMAIN localDir : localDir[n] \in Seq(Blocks)
    /\ syncs \in 0..MaxSyncs

NetOK ==
    /\ toServer \in Seq(Requests)
    /\ toClient \in Seq(Messages) /\ Len(toClient) <= Capacity
    /\ link \in BOOLEAN

\* The type of every variable; the semaphore is never posted twice, and the
\* client never counts below zero.
TypeOK == StoreOK /\ ThreadOK /\ ClientOK /\ NetOK

\* What a download sends is the directory at one moment: nobody changes a file
\* from its first metadata to its last chunk, although that takes a second
\* per file and the others go on meanwhile.
SendsOneMoment == handler \in Sending => files = snapshot

\* Once receiveFile has returned, and however it has, the client has no half
\* file: each is the server's version or the one it had before.
NoHalfFiles ==
    client \in {"ready", "await_latest", "idle"} =>
        \A n \in DOMAIN localDir :
            \/ n \in DOMAIN snapshot /\ localDir[n] = snapshot[n]
            \/ n \in DOMAIN LocalFiles /\ localDir[n] = LocalFiles[n]

\* A server with exactly as many files as the client counts to is downloaded
\* completely, and no byte of a file is left for the sync that follows.
\* (ServerCommunicator.cpp 49: with more, the rest is read as answers.)
FilesAreNoAnswers ==
    /\ client \in {"ready", "await_latest", "idle"} /\ wanted = 0
    /\ Cardinality(DOMAIN snapshot) <= Expected
    => /\ \A n \in DOMAIN snapshot : n \in DOMAIN localDir /\ localDir[n] = snapshot[n]
       /\ \A i \in DOMAIN toClient : toClient[i] = Answer

\* The semaphore comes back, unless the server has more files than the client
\* reads: the rest fills the buffers and send blocks for ever.
ServerGetsAway ==
    handler \in Sending ~>
        handler \notin Sending \/ Cardinality(DOMAIN snapshot) > Expected

\* A download that has begun ends, unless the server has fewer files than the
\* client counts to: then it waits for a file that does not come.
ClientGetsAway ==
    client \in Receiving /\ handler \in Sending ~>
        client \notin Receiving \/ Cardinality(DOMAIN snapshot) < Expected
=============================================================================
