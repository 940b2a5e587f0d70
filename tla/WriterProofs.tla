---------------------------- MODULE WriterProofs ----------------------------
(***************************************************************************)
(* One machine of one account that only writes, in an environment without  *)
(* failures: the hash in the workspace table is that of the server's       *)
(* directory between exchanges, and "latest" is said only of the same      *)
(* directory.                                                              *)
(*                                                                         *)
(* Both rest on where names are: the server has, and is about to get, only *)
(* names of the client's tree.  So an exchange that requests nothing has   *)
(* nothing to delete, and two directories with one hash have one set of    *)
(* names, though the hash does not mention them.                           *)
(***************************************************************************)
EXTENDS MirrorProofs, WellFoundedInduction

-----------------------------------------------------------------------------
(* The stored hash is current.                                             *)

\* One machine, which writes files and deletes none; the environment does not
\* fail; and the account was registered when the two directories had one hash.
SingleWriter ==
    /\ \A m, n \in Machines : m = n
    /\ Edits \subseteq {"write"}
    /\ Faults \subseteq {"tie"}
    /\ \A m \in Machines :
           /\ DOMAIN InitialFiles \subseteq DOMAIN InitialDir[m]
           /\ treeHash(InitialDir[m], ClientOrder) = treeHash(InitialFiles, ServerOrder)

\* No process has ended.
Lasting == running /\ \A r \in Runs : client[r] # "dead" /\ link[r] # "gone"

\* Every login has read the hostname.
Aware == \A r \in Runs : client[r] # "off" => hostname[r] # "unread"

\* No other run has begun.
Sole(r) == \A s \in Runs \ {r} : client[s] = "off"

Known(r) == DOMAIN treeJson[r]

KnownFiles(known) ==
    {m \in ClientMessages : m.type = "file_transfer" => m.file \in known}
KnownRequests(known) ==
    {m \in ServerMessages : m.type = "request_file" => m.file \in known \cup {Root}}

\* The server has, requests and gets only names that the client's tree has.
Inside(r) ==
    /\ DOMAIN files \subseteq Known(r)
    /\ addedFiles[r] \subseteq Known(r) \cup {Root}
    /\ handler[r] = "file_data" => incoming[r] \in Known(r)
    /\ toServer[r] \in Seq(KnownFiles(Known(r)))
    /\ toClient[r] \in Seq(KnownRequests(Known(r)))

Within(r) ==
    /\ Known(r) \subseteq DOMAIN localDir[Home[r]]
    /\ client[r] # "off" => Sole(r)
    /\ Sole(r) => Inside(r)

\* The stored hash is current before the comparison and from UpdateHash on.
Current ==
    (\A r \in Runs : handler[r] \notin Transferring) =>
        \A u \in Users : workspaceHash[u] = treeHash(files, ServerOrder)

WInv == DInv /\ Lasting /\ Aware /\ (\A r \in Runs : Within(r)) /\ Current

LEMMA WriterInitially ==
    ASSUME SingleWriter, Init
    PROVE  WInv
<1>1. DInv /\ Lasting /\ Aware
  BY AtTheOutset DEF Init, Lasting, Aware
<1>2. ASSUME NEW r \in Runs
      PROVE  Within(r)
  <2>1. /\ client[r] = "off" /\ handler[r] = "none" /\ addedFiles[r] = {}
        /\ toServer[r] = <<>> /\ toClient[r] = <<>> /\ files = InitialFiles
        /\ treeJson[r] = buildTree(InitialDir[Home[r]]) /\ localDir = InitialDir
    BY DEF Init
  <2>2. Home[r] \in Machines /\ InitialDir[Home[r]] \in Workspaces
    BY EnvironmentAssumption, DirectoryAssumption
  <2>3. Known(r) = DOMAIN InitialDir[Home[r]]
    BY <2>1, <2>2, BuildTreeType DEF Known
  <2>4. DOMAIN files \subseteq Known(r)
    BY <2>1, <2>2, <2>3 DEF SingleWriter
  <2>5. \A S : <<>> \in Seq(S)
    OBVIOUS
  <2>6. Inside(r)
    BY <2>1, <2>4, <2>5 DEF Inside
  <2> QED
    BY <2>1, <2>3, <2>6 DEF Within
<1>3. Current
  <2>1. ASSUME NEW u \in Users
        PROVE  workspaceHash[u] = treeHash(files, ServerOrder)
    <3>1. PICK m \in Machines : workspaceHash[u] = treeHash(InitialDir[m], ClientOrder)
      BY DEF Init
    <3> QED
      BY <3>1 DEF Init, SingleWriter
  <2> QED
    BY <2>1 DEF Current
<1> QED
  BY <1>1, <1>2, <1>3 DEF WInv

\* One step of the one thread.
LEMMA WriterThread ==
    ASSUME SingleWriter, WInv, NEW q \in Runs, Works(q)
    PROVE  /\ client[q] # "off" /\ Sole(q) /\ link[q] = "up"
           /\ UNCHANGED <<running, client, link, treeJson, localDir, hostname>>
           /\ Inside(q) /\ (handler[q] = "compare" => treeFile = treeJson[q])
           /\ \A r \in Runs : r # q => handler'[r] = handler[r] /\ handler[r] = "none"
<1>1. DInv /\ IInv /\ RunInv(q) /\ Within(q) /\ client[q] # "dead" /\ link[q] # "gone"
  BY DEF WInv, DInv, Lasting
<1>2. handler[q] \notin {"none", "closed"}
  BY WorksAt
<1>3. client[q] # "off" /\ Sole(q) /\ Inside(q)
  BY <1>1, <1>2 DEF RunInv, Connected, Within
<1>4. link[q] = "up"
  <2>1. link[q] \in {"none", "up", "gone"}
    BY <1>1 DEF IInv, TypeOK, NetOK
  <2> QED
    BY <1>1, <1>3, <2>1 DEF RunInv, Connected
<1>5. handler[q] = "compare" => treeFile = treeJson[q]
  BY <1>1, <1>3, <1>4, InExchange DEF Alive
<1>6. UNCHANGED <<client, link, treeJson>> /\ \A r \in Runs : r # q => handler'[r] = handler[r]
  BY <1>1, WorksAlone DEF Moves
<1>7. UNCHANGED <<running, localDir, hostname>>
  BY DEF Works, IsLatest, IsNotLatest, CompareTimestamps, ReceiveTreeHeader, AcquireSemaphore,
         ReceiveTree, ConfirmTree, TreeReception, TreeReceptionNowhere, NoSync, Request,
         ReceiveFileHeader, SkipFile, ReceiveFile, ReceiveTornFile, ConfirmFile, UpdateHash,
         UpdateHashFails, UpdateModifiedAt, CloseConnection, clientSide, machineVars, processVars,
         jobVars, serverSide
<1>8. \A r \in Runs : r # q => handler[r] = "none"
  <2> SUFFICES ASSUME NEW r \in Runs, r # q
               PROVE  handler[r] = "none"
    OBVIOUS
  <2>1. client[r] = "off" /\ RunInv(r)
    BY <1>3 DEF Sole, WInv, DInv
  <2> QED
    BY <2>1 DEF RunInv, Connected
<1> QED
  BY <1>3, <1>4, <1>5, <1>6, <1>7, <1>8

\* The nodes and the directory after a comparison, either way round.
LEMMA ComparedInside ==
    ASSUME SingleWriter, WInv, NEW q \in Runs, TreeReception(q)
    PROVE  /\ addedFiles'[q] \subseteq Known(q) \cup {Root}
           /\ DOMAIN files' \subseteq DOMAIN files
           /\ addedFiles'[q] = {} => files' = files
<1> DEFINE own == buildTree(files)
           base == IF ahead[q] THEN treeFile ELSE own
           current == IF ahead[q] THEN own ELSE treeFile
           root == IF ~ahead[q] /\ RootModified(base, current) THEN {Root} ELSE {}
<1>1. /\ addedFiles \in [Runs -> SUBSET (Names \cup {Root})] /\ files \in Workspaces
      /\ handler[q] = "compare"
  BY DEF WInv, DInv, IInv, TypeOK, JobOK, StoreOK, TreeReception
<1>2. treeFile = treeJson[q] /\ DOMAIN files \subseteq Known(q)
  BY <1>1, WriterThread DEF Works, Inside
<1>3. DOMAIN own = DOMAIN files
  BY <1>1, BuildTreeType
<1>4. /\ addedFiles'[q] = AddedNodes(base, current) \cup root
      /\ files' = Without(files, RemovedNodes(base, current))
  BY <1>1 DEF TreeReception, AfterComparison
<1>5. DOMAIN base \subseteq Known(q) /\ DOMAIN current \subseteq Known(q)
  BY <1>2, <1>3 DEF Known
<1> HIDE DEF own
<1>6. addedFiles'[q] \subseteq Known(q) \cup {Root}
  BY <1>4, <1>5 DEF AddedNodes, ModifiedNodes
<1>7. DOMAIN files' \subseteq DOMAIN files
  BY <1>4 DEF Without
<1>8. ASSUME addedFiles'[q] = {}
      PROVE  files' = files
  <2>1. DOMAIN current \subseteq DOMAIN base /\ ModifiedNodes(base, current) = {}
    BY <1>4, <1>8 DEF AddedNodes
  <2>2. RemovedNodes(base, current) \cap DOMAIN files = {}
    BY <1>2, <1>3, <2>1 DEF RemovedNodes, Known
  <2>3. files \in [DOMAIN files -> Contents]
    BY <1>1 DEF Workspaces
  <2> QED
    BY <1>4, <2>2, <2>3 DEF Without
<1> QED
  BY <1>6, <1>7, <1>8

LEMMA Replies ==
    ASSUME NEW S, NEW q \in Runs, NEW m \in S, toClient \in [Runs -> Seq(ServerMessages)],
           toClient[q] \in Seq(S), Reply(q, m)
    PROVE  toClient'[q] \in Seq(S)
<1>1. toClient'[q] \in {toClient[q], Append(toClient[q], m)}
  BY DEF Reply
<1> QED
  BY <1>1, StreamOf

LEMMA WriterInside ==
    ASSUME SingleWriter, WInv, NEW q \in Runs, Works(q)
    PROVE  Inside(q)'
<1>0. /\ DInv /\ IInv /\ Inside(q) /\ link[q] = "up" /\ treeJson'[q] = treeJson[q]
      /\ addedFiles \in [Runs -> SUBSET (Names \cup {Root})]
      /\ incoming \in [Runs -> Names \cup {Root}] /\ handler \in [Runs -> HandlerStates]
      /\ toServer \in [Runs -> Seq(ClientMessages)]
      /\ toClient \in [Runs -> Seq(ServerMessages)]
      /\ files \in Workspaces
  BY WriterThread DEF WInv, DInv, IInv, TypeOK, ProcessOK, JobOK, NetOK, StoreOK
<1>1. Known(q)' = Known(q)
  BY <1>0 DEF Known
<1> DEFINE heard == KnownFiles(Known(q))
           said == KnownRequests(Known(q))
<1>2. \A m \in ServerMessages : m.type # "request_file" => m \in said
  BY DEF KnownRequests
<1>3. /\ Latest \in said /\ Confirmation \in said /\ NoSyncNeeded \in said
      /\ \A flag \in BOOLEAN : NotLatest(flag) \in said
  BY <1>2, Constructors DEF Latest, Confirmation, NoSyncNeeded, NotLatest
<1>4. toServer[q] \in Seq(heard) /\ toClient[q] \in Seq(said)
  BY <1>0 DEF Inside
<1> HIDE DEF heard, said
<1>5. ASSUME toServer[q] # <<>>, Receive(q)
      PROVE  toServer'[q] \in Seq(heard)
  <2>1. toServer'[q] = Tail(toServer[q])
    BY <1>0, <1>5 DEF Receive
  <2> QED
    BY <1>4, <1>5, <2>1, StreamOf
<1>6. toServer' = toServer \/ (toServer[q] # <<>> /\ Receive(q))
  BY DEF Works, IsLatest, IsNotLatest, CompareTimestamps, ReceiveTreeHeader, AcquireSemaphore,
         ReceiveTree, ConfirmTree, TreeReception, TreeReceptionNowhere, NoSync, Request,
         ReceiveFileHeader, SkipFile, ReceiveFile, ReceiveTornFile, ConfirmFile, UpdateHash,
         UpdateHashFails, UpdateModifiedAt, CloseConnection, Arrived, netVars
<1>7. toServer'[q] \in Seq(heard)
  BY <1>4, <1>5, <1>6
<1>8. toClient'[q] \in Seq(said)
  <2>1. CASE Request(q)
    <3>1. PICK file \in addedFiles[q] : Reply(q, RequestFile(file, Cardinality(addedFiles[q])))
      BY <2>1 DEF Request
    <3>2. RequestFile(file, Cardinality(addedFiles[q])) \in ServerMessages
      BY <1>0, <3>1, RequestCount, Constructors DEF IInv, TypeOK
    <3>3. RequestFile(file, Cardinality(addedFiles[q])) \in said
      BY <1>0, <3>1, <3>2 DEF said, KnownRequests, RequestFile, Inside
    <3> QED
      BY <1>0, <1>4, <3>1, <3>3, Replies
  <2>2. CASE ~ Request(q)
    <3>1. \/ toClient' = toClient
          \/ \E m \in said : Reply(q, m)
      BY <1>3, <2>2
      DEF Works, IsLatest, IsNotLatest, CompareTimestamps, ReceiveTreeHeader, AcquireSemaphore,
         ReceiveTree, ConfirmTree, TreeReception, TreeReceptionNowhere, NoSync,
         ReceiveFileHeader, SkipFile, ReceiveFile, ReceiveTornFile, ConfirmFile, UpdateHash,
         UpdateHashFails, UpdateModifiedAt, CloseConnection, netVars
    <3> QED
      BY <1>0, <1>4, <3>1, Replies
  <2> QED
    BY <2>1, <2>2
<1>9. addedFiles'[q] \subseteq Known(q) \cup {Root}
  <2>1. CASE TreeReception(q)
    BY <2>1, ComparedInside
  <2>2. CASE Request(q)
    BY <1>0, <2>2 DEF Request, Inside
  <2>3. CASE ~ TreeReception(q) /\ ~ Request(q)
    <3>1. addedFiles' = addedFiles
      BY <2>3 DEF Works, IsLatest, IsNotLatest, CompareTimestamps, ReceiveTreeHeader,
         AcquireSemaphore, ReceiveTree, ConfirmTree, TreeReceptionNowhere, NoSync,
         ReceiveFileHeader, SkipFile, ReceiveFile, ReceiveTornFile, ConfirmFile, UpdateHash,
         UpdateHashFails, UpdateModifiedAt, CloseConnection, DbMayFail, SingleWriter,
         jobVars, serverSide
    <3> QED
      BY <1>0, <3>1 DEF Inside
  <2> QED
    BY <2>1, <2>2, <2>3
<1>10. /\ DOMAIN files' \subseteq Known(q)
       /\ handler'[q] = "file_data" => incoming'[q] \in Known(q)
  <2>1. CASE TreeReception(q)
    <3>1. handler'[q] # "file_data"
      BY <1>0, <2>1 DEF TreeReception, AfterComparison, GoTo
    <3> QED
      BY <1>0, <2>1, <3>1, ComparedInside DEF Inside
  <2>2. CASE ReceiveFileHeader(q)
    <3>1. /\ toServer[q] # <<>> /\ Head(toServer[q]).type = "file_transfer"
          /\ incoming'[q] = Head(toServer[q]).file
          /\ DOMAIN files' = DOMAIN files \cup {incoming'[q]}
      BY <1>0, <2>2 DEF ReceiveFileHeader, Arrived, Written
    <3>2. Head(toServer[q]) \in heard
      BY <1>4, <3>1, StreamOf
    <3>3. incoming'[q] \in Known(q)
      BY <3>1, <3>2 DEF heard, KnownFiles
    <3> QED
      BY <1>0, <3>1, <3>3 DEF Inside
  <2>3. CASE ReceiveFile(q)
    <3>1. /\ handler[q] = "file_data" /\ handler'[q] = "confirm_file"
          /\ DOMAIN files' = DOMAIN files \cup {incoming[q]}
      BY <1>0, <2>3 DEF ReceiveFile, GoTo, Written
    <3> QED
      BY <1>0, <3>1 DEF Inside
  <2>4. CASE ~ (TreeReception(q) \/ ReceiveFileHeader(q) \/ ReceiveFile(q))
    <3>1. files' = files /\ incoming' = incoming /\ handler'[q] # "file_data"
      <4>1. ASSUME NEW state, GoTo(q, state)
            PROVE  handler'[q] = state
        BY <1>0, <4>1 DEF GoTo
      <4> QED
        BY <2>4, <4>1 DEF Works, IsLatest, IsNotLatest, CompareTimestamps, ReceiveTreeHeader,
         AcquireSemaphore, ReceiveTree, ConfirmTree, TreeReceptionNowhere, NoSync, Request,
         SkipFile, ReceiveTornFile, ConfirmFile, UpdateHash, AfterComparison, NextFile,
         UpdateHashFails, UpdateModifiedAt, CloseConnection, DbMayFail, SingleWriter,
         jobVars, serverSide, storeVars
    <3> QED
      BY <1>0, <3>1 DEF Inside
  <2> QED
    BY <2>1, <2>2, <2>3, <2>4
<1> QED
  BY <1>1, <1>7, <1>8, <1>9, <1>10 DEF Inside, heard, said

\* The directory changes only where a request follows, and only UpdateHash ends
\* the requests.
LEMMA WriterCurrent ==
    ASSUME SingleWriter, WInv, NEW q \in Runs, Works(q)
    PROVE  Current'
<1>0. /\ IInv /\ handler \in [Runs -> HandlerStates] /\ DOMAIN workspaceHash = Users
      /\ addedFiles \in [Runs -> SUBSET (Names \cup {Root})]
  BY DEF WInv, DInv, IInv, TypeOK, ProcessOK, StoreOK, JobOK
<1>1. \A r \in Runs : r # q => handler'[r] = handler[r] /\ handler[r] = "none"
  BY WriterThread
<1>2. SUFFICES ASSUME handler'[q] \notin Transferring
               PROVE  \A u \in Users : workspaceHash'[u] = treeHash(files, ServerOrder)'
  BY DEF Current
<1>3. ASSUME NEW state, GoTo(q, state)
      PROVE  handler'[q] = state
  BY <1>0, <1>3 DEF GoTo
<1>4. CASE UpdateHash(q)
  <2>1. \A u \in Users : u = User(q)
    BY EnvironmentAssumption DEF SingleWriter, User
  <2>2. hostname[q] # "unread" /\ files' = files
    BY <1>4, WriterThread DEF UpdateHash, WInv, Aware
  <2>3. workspaceHash' = [workspaceHash EXCEPT ![User(q)] = treeHash(files, ServerOrder)]
    BY <1>4, <2>2 DEF UpdateHash, rebuiltHash
  <2> QED
    BY <1>0, <2>1, <2>2, <2>3
<1>5. CASE ~ UpdateHash(q)
  <2>1. handler[q] \notin Transferring
    BY <1>2, <1>3, <1>5 DEF Works, IsLatest, IsNotLatest, CompareTimestamps, ReceiveTreeHeader,
         AcquireSemaphore, ReceiveTree, ConfirmTree, TreeReception, TreeReceptionNowhere, NoSync,
         Request, ReceiveFileHeader, SkipFile, ReceiveFile, ReceiveTornFile, ConfirmFile,
         UpdateHashFails, UpdateModifiedAt, CloseConnection, DbMayFail, SingleWriter,
         NextFile, Transferring
  <2>2. files' = files
    <3>1. CASE TreeReception(q)
      <4>1. addedFiles'[q] = {}
        BY <1>0, <1>2, <1>3, <3>1 DEF TreeReception, AfterComparison, Transferring
      <4> QED
        BY <3>1, <4>1, ComparedInside
    <3>2. CASE ~ TreeReception(q)
      BY <1>5, <2>1, <3>2 DEF Works, IsLatest, IsNotLatest, CompareTimestamps, ReceiveTreeHeader,
         AcquireSemaphore, ReceiveTree, ConfirmTree, TreeReceptionNowhere, NoSync,
         Request, ReceiveFileHeader, SkipFile, ReceiveFile, ReceiveTornFile, ConfirmFile,
         UpdateHashFails, UpdateModifiedAt, CloseConnection, Transferring, storeVars, serverSide
    <3> QED
      BY <3>1, <3>2
  <2>3. workspaceHash' = workspaceHash
    BY <1>5 DEF Works, IsLatest, IsNotLatest, CompareTimestamps, ReceiveTreeHeader,
         AcquireSemaphore, ReceiveTree, ConfirmTree, TreeReception, TreeReceptionNowhere, NoSync,
         Request, ReceiveFileHeader, SkipFile, ReceiveFile, ReceiveTornFile, ConfirmFile,
         UpdateHashFails, UpdateModifiedAt, CloseConnection, storeVars, serverSide
  <2>4. \A r \in Runs : handler[r] \notin Transferring
    BY <1>1, <2>1 DEF Transferring
  <2> QED
    BY <2>2, <2>3, <2>4 DEF WInv, Current
<1> QED
  BY <1>4, <1>5

\* One step of the one client: its tree can only grow.
LEMMA WriterClient ==
    ASSUME SingleWriter, WInv, NEW q \in Runs, ClientStep(q)
    PROVE  Within(q)'
<1>0. /\ DInv /\ IInv /\ Within(q) /\ client[q] # "off"
      /\ client \in [Runs -> ClientStates] /\ treeJson \in [Runs -> Trees]
      /\ localDir \in [Machines -> Workspaces] /\ Home[q] \in Machines
      /\ toServer \in [Runs -> Seq(ClientMessages)]
      /\ toClient \in [Runs -> Seq(ServerMessages)]
  <2>1. client[q] # "off"
    BY DEF ClientStep, InitiateSync, OnLatest, OnNotLatest, OnTreeConfirmation, OnNoSyncNeeded,
           OnRequestFile, OnFileConfirmation, OnClosed, Awaiting
  <2> QED
    BY <2>1, EnvironmentAssumption
    DEF WInv, DInv, IInv, TypeOK, MachineOK, ClientOK, NetOK
<1>1. Sole(q) /\ Inside(q) /\ Known(q) \subseteq DOMAIN localDir[Home[q]]
  BY <1>0 DEF Within
<1>2. UNCHANGED <<handler, addedFiles, incoming, files, localDir, link>>
  BY DEF ClientStep, InitiateSync, OnLatest, OnNotLatest, OnTreeConfirmation, OnNoSyncNeeded,
         OnRequestFile, OnFileConfirmation, OnClosed, serverSide, jobVars, storeVars, netVars,
         machineVars
<1>3. Sole(q)'
  <2>1. \E state : BecomeClient(q, state)
    BY DEF ClientStep, InitiateSync, OnLatest, OnNotLatest, OnTreeConfirmation, OnNoSyncNeeded,
           OnRequestFile, OnFileConfirmation, OnClosed, Finished, FileDone
  <2> QED
    BY <1>0, <1>1, <2>1 DEF BecomeClient, Sole
<1>4. Known(q) \subseteq Known(q)' /\ Known(q)' \subseteq DOMAIN localDir[Home[q]]
  <2>1. treeJson'[q] \in {treeJson[q], buildTree(localDir[Home[q]])}
    BY <1>0 DEF ClientStep, InitiateSync, OnLatest, OnNotLatest, OnTreeConfirmation,
         OnNoSyncNeeded, OnRequestFile, OnFileConfirmation, OnClosed
  <2> QED
    BY <1>0, <1>1, <2>1, BuildTreeType DEF Known
<1> DEFINE heard == KnownFiles(Known(q)')
           said == KnownRequests(Known(q)')
<1>5. toServer[q] \in Seq(heard) /\ toClient[q] \in Seq(said)
  <2>1. KnownFiles(Known(q)) \subseteq heard /\ KnownRequests(Known(q)) \subseteq said
    BY <1>4 DEF KnownFiles, KnownRequests
  <2>2. toServer[q] \in Seq(KnownFiles(Known(q))) /\ toClient[q] \in Seq(KnownRequests(Known(q)))
    BY <1>1 DEF Inside
  <2> HIDE DEF heard, said
  <2>3. \A S, T : S \subseteq T => Seq(S) \subseteq Seq(T)
    OBVIOUS
  <2> QED
    BY <2>1, <2>2, <2>3
<1>6. toClient'[q] \in Seq(said)
  <2> HIDE DEF said
  <2>1. toClient' = toClient \/ (toClient[q] # <<>> /\ Take(q))
    BY DEF ClientStep, InitiateSync, OnLatest, OnNotLatest, OnTreeConfirmation, OnNoSyncNeeded,
         OnRequestFile, OnFileConfirmation, OnClosed, Answer, netVars
  <2>2. CASE toClient[q] # <<>> /\ Take(q)
    <3>1. toClient'[q] = Tail(toClient[q])
      BY <1>0, <2>2 DEF Take
    <3> QED
      BY <1>5, <2>2, <3>1, StreamOf
  <2> QED
    BY <1>5, <2>1, <2>2
<1>7. ASSUME NEW ms \in Seq(heard), Send(q, ms)
      PROVE  toServer'[q] \in Seq(heard)
  <2> HIDE DEF heard
  <2>1. toServer'[q] \in {toServer[q], toServer[q] \o ms}
    BY <1>0, <1>7 DEF Send
  <2> QED
    BY <1>5, <2>1, StreamOf
<1>8. \A m \in ClientMessages : m.type # "file_transfer" => m \in heard
  BY DEF KnownFiles
<1>9. ASSUME InitiateSync(q)
      PROVE  toServer'[q] \in Seq(heard)
  <2>1. CheckLatest(treeHash(localDir[Home[q]], ClientOrder)) \in heard
    BY <1>0, <1>8, TreeHashType, Constructors DEF CheckLatest
  <2> HIDE DEF heard
  <2>2. <<CheckLatest(treeHash(localDir[Home[q]], ClientOrder))>> \in Seq(heard)
    BY <2>1
  <2> QED
    BY <1>7, <1>9, <2>2 DEF InitiateSync
<1>10. ASSUME OnNotLatest(q)
      PROVE  toServer'[q] \in Seq(heard)
  <2> DEFINE flag == Head(toClient[q]).ahead
             tree == treeJson'[q]
  <2>1. flag \in BOOLEAN
    <3>1. toClient[q] # <<>> /\ Head(toClient[q]).type = "not_latest"
      BY <1>10 DEF OnNotLatest, Answer
    <3>2. Head(toClient[q]) \in ServerMessages
      BY <1>0, <3>1, TakeType DEF IInv, TypeOK
    <3> QED
      BY <3>1, <3>2, Fields
  <2>2. tree \in Trees
    BY <1>0, <1>10, BuildTreeType DEF OnNotLatest
  <2>3. TreeHeader(flag) \in heard /\ TreeData(tree) \in heard
    BY <1>8, <2>1, <2>2, Constructors DEF TreeHeader, TreeData
  <2>4. Send(q, <<TreeHeader(flag), TreeData(tree)>>)
    BY <1>10 DEF OnNotLatest
  <2> HIDE DEF heard, flag, tree
  <2>5. <<TreeHeader(flag), TreeData(tree)>> \in Seq(heard)
    BY <2>3
  <2> QED
    BY <1>7, <2>4, <2>5
<1>11. ASSUME OnRequestFile(q)
      PROVE  toServer'[q] \in Seq(heard)
  <2> DEFINE f == Head(toClient[q]).file
             c == localDir[Home[q]][f]
  <2>1. toClient[q] # <<>> /\ Head(toClient[q]).type = "request_file"
    BY <1>11 DEF OnRequestFile, Answer
  <2>2. Head(toClient[q]) \in said
    <3> HIDE DEF said
    <3> QED
      BY <1>5, <2>1, StreamOf
  <2>3. \/ f \in DOMAIN localDir[Home[q]] /\ Send(q, <<FileHeader(f), FileData(c)>>)
        \/ UNCHANGED toServer
    BY <1>11 DEF OnRequestFile
  <2>4. ASSUME f \in DOMAIN localDir[Home[q]]
        PROVE  FileHeader(f) \in heard /\ FileData(c) \in heard
    <3>1. f \in Names /\ c \in Contents
      BY <1>0, <2>4 DEF Workspaces
    <3>2. f \in Known(q)'
      BY <2>1, <2>2, <3>1, RootAssumption DEF KnownRequests
    <3> QED
      BY <1>8, <3>1, <3>2, Constructors DEF FileHeader, FileData, KnownFiles
  <2> HIDE DEF heard, c, f
  <2>5. ASSUME f \in DOMAIN localDir[Home[q]]
        PROVE  <<FileHeader(f), FileData(c)>> \in Seq(heard)
    BY <2>4, <2>5
  <2> QED
    BY <1>5, <1>7, <2>3, <2>5
<1>12. ASSUME ~ (InitiateSync(q) \/ OnNotLatest(q) \/ OnRequestFile(q))
      PROVE  toServer'[q] \in Seq(heard)
  <2>1. UNCHANGED toServer
    BY <1>12 DEF ClientStep, OnLatest, OnTreeConfirmation, OnNoSyncNeeded, OnFileConfirmation,
         OnClosed, netVars
  <2> QED
    BY <1>5, <2>1
<1>13. toServer'[q] \in Seq(heard)
  BY <1>9, <1>10, <1>11, <1>12
<1>14. Inside(q)'
  <2>1. /\ DOMAIN files' \subseteq Known(q)'
        /\ addedFiles'[q] \subseteq Known(q)' \cup {Root}
        /\ handler'[q] = "file_data" => incoming'[q] \in Known(q)'
    BY <1>1, <1>2, <1>4 DEF Inside
  <2> QED
    BY <1>6, <1>13, <2>1 DEF Inside
<1> QED
  BY <1>2, <1>3, <1>4, <1>14 DEF Within

LEMMA WriterGoesOn ==
    ASSUME SingleWriter, WInv, [Next]_vars
    PROVE  WInv'
<1>0. /\ DInv /\ DInv' /\ IInv /\ Lasting /\ Aware /\ (\A r \in Runs : Within(r)) /\ Current
      /\ hostname \in [Runs -> {"unread", "files"}]
      /\ client \in [Runs -> ClientStates] /\ handler \in [Runs -> HandlerStates]
      /\ link \in [Runs -> {"none", "up", "gone"}] /\ localDir \in [Machines -> Workspaces]
      /\ Faults \cap {"crash", "db", "coalesce"} = {}
  BY DialogueGoesOn DEF WInv, DInv, IInv, TypeOK, ProcessOK, JobOK, ClientOK, NetOK, MachineOK,
     SingleWriter
<1>1. ASSUME NEW r \in Runs,
             UNCHANGED <<client, treeJson[r], localDir[Home[r]]>>,
             Sole(r) => UNCHANGED <<handler[r], addedFiles[r], incoming[r], files,
                                    toServer[r], toClient[r]>>
      PROVE  Within(r)'
  <2>1. Known(r)' = Known(r) /\ (Sole(r)' <=> Sole(r))
    BY <1>1 DEF Known, Sole
  <2>2. Sole(r) => (Inside(r)' <=> Inside(r))
    BY <1>1, <2>1 DEF Inside
  <2> QED
    BY <1>0, <1>1, <2>1, <2>2 DEF Within
<1>2. ASSUME UNCHANGED <<handler, files, workspaceHash>>
      PROVE  Current'
  BY <1>0, <1>2 DEF Current
<1>3. ASSUME UNCHANGED <<running, client, link, treeJson, localDir, handler, hostname, addedFiles,
                         incoming, files, workspaceHash, toServer, toClient>>
      PROVE  WInv'
  <2>1. Lasting' /\ Aware'
    BY <1>0, <1>3 DEF Lasting, Aware
  <2>2. \A r \in Runs : Within(r)'
    BY <1>1, <1>3
  <2> QED
    BY <1>0, <1>2, <1>3, <2>1, <2>2 DEF WInv
<1>4. CASE UNCHANGED vars
  BY <1>3, <1>4 DEF vars, serverSide, clientSide, processVars, jobVars, storeVars, machineVars,
     netVars
<1>5. ASSUME NEW q \in Runs
      PROVE  ~ (ReceiveTornTree(q) \/ ReceiveFileHeaderNowhere(q) \/ ParseError(q)
                \/ BrokenPipe(q) \/ OnCoalesced(q) \/ KillClient(q) \/ ClientBrokenPipe(q))
  BY <1>0 DEF Lasting, Aware, IInv, Unserved, ReceiveTornTree, Ended, ReceiveFileHeaderNowhere,
     ParseError, BrokenPipe, OnCoalesced, KillClient, ClientBrokenPipe
<1>6. ASSUME NEW q \in Runs, ServerStep(q)
      PROVE  WInv'
  <2>1. Works(q)
    BY <1>5, <1>6 DEF ServerStep, Works
  <2>2. /\ Sole(q) /\ client[q] # "off"
        /\ UNCHANGED <<running, client, link, treeJson, localDir, hostname>>
    BY <2>1, WriterThread
  <2>3. Lasting' /\ Aware'
    BY <1>0, <2>2 DEF Lasting, Aware
  <2>4. Within(q)'
    BY <1>0, <2>1, <2>2, WriterInside DEF Within, Known, Sole
  <2>5. ASSUME NEW r \in Runs, r # q
        PROVE  Within(r)'
    BY <1>1, <2>2, <2>5 DEF Sole
  <2> QED
    BY <1>0, <2>1, <2>3, <2>4, <2>5, WriterCurrent DEF WInv
<1>7. ASSUME NEW q \in Runs, ClientStep(q)
      PROVE  WInv'
  <2>1. UNCHANGED <<running, handler, hostname, files, workspaceHash, localDir, link>>
    BY <1>7 DEF ClientStep, InitiateSync, OnLatest, OnNotLatest, OnTreeConfirmation,
         OnNoSyncNeeded, OnRequestFile, OnFileConfirmation, OnClosed, serverSide, processVars,
         jobVars, storeVars, netVars, machineVars
  <2>2. PICK state \in ClientStates \ {"off", "dead"} : BecomeClient(q, state)
    BY <1>7 DEF ClientStep, InitiateSync, OnLatest, OnNotLatest, OnTreeConfirmation,
         OnNoSyncNeeded, OnRequestFile, OnFileConfirmation, OnClosed, Finished, FileDone,
         ClientStates, Awaiting
  <2>3. client[q] # "off"
    BY <1>7 DEF ClientStep, InitiateSync, OnLatest, OnNotLatest, OnTreeConfirmation,
         OnNoSyncNeeded, OnRequestFile, OnFileConfirmation, OnClosed, Awaiting
  <2>4. Lasting' /\ Aware'
    BY <1>0, <2>1, <2>2, <2>3 DEF Lasting, Aware, BecomeClient
  <2>5. ASSUME NEW r \in Runs, r # q
        PROVE  Within(r)'
    <3>1. client[r] = "off" /\ client'[r] = "off" /\ ~ Sole(r)'
      <4>1. Sole(q)
        BY <1>0, <2>3 DEF Within
      <4> QED
        BY <1>0, <2>2, <2>5, <4>1 DEF Sole, BecomeClient
    <3>2. treeJson'[r] = treeJson[r]
      BY <1>0, <1>7, <2>5, ClientAlone DEF Local
    <3> QED
      BY <1>0, <2>1, <3>1, <3>2 DEF Within, Known
  <2> QED
    BY <1>0, <1>2, <1>7, <2>1, <2>4, <2>5, WriterClient DEF WInv
<1>8. ASSUME NEW q \in Runs, Start(q)
      PROVE  WInv'
  <2>1. /\ UNCHANGED <<running, addedFiles, incoming, files, workspaceHash, treeJson, localDir,
                       toServer, toClient>>
        /\ client[q] = "off" /\ client' = [client EXCEPT ![q] = "idle"]
        /\ handler' = [handler EXCEPT ![q] = "poll"] /\ link' = [link EXCEPT ![q] = "up"]
        /\ hostname' = [hostname EXCEPT ![q] = "files"]
    BY <1>0, <1>8 DEF Start, BecomeClient, GoTo, processVars, storeVars, machineVars
  <2>2. \A s \in Runs : client[s] = "off"
    <3>1. \A s \in Runs : Home[s] = Home[q]
      BY EnvironmentAssumption DEF SingleWriter
    <3> QED
      BY <1>0, <1>8, <3>1 DEF Start, Lasting
  <2>3. Lasting' /\ Aware'
    BY <1>0, <2>1 DEF Lasting, Aware
  <2>4. Within(q)'
    <3>1. Sole(q) /\ Sole(q)'
      BY <1>0, <2>1, <2>2 DEF Sole
    <3>2. Known(q)' = Known(q) /\ handler'[q] # "file_data" /\ localDir' = localDir
      BY <1>0, <2>1 DEF Known
    <3>3. Inside(q)'
      BY <1>0, <2>1, <3>1, <3>2 DEF Within, Inside
    <3> QED
      BY <1>0, <3>1, <3>2, <3>3 DEF Within
  <2>5. ASSUME NEW r \in Runs, r # q
        PROVE  Within(r)'
    <3>1. ~ Sole(r)' /\ client'[r] = "off"
      BY <1>0, <2>1, <2>2, <2>5 DEF Sole
    <3> QED
      BY <1>0, <2>1, <3>1 DEF Within, Known
  <2>6. Current'
    <3>1. handler[q] \notin Transferring
      BY <1>0, <2>2 DEF DInv, RunInv, Connected, Transferring
    <3>2. (\A r \in Runs : handler'[r] \notin Transferring) =>
              \A r \in Runs : handler[r] \notin Transferring
      BY <1>0, <2>1, <3>1
    <3> QED
      BY <1>0, <2>1, <3>2 DEF Current
  <2> QED
    BY <1>0, <2>3, <2>4, <2>5, <2>6 DEF WInv
<1>9. ASSUME NEW m \in Machines, Edit(m)
      PROVE  WInv'
  <2>1. Write(m)
    BY <1>9 DEF Edit, Delete, Rename, SingleWriter
  <2>2. PICK n \in Names, c \in Contents : Change(m, Written(localDir[m], n, c), 1)
    BY <2>1 DEF Write
  <2>3. /\ UNCHANGED <<running, client, link, treeJson, handler, hostname, addedFiles,
                       incoming, files, workspaceHash, toServer, toClient>>
        /\ localDir' = [localDir EXCEPT ![m] = Written(localDir[m], n, c)]
    BY <2>2 DEF Change, serverSide, processVars, jobVars, storeVars, netVars
  <2>4. ASSUME NEW r \in Runs
        PROVE  Within(r)'
    <3>1. Home[r] \in Machines
      BY EnvironmentAssumption
    <3>2. DOMAIN localDir[Home[r]] \subseteq DOMAIN localDir'[Home[r]]
      BY <1>0, <2>3, <3>1 DEF Written
    <3>3. Known(r)' = Known(r) /\ (Sole(r)' <=> Sole(r)) /\ (Inside(r)' <=> Inside(r))
      BY <2>3 DEF Known, Sole, Inside
    <3> QED
      BY <1>0, <2>3, <3>2, <3>3 DEF Within
  <2>5. Lasting' /\ Aware'
    BY <1>0, <2>3 DEF Lasting, Aware
  <2> QED
    BY <1>0, <1>2, <2>3, <2>4, <2>5 DEF WInv
<1>10. ~ Kill /\ ~ Restart
  BY <1>0 DEF Kill, Restart, Lasting
<1>11. CASE NextSecond
  BY <1>3, <1>11 DEF NextSecond, clientSide, processVars, jobVars, machineVars, netVars
<1> QED
  BY <1>4, <1>5, <1>6, <1>7, <1>8, <1>9, <1>10, <1>11 DEF Next, Environment

\* The hash in the workspace table is that of the server's directory whenever no
\* exchange is in progress (HandleSync.cpp 21), for one machine that only writes
\* and an environment without failures, ties and any number of files included.
\* A deletion makes it false, and so does a second machine of the account.
THEOREM HashStaysCurrent ==
    ASSUME SingleWriter
    PROVE  Spec => []HashIsCurrent
<1>1. Init => WInv
  BY WriterInitially
<1>2. WInv /\ [Next]_vars => WInv'
  BY WriterGoesOn
<1>3. WInv => HashIsCurrent
  BY DEF WInv, Current, HashIsCurrent, Holders, Holding, Transferring
<1> QED
  BY <1>1, <1>2, <1>3, PTL DEF Spec

-----------------------------------------------------------------------------
(* What equal hashes say, and the answer "latest".                         *)

\* What has 0 and each successor of its numbers has all numbers.
LEMMA Climb ==
    ASSUME NEW n \in Nat, NEW S, 0 \in S, \A k \in 1..n : k - 1 \in S => k \in S
    PROVE  0..n \subseteq S
<1> SUFFICES ASSUME (0..n) \ S # {}
             PROVE  FALSE
  OBVIOUS
<1> DEFINE T == (0..n) \ S
           R == OpToRel(<, Nat)
<1>1. T \subseteq Nat /\ T # {}
  OBVIOUS
<1>2. \E m \in T : \A k \in T : ~ (<<k, m>> \in R)
  <2> HIDE DEF R, T
  <2>1. IsWellFoundedOn(R, Nat)
    BY NatLessThanWellFounded DEF R
  <2> QED
    BY <1>1, <2>1, WFMin
<1>3. \A k, m \in Nat : <<k, m>> \in R <=> k < m
  <2>1. R = {ss \in Nat \X Nat : ss[1] < ss[2]}
    BY DEF OpToRel
  <2> HIDE DEF R
  <2> QED
    BY <2>1
<1> HIDE DEF R
<1>4. PICK m \in T : \A k \in T : ~ (k < m)
  <2> HIDE DEF T
  <2> QED
    BY <1>1, <1>2, <1>3
<1>5. m \in 1..n /\ m - 1 \in 0..n /\ m - 1 < m
  OBVIOUS
<1> QED
  BY <1>4, <1>5

\* The hashes of the nodes among the first names of an order.
Collects(upto, tree, order) ==
    /\ upto \in [0..Len(order) -> Seq(Chunks)]
    /\ upto[0] = <<>>
    /\ \A i \in 1..Len(order) :
           upto[i] = IF order[i] \in DOMAIN tree THEN Append(upto[i - 1], tree[order[i]])
                                                 ELSE upto[i - 1]

LEMMA CombinedCollects ==
    ASSUME NEW tree \in Trees, NEW order \in Seq(Names)
    PROVE  \E upto : Collects(upto, tree, order) /\ combineHashes(tree, order) = upto[Len(order)]
<1> DEFINE n == Len(order)
           Next1(f, i) == IF order[i] \in DOMAIN tree THEN Append(f[i - 1], tree[order[i]])
                                                       ELSE f[i - 1]
           Good(k, f) == f[0] = <<>> /\ \A i \in 1..k : f[i] = Next1(f, i)
           S == {k \in 0..n : \E f \in [0..n -> Seq(Chunks)] : Good(k, f)}
<1>0. n \in Nat /\ \A x \in DOMAIN tree : tree[x] \in Chunks
  BY LenProperties DEF Trees
<1> HIDE DEF n
<1>1. 0 \in S
  <2> DEFINE f == [i \in 0..n |-> <<>>]
  <2>1. f \in [0..n -> Seq(Chunks)]
    OBVIOUS
  <2>2. Good(0, f)
    BY <1>0
  <2>3. \E h \in [0..n -> Seq(Chunks)] : Good(0, h)
    <3> HIDE DEF f, Good
    <3> QED
      BY <2>1, <2>2
  <2> HIDE DEF Good
  <2> QED
    BY <1>0, <2>3
<1>2. ASSUME NEW m \in 1..n, m - 1 \in S
      PROVE  m \in S
  <2>1. PICK f \in [0..n -> Seq(Chunks)] : Good(m - 1, f)
    BY <1>2
  <2>2. m \in 0..n /\ m - 1 \in 0..n
    BY <1>0
  <2> DEFINE v == Next1(f, m)
             g == [i \in 0..n |-> IF i = m THEN v ELSE f[i]]
  <2>3. v \in Seq(Chunks)
    <3>1. f[m - 1] \in Seq(Chunks)
      BY <2>2
    <3> QED
      BY <1>0, <3>1, AppendProperties
  <2>4. g \in [0..n -> Seq(Chunks)]
    <3> HIDE DEF v
    <3> QED
      BY <2>3
  <2>5. ASSUME NEW i \in 1..m
        PROVE  g[i] = Next1(g, i)
    <3>1. i - 1 \in 0..n /\ i \in 0..n /\ i - 1 # m
      BY <1>0
    <3>2. g[i - 1] = f[i - 1]
      BY <3>1
    <3>3. CASE i = m
      BY <3>1, <3>2, <3>3
    <3>4. CASE i # m
      <4>1. i \in 1..(m - 1) /\ g[i] = f[i]
        BY <3>1, <3>4
      <4> QED
        BY <2>1, <3>2, <4>1
    <3> QED
      BY <3>3, <3>4
  <2>6. g[0] = <<>>
    BY <1>0, <2>1
  <2>7. \E h \in [0..n -> Seq(Chunks)] : Good(m, h)
    <3>1. Good(m, g)
      BY <2>5, <2>6
    <3> HIDE DEF g, Good
    <3> QED
      BY <2>4, <3>1
  <2> HIDE DEF Good
  <2> QED
    BY <2>2, <2>7
<1>3. n \in S
  <2> HIDE DEF S
  <2>1. 0..n \subseteq S
    BY <1>0, <1>1, <1>2, Climb
  <2> QED
    BY <1>0, <2>1
<1> DEFINE Eq(f) == f = [i \in 0..n |-> IF i = 0 THEN <<>> ELSE Next1(f, i)]
           u == CHOOSE f : Eq(f)
<1>4. combineHashes(tree, order) = u[n]
  BY DEF combineHashes, n
<1>5. Eq(u)
  <2>1. PICK f \in [0..n -> Seq(Chunks)] : Good(n, f)
    BY <1>3
  <2>2. f = [i \in 0..n |-> f[i]]
    OBVIOUS
  <2>3. ASSUME NEW i \in 0..n
        PROVE  f[i] = IF i = 0 THEN <<>> ELSE Next1(f, i)
    <3>1. i = 0 \/ i \in 1..n
      BY <1>0
    <3> QED
      BY <2>1, <3>1
  <2>4. Eq(f)
    BY <2>2, <2>3
  <2> QED
    BY <2>4
<1>6. PICK w : Eq(w) /\ combineHashes(tree, order) = w[n]
  <2> HIDE DEF u, Eq
  <2> QED
    BY <1>4, <1>5
<1>7. DOMAIN w = 0..n /\ \A i \in 0..n : w[i] = IF i = 0 THEN <<>> ELSE Next1(w, i)
  <2> HIDE DEF Next1
  <2> QED
    BY <1>6
<1>8. w[0] = <<>> /\ \A i \in 1..n : w[i] = Next1(w, i)
  <2>1. 0 \in 0..n /\ \A i \in 1..n : i \in 0..n /\ i # 0
    BY <1>0
  <2> HIDE DEF Next1
  <2> QED
    BY <1>7, <2>1
<1> DEFINE P == {i \in 0..n : w[i] \in Seq(Chunks)}
<1>9. ASSUME NEW i \in 1..n, i - 1 \in P
      PROVE  i \in P
  <2>1. w[i - 1] \in Seq(Chunks) /\ i \in 0..n
    BY <1>0, <1>9
  <2>2. \A x \in Chunks : Append(w[i - 1], x) \in Seq(Chunks)
    BY <2>1, AppendProperties
  <2>3. w[i] \in Seq(Chunks)
    BY <1>0, <1>8, <2>1, <2>2
  <2> QED
    BY <2>1, <2>3
<1>10. \A i \in 0..n : w[i] \in Seq(Chunks)
  <2>1. 0 \in P
    <3>1. <<>> \in Seq(Chunks) /\ 0 \in 0..n
      BY <1>0
    <3> QED
      BY <1>8, <3>1
  <2>2. 0..n \subseteq P
    <3> HIDE DEF P
    <3> QED
      BY <1>0, <1>9, <2>1, Climb
  <2> QED
    BY <2>2
<1>11. w = [i \in 0..n |-> w[i]]
  <2>1. w = [i \in 0..n |-> IF i = 0 THEN <<>> ELSE Next1(w, i)]
    BY <1>6
  <2> HIDE DEF Next1
  <2> QED
    BY <2>1
<1>12. w \in [0..n -> Seq(Chunks)]
  BY <1>10, <1>11
<1> QED
  BY <1>6, <1>8, <1>12 DEF Collects, n

LEMMA LastApart ==
    \A s, t \in Seq(Chunks), x, y \in Chunks :
        Append(s, x) = Append(t, y) <=> s = t /\ x = y
<1> SUFFICES ASSUME NEW s \in Seq(Chunks), NEW t \in Seq(Chunks), NEW x \in Chunks, NEW y \in Chunks
             PROVE  Append(s, x) = Append(t, y) <=> s = t /\ x = y
  OBVIOUS
<1> QED
  BY AppendInjective

\* The tree of a part of a directory has another hash than that of the whole,
\* and so has one with other chunks, though the hash does not name the files.
LEMMA HashTellsApart ==
    ASSUME NEW part \in Trees, NEW whole \in Trees, DOMAIN part \subseteq DOMAIN whole,
           NEW order \in Seq(Names), Names \subseteq {order[i] : i \in 1..Len(order)},
           combineHashes(part, order) = combineHashes(whole, order)
    PROVE  part = whole
<1> DEFINE n == Len(order)
<1>0. /\ n \in Nat /\ DOMAIN part \subseteq Names /\ DOMAIN whole \subseteq Names
      /\ (\A x \in DOMAIN part : part[x] \in Chunks) /\ (\A x \in DOMAIN whole : whole[x] \in Chunks)
  BY LenProperties DEF Trees
<1>1. PICK a : Collects(a, part, order) /\ combineHashes(part, order) = a[n]
  BY CombinedCollects
<1>2. PICK b : Collects(b, whole, order) /\ combineHashes(whole, order) = b[n]
  BY CombinedCollects
<1> DEFINE Same(x) == /\ x \in DOMAIN part <=> x \in DOMAIN whole
                      /\ x \in DOMAIN part => part[x] = whole[x]
           Alike(k) == /\ Len(a[k]) <= Len(b[k])
                       /\ a[k] = b[k] => \A i \in 1..k : Same(order[i])
           S == {k \in 0..n : Alike(k)}
<1> HIDE DEF n
<1>3. 0 \in S
  <2>1. a[0] = <<>> /\ b[0] = <<>>
    BY <1>1, <1>2 DEF Collects
  <2>2. Len(<<>>) = 0 /\ 1..0 = {} /\ 0 \in 0..n
    BY <1>0
  <2>3. Alike(0)
    BY <2>1, <2>2
  <2> HIDE DEF Alike
  <2> QED
    BY <2>2, <2>3
<1>4. ASSUME NEW k \in 1..n, k - 1 \in S
      PROVE  k \in S
  <2>1. k \in 0..n /\ k - 1 \in 0..n /\ \A i \in 1..k : i = k \/ i \in 1..(k - 1)
    BY <1>0
  <2>2. /\ a[k - 1] \in Seq(Chunks) /\ b[k - 1] \in Seq(Chunks)
        /\ a[k] = IF order[k] \in DOMAIN part THEN Append(a[k - 1], part[order[k]]) ELSE a[k - 1]
        /\ b[k] = IF order[k] \in DOMAIN whole THEN Append(b[k - 1], whole[order[k]]) ELSE b[k - 1]
    BY <1>1, <1>2, <2>1 DEF Collects, n
  <2>3. Len(a[k - 1]) \in Nat /\ Len(b[k - 1]) \in Nat /\ Alike(k - 1)
    BY <1>4, <2>2, LenProperties
  <2>4. CASE order[k] \in DOMAIN part
    <3> DEFINE mine == part[order[k]]
               yours == whole[order[k]]
    <3>1. mine \in Chunks /\ yours \in Chunks /\ order[k] \in DOMAIN whole
      BY <1>0, <2>4
    <3>2. a[k] = Append(a[k - 1], mine) /\ b[k] = Append(b[k - 1], yours)
      BY <2>2, <2>4, <3>1
    <3> HIDE DEF mine, yours
    <3>3. Len(a[k]) = Len(a[k - 1]) + 1 /\ Len(b[k]) = Len(b[k - 1]) + 1
      <4>1. a[k - 1] \in Seq(Chunks) /\ b[k - 1] \in Seq(Chunks)
        BY <2>2
      <4>2. /\ Len(Append(a[k - 1], mine)) = Len(a[k - 1]) + 1
            /\ Len(Append(b[k - 1], yours)) = Len(b[k - 1]) + 1
        BY <3>1, <4>1, AppendProperties
      <4> QED
        BY <3>2, <4>2
    <3>4. a[k] = b[k] => a[k - 1] = b[k - 1] /\ mine = yours
      <4>1. a[k - 1] \in Seq(Chunks) /\ b[k - 1] \in Seq(Chunks)
        BY <2>2
      <4>2. Append(a[k - 1], mine) = Append(b[k - 1], yours) <=> a[k - 1] = b[k - 1] /\ mine = yours
        <5> DEFINE s == a[k - 1]
                   t == b[k - 1]
        <5>1. s \in Seq(Chunks) /\ t \in Seq(Chunks)
          BY <4>1
        <5> HIDE DEF s, t
        <5>2. Append(s, mine) = Append(t, yours) <=> s = t /\ mine = yours
          BY <3>1, <5>1, LastApart
        <5> QED
          BY <5>2 DEF s, t
      <4> QED
        BY <3>2, <4>2
    <3>5. Alike(k)
      BY <2>1, <2>3, <2>4, <3>1, <3>3, <3>4 DEF mine, yours
    <3> QED
      BY <2>1, <3>5
  <2>5. CASE order[k] \notin DOMAIN part /\ order[k] \in DOMAIN whole
    <3>1. a[k] = a[k - 1] /\ Len(b[k]) = Len(b[k - 1]) + 1
      BY <1>0, <2>2, <2>5, AppendProperties
    <3>2. Len(a[k]) < Len(b[k])
      BY <2>3, <3>1
    <3>3. Len(a[k]) <= Len(b[k]) /\ a[k] # b[k]
      BY <2>3, <3>1, <3>2
    <3>4. Alike(k)
      BY <3>3
    <3> QED
      BY <2>1, <3>4
  <2>6. CASE order[k] \notin DOMAIN part /\ order[k] \notin DOMAIN whole
    <3>1. a[k] = a[k - 1] /\ b[k] = b[k - 1]
      BY <2>2, <2>6
    <3>2. Alike(k)
      BY <2>1, <2>3, <2>6, <3>1
    <3> QED
      BY <2>1, <3>2
  <2> QED
    BY <2>4, <2>5, <2>6
<1>5. Alike(n)
  <2>1. 0..n \subseteq S
    <3> HIDE DEF S
    <3> QED
      BY <1>0, <1>3, <1>4, Climb
  <2>2. n \in 0..n
    BY <1>0
  <2> QED
    BY <2>1, <2>2
<1>6. \A i \in 1..n : Same(order[i])
  BY <1>1, <1>2, <1>5
<1>7. \A x \in Names : Same(x)
  <2> HIDE DEF Same
  <2> QED
    BY <1>6 DEF n
<1>8. DOMAIN part = DOMAIN whole /\ \A x \in DOMAIN part : part[x] = whole[x]
  BY <1>0, <1>7
<1>9. part = [x \in DOMAIN part |-> part[x]] /\ whole = [x \in DOMAIN whole |-> whole[x]]
  BY DEF Trees
<1> QED
  BY <1>8, <1>9

\* The hash under way is that of the client's tree.json.
Asking(r) ==
    client[r] = "await_latest" =>
        \A i \in 1..Len(toServer[r]) :
            toServer[r][i].type = "check_latest" =>
                toServer[r][i].hash = combineHashes(treeJson[r], ClientOrder)

LEMMA AskingGoesOn ==
    ASSUME DInv, \A r \in Runs : Asking(r), [Next]_vars, NEW r \in Runs
    PROVE  Asking(r)'
<1>0. /\ DInv' /\ IInv /\ RunInv(r) /\ client \in [Runs -> ClientStates]
      /\ treeJson \in [Runs -> Trees] /\ localDir \in [Machines -> Workspaces]
      /\ Home[r] \in Machines
      /\ toServer \in [Runs -> Seq(ClientMessages)]
      /\ link[r] \in {"none", "up", "gone"}
  BY DialogueGoesOn, EnvironmentAssumption
  DEF DInv, IInv, TypeOK, MachineOK, ClientOK, NetOK
<1>1. SUFFICES ASSUME client'[r] = "await_latest"
               PROVE  Asking(r)'
  BY DEF Asking
<1>2. CASE client[r] = "await_latest" /\ treeJson'[r] = treeJson[r] /\ toServer'[r] = toServer[r]
  BY <1>0, <1>2 DEF Asking
<1>3. CASE /\ client[r] = "await_latest" /\ treeJson'[r] = treeJson[r]
           /\ toServer[r] # <<>> /\ toServer'[r] = Tail(toServer[r])
  <2>1. toServer[r] \in Seq(ClientMessages)
    BY <1>0
  <2>2. /\ Len(toServer'[r]) = Len(toServer[r]) - 1 /\ Len(toServer[r]) \in Nat
        /\ \A i \in 1..Len(toServer'[r]) :
               i + 1 \in 1..Len(toServer[r]) /\ toServer'[r][i] = toServer[r][i + 1]
    BY <1>3, <2>1, HeadTailProperties, LenProperties
  <2> QED
    BY <1>0, <1>3, <2>2 DEF Asking
<1>4. CASE InitiateSync(r)
  <2>1. /\ client[r] = "idle"
        /\ treeJson'[r] = buildTree(localDir[Home[r]])
        /\ Send(r, <<CheckLatest(treeHash(localDir[Home[r]], ClientOrder))>>)
    BY <1>0, <1>4 DEF InitiateSync
  <2>2. CASE link[r] = "up"
    <3>1. Alive(r) /\ handler[r] # "closed"
      BY <1>0, <2>1, <2>2 DEF Alive, RunInv, Connected
    <3>2. toServer[r] = <<>>
      BY <1>0, <2>1, <3>1, Lengths DEF RunInv, Together, Idle
    <3>3. toServer'[r] = <<CheckLatest(treeHash(localDir[Home[r]], ClientOrder))>>
      BY <1>0, <2>1, <2>2, <3>2 DEF Send
    <3> QED
      BY <2>1, <3>3 DEF Asking, CheckLatest, treeHash
  <2>3. CASE link[r] # "up"
    <3>1. toServer'[r] = toServer[r] /\ handler[r] = "closed"
      BY <1>0, <2>1, <2>3 DEF Send, RunInv, Connected, Alive
    <3>2. Len(toServer'[r]) = 0
      BY <1>0, <3>1 DEF RunInv, Connected, Empty
    <3> QED
      BY <3>2 DEF Asking
  <2> QED
    BY <2>2, <2>3
<1>5. CASE toServer'[r] = <<>>
  <2>1. Len(toServer'[r]) = 0
    BY <1>5
  <2> QED
    BY <2>1 DEF Asking
<1>6. CASE UNCHANGED <<client, treeJson, toServer>>
  BY <1>1, <1>2, <1>6
<1>7. ASSUME NEW q \in Runs, ServerStep(q)
      PROVE  Asking(r)'
  <2>1. CASE ReceiveTornTree(q) \/ ReceiveFileHeaderNowhere(q)
    BY <1>5, <2>1 DEF ReceiveTornTree, ReceiveFileHeaderNowhere, Terminate
  <2>2. CASE Works(q)
    <3>1. UNCHANGED <<client, treeJson>>
      BY <1>0, <2>2, WorksAlone DEF Moves
    <3>2. toServer' = toServer \/ (toServer[q] # <<>> /\ Receive(q))
      BY <2>2 DEF Works, IsLatest, IsNotLatest, CompareTimestamps, ReceiveTreeHeader,
         AcquireSemaphore, ReceiveTree, ConfirmTree, TreeReception, TreeReceptionNowhere, NoSync,
         Request, ReceiveFileHeader, SkipFile, ReceiveFile, ReceiveTornFile, ConfirmFile,
         UpdateHash, UpdateHashFails, UpdateModifiedAt, CloseConnection, Arrived, netVars
    <3>3. toServer'[r] = toServer[r] \/ (toServer[r] # <<>> /\ toServer'[r] = Tail(toServer[r]))
      BY <1>0, <3>2 DEF Receive
    <3> QED
      BY <1>1, <1>2, <1>3, <3>1, <3>3
  <2> QED
    BY <1>7, <2>1, <2>2 DEF ServerStep, Works
<1>8. ASSUME NEW q \in Runs, ClientStep(q)
      PROVE  Asking(r)'
  <2>1. CASE q # r
    BY <1>0, <1>1, <1>2, <1>8, <2>1, ClientAlone DEF Local
  <2>2. CASE q = r
    <3>1. ASSUME NEW state, BecomeClient(r, state)
          PROVE  client'[r] = state
      BY <1>0, <3>1 DEF BecomeClient
    <3>2. InitiateSync(r)
      BY <1>1, <1>8, <2>2, <3>1 DEF ClientStep, OnLatest, OnNotLatest, OnTreeConfirmation,
         OnNoSyncNeeded, OnRequestFile, OnFileConfirmation, OnClosed, Finished, FileDone
    <3> QED
      BY <1>4, <3>2
  <2> QED
    BY <2>1, <2>2
<1>9. ASSUME NEW q \in Runs, Environment(q)
      PROVE  Asking(r)'
  <2>1. CASE ParseError(q) \/ BrokenPipe(q)
    BY <1>5, <2>1 DEF ParseError, BrokenPipe, Terminate
  <2>2. CASE ~ (ParseError(q) \/ BrokenPipe(q))
    <3>1. \E state \in {"idle", "dead"} : client' = [client EXCEPT ![q] = state]
      BY <1>9, <2>2 DEF Environment, Start, OnCoalesced, KillClient, ClientBrokenPipe, Dies,
         Finished, BecomeClient
    <3>2. r # q /\ client[r] = "await_latest"
      BY <1>0, <1>1, <3>1
    <3>3. treeJson'[r] = treeJson[r] /\ toServer'[r] = toServer[r]
      BY <1>0, <1>9, <2>2, <3>2 DEF Environment, Start, OnCoalesced, KillClient, ClientBrokenPipe
    <3> QED
      BY <1>2, <3>2, <3>3
  <2> QED
    BY <2>1, <2>2
<1>10. ASSUME NEW m \in Machines, Edit(m)
       PROVE  Asking(r)'
  BY <1>6, <1>10 DEF Edit, Write, Delete, Rename, Change, netVars
<1>11. CASE Kill
  BY <1>5, <1>11 DEF Kill, Terminate
<1>12. CASE Restart \/ NextSecond
  BY <1>6, <1>12 DEF Restart, NextSecond, clientSide, netVars
<1>13. CASE UNCHANGED vars
  BY <1>6, <1>13 DEF vars, clientSide, netVars
<1> QED
  BY <1>7, <1>8, <1>9, <1>10, <1>11, <1>12, <1>13 DEF Next

\* Both sides list the names in one order, and no file has anything after its
\* last complete chunk.
Comparable ==
    /\ ServerOrder = ClientOrder
    /\ Names \subseteq {ServerOrder[i] : i \in 1..Len(ServerOrder)}
    /\ \A s, t \in Tails : s = t

\* Only one step says "latest".
LEMMA SaysLatest ==
    ASSUME DInv, [Next]_vars, NEW r \in Runs, toClient'[r] = Append(toClient[r], Latest)
    PROVE  IsLatest(r)
<1>0. /\ IInv /\ toClient[r] \in Seq(ServerMessages) /\ toClient \in [Runs -> Seq(ServerMessages)]
  BY DEF DInv, IInv, TypeOK, NetOK
<1>1. /\ Len(toClient'[r]) = Len(toClient[r]) + 1 /\ Len(toClient[r]) \in Nat
      /\ Latest \in ServerMessages
  BY <1>0, AppendProperties, LenProperties, Constructors
<1>2. toClient'[r] # toClient[r] /\ toClient'[r] # <<>>
  <2> DEFINE s == toClient[r]
             t == toClient'[r]
  <2>1. Len(t) = Len(s) + 1 /\ Len(s) \in Nat
    BY <1>1
  <2> HIDE DEF s, t
  <2>2. Len(<<>>) = 0 /\ Len(t) # Len(s) /\ Len(t) # 0
    BY <2>1
  <2>3. t # s /\ t # <<>>
    BY <2>2
  <2> QED
    BY <2>3 DEF s, t
<1>3. ASSUME NEW m \in ServerMessages, Reply(r, m)
      PROVE  m = Latest
  <2>1. toClient'[r] \in {toClient[r], Append(toClient[r], m)}
    BY <1>0, <1>3 DEF Reply
  <2>2. Append(toClient[r], m) = Append(toClient[r], Latest)
    BY <1>2, <2>1
  <2> DEFINE s == toClient[r]
  <2>3. s \in Seq(ServerMessages) /\ Append(s, m) = Append(s, Latest)
    BY <1>0, <2>2
  <2> HIDE DEF s
  <2> QED
    BY <1>1, <2>3, AppendInjective
<1>4. ASSUME toClient[r] # <<>>, toClient'[r] = Tail(toClient[r])
      PROVE  FALSE
  <2>1. Len(toClient'[r]) = Len(toClient[r]) - 1
    BY <1>0, <1>4, Pops
  <2> QED
    BY <1>1, <2>1
<1>5. ASSUME NEW q \in Runs, ServerStep(q)
      PROVE  IsLatest(r)
  <2>1. ~ (ReceiveTornTree(q) \/ ReceiveFileHeaderNowhere(q))
    BY <1>2 DEF ReceiveTornTree, ReceiveFileHeaderNowhere, Terminate
  <2>2. Works(q)
    BY <1>5, <2>1 DEF ServerStep, Works
  <2>3. q = r
    BY <1>0, <1>2, <2>2, WorksAlone DEF Moves
  <2>4. CASE Request(r)
    <3>1. PICK file \in addedFiles[r] : Reply(r, RequestFile(file, Cardinality(addedFiles[r])))
      BY <2>4 DEF Request
    <3>2. RequestFile(file, Cardinality(addedFiles[r])) \in ServerMessages
      <4>1. JobOK /\ addedFiles[r] \subseteq Names \cup {Root}
        BY <1>0 DEF IInv, TypeOK, JobOK
      <4> QED
        BY <3>1, <4>1, RequestCount, Constructors
    <3>3. RequestFile(file, Cardinality(addedFiles[r])) # Latest
      BY DEF RequestFile, Latest
    <3> QED
      BY <1>3, <3>1, <3>2, <3>3
  <2>5. CASE CompareTimestamps(r)
    <3>1. PICK flag \in BOOLEAN : Reply(r, NotLatest(flag))
      BY <2>5 DEF CompareTimestamps
    <3>2. NotLatest(flag) \in ServerMessages /\ NotLatest(flag) # Latest
      BY Constructors DEF NotLatest, Latest
    <3> QED
      BY <1>3, <3>1, <3>2
  <2>6. CASE ConfirmTree(r) \/ NoSync(r) \/ ConfirmFile(r)
    <3>1. Reply(r, Confirmation) \/ Reply(r, NoSyncNeeded)
      BY <2>6 DEF ConfirmTree, NoSync, ConfirmFile
    <3>2. /\ Confirmation \in ServerMessages /\ Confirmation # Latest
          /\ NoSyncNeeded \in ServerMessages /\ NoSyncNeeded # Latest
      BY Constructors DEF Confirmation, NoSyncNeeded, Latest
    <3> QED
      BY <1>3, <3>1, <3>2
  <2>7. CASE ~ (IsLatest(r) \/ Request(r) \/ CompareTimestamps(r) \/ ConfirmTree(r) \/ NoSync(r)
                \/ ConfirmFile(r))
    BY <1>2, <2>2, <2>3, <2>7
    DEF Works, IsNotLatest, ReceiveTreeHeader, AcquireSemaphore, ReceiveTree, TreeReception,
        TreeReceptionNowhere, ReceiveFileHeader, SkipFile, ReceiveFile, ReceiveTornFile,
        UpdateHash, UpdateHashFails, UpdateModifiedAt, CloseConnection, netVars
  <2> QED
    BY <2>4, <2>5, <2>6, <2>7
<1>6. ASSUME NEW q \in Runs, ClientStep(q)
      PROVE  FALSE
  <2>1. toClient' = toClient \/ (toClient[q] # <<>> /\ Take(q))
    BY <1>6 DEF ClientStep, InitiateSync, OnLatest, OnNotLatest, OnTreeConfirmation,
         OnNoSyncNeeded, OnRequestFile, OnFileConfirmation, OnClosed, Answer, netVars
  <2>2. toClient[r] # <<>> /\ toClient'[r] = Tail(toClient[r])
    BY <1>0, <1>2, <2>1 DEF Take
  <2> QED
    BY <1>4, <2>2
<1>7. ASSUME NEW q \in Runs, Environment(q)
      PROVE  FALSE
  BY <1>0, <1>2, <1>7 DEF Environment, Start, ParseError, BrokenPipe, Terminate, OnCoalesced,
     KillClient, ClientBrokenPipe, Dies
<1>8. ASSUME NEW m \in Machines, Edit(m)
      PROVE  FALSE
  BY <1>2, <1>8 DEF Edit, Write, Delete, Rename, Change, netVars
<1>9. ~ (Kill \/ Restart \/ NextSecond \/ UNCHANGED vars)
  BY <1>2 DEF Kill, Terminate, Restart, NextSecond, vars, netVars
<1> QED
  BY <1>5, <1>6, <1>7, <1>8, <1>9 DEF Next

\* A client is told that it has the latest version only if its directory and
\* the server's are the same (FileChangeDetector.h 5), for one machine that only
\* writes: the hash names no file, but the server's names are among the
\* client's.  Bytes after the last complete chunk are not hashed, and with two
\* orders two directories can have one hash.
THEOREM LatestIsEqual ==
    ASSUME SingleWriter, Comparable
    PROVE  Spec => LatestMeansEqual
<1> DEFINE LInv == WInv /\ \A r \in Runs : Asking(r)
           Told(r) ==
               /\ toClient'[r] = Append(toClient[r], Latest)
               /\ buildTree(localDir[Home[r]]) = treeJson[r]
               => files = localDir[Home[r]]
<1>1. Init => LInv
  <2>1. Init => \A r \in Runs : Asking(r)
    BY DEF Init, Asking
  <2> QED
    BY <2>1, WriterInitially
<1>2. LInv /\ [Next]_vars => LInv'
  <2>1. WInv => DInv
    BY DEF WInv
  <2> QED
    BY <2>1, WriterGoesOn, AskingGoesOn
<1>3. LInv /\ [Next]_vars => [\A r \in Runs : Told(r)]_vars
  <2> SUFFICES ASSUME LInv, [Next]_vars, NEW r \in Runs,
                      toClient'[r] = Append(toClient[r], Latest),
                      buildTree(localDir[Home[r]]) = treeJson[r]
               PROVE  files = localDir[Home[r]]
    OBVIOUS
  <2>1. /\ IsLatest(r) /\ WInv /\ DInv /\ RunInv(r) /\ Asking(r) /\ Current
        /\ toServer[r] \in Seq(ClientMessages) /\ client[r] \in ClientStates
        /\ files \in Workspaces /\ localDir[Home[r]] \in Workspaces /\ treeJson[r] \in Trees
    BY SaysLatest, EnvironmentAssumption
    DEF WInv, DInv, IInv, TypeOK, StoreOK, NetOK, ClientOK, MachineOK
  <2>2. /\ handler[r] = "poll" /\ toServer[r] # <<>>
        /\ Head(toServer[r]) = toServer[r][1] /\ toServer[r][1].type = "check_latest"
        /\ Len(toServer[r]) > 0 /\ Len(toServer[r]) \in Nat
        /\ toServer[r][1].hash = workspaceHash[User(r)]
    BY <2>1, Pops DEF IsLatest, Arrived
  <2>3. /\ link[r] = "up" /\ Inside(r)
        /\ \A q \in Runs : q # r => handler[q] = "none"
    BY <2>1, WriterThread DEF Works
  <2>4. client[r] = "await_latest"
    <3>1. Alive(r)
      BY <2>1, <2>2, <2>3 DEF RunInv, Connected, Alive
    <3> QED
      BY <2>1, <2>2, <3>1
      DEF RunInv, Together, Idle, AwaitsConfirmation, AwaitsResponse, AwaitsFileConfirmation,
          AwaitsNext, Empty, One, Two, Alive, ClientStates, Awaiting
  <2>5. toServer[r][1].hash = combineHashes(treeJson[r], ClientOrder)
    BY <2>1, <2>2, <2>4 DEF Asking
  <2>6. workspaceHash[User(r)] = combineHashes(buildTree(files), ServerOrder)
    <3>1. \A q \in Runs : handler[q] \notin Transferring
      BY <2>2, <2>3 DEF Transferring
    <3>2. User(r) \in Users
      BY EnvironmentAssumption DEF User
    <3> QED
      BY <2>1, <3>1, <3>2 DEF Current, treeHash
  <2>7. buildTree(files) = treeJson[r]
    <3>1. buildTree(files) \in Trees /\ DOMAIN buildTree(files) \subseteq DOMAIN treeJson[r]
      BY <2>1, <2>3, BuildTreeType DEF Inside, Known
    <3>2. /\ ServerOrder \in Seq(Names) /\ ServerOrder = ClientOrder
          /\ Names \subseteq {ServerOrder[i] : i \in 1..Len(ServerOrder)}
      BY DirectoryAssumption DEF Comparable
    <3> QED
      BY <2>1, <2>2, <2>5, <2>6, <3>1, <3>2, HashTellsApart
  <2> DEFINE dir == localDir[Home[r]]
  <2>8. DOMAIN files = DOMAIN dir /\ \A n \in DOMAIN files : files[n].chunks = dir[n].chunks
    <3>1. buildTree(files) = buildTree(dir)
      BY <2>7
    <3>2. /\ DOMAIN buildTree(files) = DOMAIN files /\ DOMAIN buildTree(dir) = DOMAIN dir
          /\ \A n \in DOMAIN files : buildTree(files)[n] = files[n].chunks
          /\ \A n \in DOMAIN dir : buildTree(dir)[n] = dir[n].chunks
      BY DEF buildTree, calculateHash
    <3> QED
      BY <3>1, <3>2
  <2>9. /\ files = [n \in DOMAIN files |-> files[n]] /\ dir = [n \in DOMAIN dir |-> dir[n]]
        /\ (\A n \in DOMAIN files : files[n] \in Contents) /\ \A n \in DOMAIN dir : dir[n] \in Contents
    BY <2>1 DEF Workspaces
  <2> HIDE DEF dir
  <2>10. \A n \in DOMAIN files : files[n] = dir[n]
    BY <2>8, <2>9 DEF Contents, Comparable
  <2> QED
    BY <2>8, <2>9, <2>10 DEF dir
<1>4. [][\A r \in Runs : Told(r)]_vars <=> LatestMeansEqual
  BY DEF LatestMeansEqual
<1> QED
  BY <1>1, <1>2, <1>3, <1>4, PTL DEF Spec
=============================================================================
