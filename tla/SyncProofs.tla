----------------------------- MODULE SyncProofs -----------------------------
(***************************************************************************)
(* What holds of Sync for every set of names, contents, accounts, machines *)
(* and runs, and for every choice of faults.                               *)
(***************************************************************************)
EXTENDS Sync, FiniteSetTheorems, SequenceTheorems, TLAPS

-----------------------------------------------------------------------------
(* The operators on directories and trees.                                 *)

LEMMA BuildTreeType ==
    ASSUME NEW dir \in Workspaces
    PROVE  buildTree(dir) \in Trees /\ DOMAIN buildTree(dir) = DOMAIN dir
BY DEF Workspaces, Trees, buildTree, calculateHash, Contents

LEMMA TreeHashType ==
    ASSUME NEW dir \in Workspaces
    PROVE  /\ treeHash(dir, ServerOrder) \in Hashes
           /\ treeHash(dir, ClientOrder) \in Hashes
BY BuildTreeType DEF treeHash, Hashes

LEMMA WithoutType ==
    ASSUME NEW dir \in Workspaces, NEW gone
    PROVE  Without(dir, gone) \in Workspaces
<1>1. /\ DOMAIN dir \subseteq Names
      /\ \A n \in DOMAIN dir : dir[n] \in Contents
  BY DEF Workspaces
<1>2. Without(dir, gone) \in [DOMAIN dir \ gone -> Contents]
  BY <1>1 DEF Without
<1>3. DOMAIN dir \ gone \in SUBSET Names
  BY <1>1
<1> QED
  BY <1>2, <1>3 DEF Workspaces

LEMMA WrittenType ==
    ASSUME NEW dir \in Workspaces, NEW n \in Names, NEW c \in Contents
    PROVE  Written(dir, n, c) \in Workspaces
<1>1. /\ DOMAIN dir \subseteq Names
      /\ \A k \in DOMAIN dir : dir[k] \in Contents
  BY DEF Workspaces
<1>2. Written(dir, n, c) \in [DOMAIN dir \cup {n} -> Contents]
  BY <1>1 DEF Written
<1>3. DOMAIN dir \cup {n} \in SUBSET Names
  BY <1>1
<1> QED
  BY <1>2, <1>3 DEF Workspaces

LEMMA EmptyFileType == EmptyFile \in Contents
BY ContentAssumption DEF EmptyFile, Contents

LEMMA AddedType ==
    ASSUME NEW base \in Trees, NEW current \in Trees
    PROVE  AddedNodes(base, current) \subseteq Names
BY DEF Trees, AddedNodes, ModifiedNodes

-----------------------------------------------------------------------------
(* The operators on the two channels of a connection.                      *)

LEMMA ReceiveType ==
    ASSUME NetOK, NEW r \in Runs, toServer[r] # <<>>
    PROVE  /\ Head(toServer[r]) \in ClientMessages
           /\ Receive(r) => toServer' \in [Runs -> Seq(ClientMessages)]
<1>1. toServer[r] \in Seq(ClientMessages)
  BY DEF NetOK
<1>2. Head(toServer[r]) \in ClientMessages /\ Tail(toServer[r]) \in Seq(ClientMessages)
  BY <1>1, HeadTailProperties
<1> QED
  BY <1>2 DEF NetOK, Receive

LEMMA TakeType ==
    ASSUME NetOK, NEW r \in Runs, toClient[r] # <<>>
    PROVE  /\ Head(toClient[r]) \in ServerMessages
           /\ Take(r) => toClient' \in [Runs -> Seq(ServerMessages)]
<1>1. toClient[r] \in Seq(ServerMessages)
  BY DEF NetOK
<1>2. Head(toClient[r]) \in ServerMessages /\ Tail(toClient[r]) \in Seq(ServerMessages)
  BY <1>1, HeadTailProperties
<1> QED
  BY <1>2 DEF NetOK, Take

LEMMA ReplyType ==
    ASSUME NetOK, NEW r \in Runs, NEW m \in ServerMessages, Reply(r, m)
    PROVE  toClient' \in [Runs -> Seq(ServerMessages)]
<1>1. toClient[r] \in Seq(ServerMessages)
  BY DEF NetOK
<1>2. Append(toClient[r], m) \in Seq(ServerMessages)
  BY <1>1, AppendProperties
<1> QED
  BY <1>2 DEF NetOK, Reply

LEMMA SendType ==
    ASSUME NetOK, NEW r \in Runs, NEW ms \in Seq(ClientMessages), Send(r, ms)
    PROVE  toServer' \in [Runs -> Seq(ClientMessages)]
<1>1. toServer[r] \in Seq(ClientMessages)
  BY DEF NetOK
<1>2. toServer[r] \o ms \in Seq(ClientMessages)
  BY <1>1, ConcatProperties
<1> QED
  BY <1>2 DEF NetOK, Send

LEMMA Constructors ==
    /\ \A h \in Hashes : CheckLatest(h) \in ClientMessages
    /\ \A flag \in BOOLEAN : TreeHeader(flag) \in ClientMessages
    /\ \A tree \in Trees : TreeData(tree) \in ClientMessages
    /\ \A file \in Names : FileHeader(file) \in ClientMessages
    /\ \A content \in Contents : FileData(content) \in ClientMessages
    /\ {Latest, Confirmation, NoSyncNeeded} \subseteq ServerMessages
    /\ \A flag \in BOOLEAN : NotLatest(flag) \in ServerMessages
    /\ \A file \in Names \cup {Root}, n \in Nat \ {0} :
           RequestFile(file, n) \in ServerMessages
BY DEF CheckLatest, TreeHeader, TreeData, FileHeader, FileData, Latest, Confirmation,
       NoSyncNeeded, NotLatest, RequestFile, ClientMessages, ServerMessages

\* What the type of a client's message says of its other fields.
LEMMA Fields ==
    /\ \A m \in ClientMessages :
         /\ m.type = "tree" => m.ahead \in BOOLEAN
         /\ m.type = "tree_data" => m.tree \in Trees
         /\ m.type = "file_transfer" => m.file \in Names
         /\ m.type = "file_data" => m.content \in Contents
    /\ \A m \in ServerMessages :
         /\ m.type = "not_latest" => m.ahead \in BOOLEAN
         /\ m.type = "request_file" => m.file \in Names \cup {Root}
                                       /\ m.remaining \in Nat \ {0}
BY DEF ClientMessages, ServerMessages, Latest, Confirmation, NoSyncNeeded

LEMMA RequestCount ==
    ASSUME JobOK, NEW r \in Runs, addedFiles[r] # {}
    PROVE  Cardinality(addedFiles[r]) \in Nat \ {0}
<1>1. IsFiniteSet(Names \cup {Root})
  BY DirectoryAssumption, FS_AddElement
<1>2. IsFiniteSet(addedFiles[r])
  BY <1>1, FS_Subset DEF JobOK
<1> QED
  BY <1>2, FS_CardinalityType, FS_EmptySet

-----------------------------------------------------------------------------
(* Who holds the semaphore after a thread has moved on.                    *)

LEMMA Stays ==
    ASSUME ProcessOK, NEW r \in Runs, NEW state, GoTo(r, state),
           handler[r] \in Holding <=> state \in Holding
    PROVE  Holders' = Holders
BY DEF ProcessOK, GoTo, Holders

LEMMA Enters ==
    ASSUME ProcessOK, NEW r \in Runs, NEW state \in Holding, GoTo(r, state)
    PROVE  Holders' = Holders \cup {r}
BY DEF ProcessOK, GoTo, Holders

LEMMA Leaves ==
    ASSUME ProcessOK, NEW r \in Runs, NEW state, GoTo(r, state),
           state \notin Holding
    PROVE  Holders' = Holders \ {r}
BY DEF ProcessOK, GoTo, Holders

LEMMA MovesOn ==
    ASSUME ProcessOK, NEW r \in Runs, NEW state \in HandlerStates, GoTo(r, state)
    PROVE  handler' \in [Runs -> HandlerStates]
BY DEF ProcessOK, GoTo

\* Both hold of every state: no thread serves a run that has not started, and
\* a file being received has the name of a file, never that of the root.
Unserved == \A r \in Runs : client[r] = "off" => handler[r] = "none"

ReceivesFile == \A r \in Runs : handler[r] = "file_data" => incoming[r] \in Names

IInv == TypeOK /\ OneTransfer /\ Unserved /\ ReceivesFile

\* A thread that holds the semaphore is the only one, and the semaphore is 0.
LEMMA Alone ==
    ASSUME OneTransfer, NEW r \in Runs, handler[r] \in Holding
    PROVE  Holders = {r} /\ semaphore = 0
BY DEF OneTransfer, Holders

LEMMA Initially == Init => IInv
<1> SUFFICES ASSUME Init PROVE IInv
  OBVIOUS
<1> USE DirectoryAssumption, EnvironmentAssumption
<1>1. ProcessOK /\ JobOK
  BY DEF Init, ProcessOK, JobOK, HandlerStates
<1>2. StoreOK
  <2>1. \A m \in Machines : treeHash(InitialDir[m], ClientOrder) \in Hashes
    BY TreeHashType
  <2>2. workspaceHash \in [Users -> Hashes]
    BY <2>1 DEF Init
  <2> QED
    BY <2>2, BuildTreeType DEF Init, StoreOK
<1>3. MachineOK
  BY DEF Init, MachineOK
<1>4. ClientOK
  BY BuildTreeType DEF Init, ClientOK, ClientStates
<1>5. NetOK
  BY DEF Init, NetOK
<1>6. Holders = {}
  BY DEF Init, Holders, Holding
<1>7. OneTransfer
  BY <1>6 DEF Init, OneTransfer
<1>8. Unserved /\ ReceivesFile
  BY DEF Init, Unserved, ReceivesFile
<1> QED
  BY <1>1, <1>2, <1>3, <1>4, <1>5, <1>7, <1>8 DEF IInv, TypeOK

-----------------------------------------------------------------------------
(* What an action leaves alone keeps its type.                             *)

LEMMA Frames ==
    ASSUME IInv
    PROVE  /\ UNCHANGED <<processVars, handler>> => ProcessOK'
           /\ UNCHANGED jobVars => JobOK'
           /\ UNCHANGED storeVars => StoreOK'
           /\ UNCHANGED machineVars => MachineOK'
           /\ UNCHANGED <<client, treeJson, remaining, watching, watchEvents>> => ClientOK'
           /\ UNCHANGED netVars => NetOK'
           /\ UNCHANGED <<processVars, handler>> => OneTransfer'
           /\ UNCHANGED <<handler, client>> => Unserved'
           /\ UNCHANGED <<handler, incoming>> => ReceivesFile'
BY DEF IInv, TypeOK, ProcessOK, JobOK, StoreOK, MachineOK, ClientOK, NetOK,
       processVars, jobVars, storeVars, machineVars, netVars, OneTransfer,
       Holders, Unserved, ReceivesFile

\* The three ways in which a thread moves: it holds the semaphore before and
\* after or neither, it takes it, it posts it.
Keeps(r, state) ==
    (handler[r] \in Holding <=> state \in Holding) /\ semaphore' = semaphore
Waits(r, state) ==
    /\ handler[r] \notin Holding /\ state \in Holding
    /\ semaphore > 0 /\ semaphore' = semaphore - 1
Posts(r, state) ==
    /\ handler[r] \in Holding /\ state \notin Holding
    /\ semaphore' = semaphore + 1

LEMMA Move ==
    ASSUME IInv, NEW r \in Runs, NEW state \in HandlerStates, GoTo(r, state),
           handler[r] # "none", UNCHANGED <<running, client>>,
           Keeps(r, state) \/ Waits(r, state) \/ Posts(r, state),
           \A s \in Runs : s # r => incoming'[s] = incoming[s],
           state = "file_data" => incoming'[r] \in Names
    PROVE  ProcessOK' /\ OneTransfer' /\ Unserved' /\ ReceivesFile'
<1>1. ProcessOK /\ handler' \in [Runs -> HandlerStates]
  BY MovesOn DEF IInv, TypeOK
<1>2. \A s \in Runs : handler'[s] = IF s = r THEN state ELSE handler[s]
  BY DEF GoTo, IInv, TypeOK, ProcessOK
<1>3. Unserved' /\ ReceivesFile'
  BY <1>2 DEF IInv, Unserved, ReceivesFile
<1>4. semaphore' \in {0, 1} /\ OneTransfer'
  <2>1. CASE Keeps(r, state)
    BY <1>1, <2>1, Stays DEF Keeps, IInv, OneTransfer, ProcessOK
  <2>2. CASE Waits(r, state)
    <3>1. Holders = {} /\ semaphore = 1
      BY <2>2, <1>1 DEF Waits, IInv, OneTransfer, ProcessOK
    <3>2. Holders' = {r} /\ semaphore' = 0
      BY <3>1, <2>2, <1>1, Enters DEF Waits
    <3> QED
      BY <3>2 DEF OneTransfer
  <2>3. CASE Posts(r, state)
    <3>1. Holders = {r} /\ semaphore = 0
      BY <2>3, Alone DEF Posts, IInv
    <3>2. Holders' = {} /\ semaphore' = 1
      BY <3>1, <2>3, <1>1, Leaves DEF Posts
    <3> QED
      BY <3>2 DEF OneTransfer
  <2> QED
    BY <2>1, <2>2, <2>3
<1> QED
  BY <1>1, <1>3, <1>4 DEF ProcessOK
-----------------------------------------------------------------------------
(* One step of the server.                                                 *)

LEMMA TerminatePreserves ==
    ASSUME IInv, Terminate
    PROVE  IInv'
<1> USE DEF clientSide, jobVars, storeVars, machineVars
<1>1. ProcessOK' /\ Holders' = {}
  BY DEF Terminate, IInv, TypeOK, ProcessOK, HandlerStates, Holding, Holders
<1>2. NetOK'
  <2>1. <<>> \in Seq(ClientMessages)
    OBVIOUS
  <2> QED
    BY <2>1 DEF Terminate, IInv, TypeOK, NetOK
<1>3. OneTransfer'
  BY <1>1 DEF Terminate, OneTransfer
<1>4. Unserved' /\ ReceivesFile'
  BY DEF Terminate, IInv, Unserved, ReceivesFile
<1> QED
  BY <1>1, <1>2, <1>3, <1>4, Frames DEF Terminate, IInv, TypeOK

LEMMA ServerPreserves ==
    ASSUME IInv, NEW r \in Runs, ServerStep(r)
    PROVE  IInv'
<1> USE DEF serverSide, clientSide, processVars, jobVars, storeVars, machineVars, netVars
<1>0. /\ ProcessOK /\ JobOK /\ StoreOK /\ MachineOK /\ ClientOK /\ NetOK
      /\ \A n \in {Latest, Confirmation, NoSyncNeeded} : n \in ServerMessages
  BY Constructors DEF IInv, TypeOK
<1> DEFINE Moved == ProcessOK' /\ OneTransfer' /\ Unserved' /\ ReceivesFile'
<1>1. CASE IsLatest(r)
  <2>1. NetOK'
    BY <1>0, <1>1, ReceiveType, ReplyType DEF IsLatest, Arrived, NetOK
  <2> QED
    BY <1>1, <2>1, Frames DEF IsLatest, IInv, TypeOK
<1>2. CASE IsNotLatest(r)
  <2>1. NetOK'
    BY <1>0, <1>2, ReceiveType DEF IsNotLatest, Arrived, NetOK
  <2>2. Moved
    BY <1>2, Move DEF IsNotLatest, Keeps, Holding, HandlerStates
  <2> QED
    BY <1>2, <2>1, <2>2, Frames DEF IsNotLatest, IInv, TypeOK
<1>3. CASE CompareTimestamps(r)
  <2>1. PICK flag \in BOOLEAN : Reply(r, NotLatest(flag))
    BY <1>3 DEF CompareTimestamps
  <2>2. NetOK'
    BY <1>0, <1>3, <2>1, ReplyType, Constructors DEF CompareTimestamps, NetOK
  <2>3. Moved
    BY <1>3, Move DEF CompareTimestamps, Keeps, Holding, HandlerStates
  <2> QED
    BY <1>3, <2>2, <2>3, Frames DEF CompareTimestamps, IInv, TypeOK
<1>4. CASE ReceiveTreeHeader(r)
  <2>1. NetOK'
    BY <1>0, <1>4, ReceiveType DEF ReceiveTreeHeader, Arrived, NetOK
  <2>2. JobOK'
    BY <1>0, <1>4, ReceiveType, Fields DEF ReceiveTreeHeader, Arrived, JobOK
  <2>3. Moved
    BY <1>4, Move DEF ReceiveTreeHeader, Keeps, Holding, HandlerStates
  <2> QED
    BY <1>4, <2>1, <2>2, <2>3, Frames DEF ReceiveTreeHeader, IInv, TypeOK
<1>5. CASE AcquireSemaphore(r)
  <2>1. Moved
    BY <1>5, Move DEF AcquireSemaphore, Waits, Holding, HandlerStates
  <2> QED
    BY <1>5, <2>1, Frames DEF AcquireSemaphore, IInv, TypeOK
<1>6. CASE ReceiveTree(r)
  <2>1. NetOK'
    BY <1>0, <1>6, ReceiveType DEF ReceiveTree, Arrived, NetOK
  <2>2. StoreOK'
    BY <1>0, <1>6, ReceiveType, Fields DEF ReceiveTree, Arrived, StoreOK
  <2>3. Moved
    BY <1>6, Move DEF ReceiveTree, Keeps, Holding, HandlerStates
  <2> QED
    BY <1>6, <2>1, <2>2, <2>3, Frames DEF ReceiveTree, IInv, TypeOK
<1>7. CASE ConfirmTree(r)
  <2>1. NetOK'
    BY <1>0, <1>7, ReplyType DEF ConfirmTree, NetOK
  <2>2. Moved
    BY <1>7, Move DEF ConfirmTree, Keeps, Holding, HandlerStates
  <2> QED
    BY <1>7, <2>1, <2>2, Frames DEF ConfirmTree, IInv, TypeOK
<1>8. ASSUME NEW added \in SUBSET (Names \cup {Root}), AfterComparison(r, added),
             handler[r] = "compare",
             UNCHANGED <<processVars, client, hostname, ahead, incoming>>
      PROVE  JobOK' /\ Moved
  <2> DEFINE state == IF added = {} THEN "no_sync" ELSE "request"
  <2>1. state \in HandlerStates /\ state \in Holding /\ state # "file_data"
    BY DEF Holding, HandlerStates
  <2>2. GoTo(r, state)
    BY <1>8 DEF AfterComparison
  <2>3. Keeps(r, state)
    BY <1>8, <2>1 DEF Keeps, Holding
  <2> HIDE DEF state
  <2>4. Moved
    BY <1>8, <2>1, <2>2, <2>3, Move
  <2> QED
    BY <1>0, <1>8, <2>4 DEF AfterComparison, JobOK
<1>9. CASE TreeReception(r)
  <2> DEFINE own == buildTree(files)
             base == IF ahead[r] THEN treeFile ELSE own
             current == IF ahead[r] THEN own ELSE treeFile
             root == IF ~ahead[r] /\ RootModified(base, current) THEN {Root} ELSE {}
             added == AddedNodes(base, current) \cup root
  <2>1. base \in Trees /\ current \in Trees
    BY <1>0, BuildTreeType DEF StoreOK
  <2>2. added \in SUBSET (Names \cup {Root})
    BY <2>1, AddedType
  <2>3. /\ AfterComparison(r, added)
        /\ files' = Without(files, RemovedNodes(base, current))
    BY <1>9 DEF TreeReception
  <2>4. StoreOK'
    <3>1. files' \in Workspaces
      BY <1>0, <2>3, WithoutType DEF StoreOK
    <3> QED
      BY <1>0, <1>9, <3>1, BuildTreeType DEF TreeReception, StoreOK
  <2> HIDE DEF added
  <2>5. JobOK' /\ Moved
    BY <1>8, <1>9, <2>2, <2>3 DEF TreeReception
  <2> QED
    BY <1>9, <2>4, <2>5, Frames DEF TreeReception, IInv, TypeOK
<1>10. CASE TreeReceptionNowhere(r)
  <2> DEFINE added == IF ahead[r] THEN {} ELSE DOMAIN treeFile \cup {Root}
  <2>1. added \in SUBSET (Names \cup {Root})
    BY <1>0 DEF StoreOK, Trees
  <2>2. AfterComparison(r, added)
    BY <1>10 DEF TreeReceptionNowhere
  <2> HIDE DEF added
  <2>3. JobOK' /\ Moved
    BY <1>8, <1>10, <2>1, <2>2 DEF TreeReceptionNowhere
  <2> QED
    BY <1>10, <2>3, Frames DEF TreeReceptionNowhere, IInv, TypeOK
<1>11. CASE NoSync(r)
  <2>1. NetOK'
    BY <1>0, <1>11, ReplyType DEF NoSync, NetOK
  <2>2. Moved
    BY <1>11, Move DEF NoSync, Posts, Holding, HandlerStates
  <2> QED
    BY <1>11, <2>1, <2>2, Frames DEF NoSync, IInv, TypeOK
<1>12. CASE Request(r)
  <2>1. PICK file \in addedFiles[r] :
          /\ Reply(r, RequestFile(file, Cardinality(addedFiles[r])))
          /\ addedFiles' = [addedFiles EXCEPT ![r] = @ \ {file}]
    BY <1>12 DEF Request
  <2>2. JobOK' /\ file \in Names \cup {Root}
    BY <1>0, <1>12, <2>1 DEF Request, JobOK
  <2>3. RequestFile(file, Cardinality(addedFiles[r])) \in ServerMessages
    BY <1>0, <2>2, RequestCount, Constructors
  <2>4. NetOK'
    BY <1>0, <1>12, <2>1, <2>3, ReplyType DEF Request, NetOK
  <2>5. Moved
    BY <1>12, Move DEF Request, Keeps, Holding, HandlerStates
  <2> QED
    BY <1>12, <2>2, <2>4, <2>5, Frames DEF Request, IInv, TypeOK
<1>13. ASSUME NextFile(r), handler[r] \in Holding, UNCHANGED <<processVars, client, incoming>>
       PROVE  Moved
  <2> DEFINE state == IF addedFiles[r] = {} THEN "rehash" ELSE "request"
  <2>1. state \in HandlerStates /\ state \in Holding /\ state # "file_data"
    BY DEF Holding, HandlerStates
  <2>2. GoTo(r, state) /\ Keeps(r, state) /\ handler[r] # "none"
    BY <1>13, <2>1 DEF NextFile, Keeps, Holding
  <2> HIDE DEF state
  <2> QED
    BY <1>13, <2>1, <2>2, Move
<1>14. CASE ReceiveFileHeader(r)
  <2>1. NetOK'
    BY <1>0, <1>14, ReceiveType DEF ReceiveFileHeader, Arrived, NetOK
  <2>2. Head(toServer[r]).file \in Names
    BY <1>0, <1>14, ReceiveType, Fields DEF ReceiveFileHeader, Arrived
  <2>3. JobOK' /\ incoming'[r] \in Names /\ \A s \in Runs : s # r => incoming'[s] = incoming[s]
    BY <1>0, <1>14, <2>2 DEF ReceiveFileHeader, JobOK
  <2>4. Moved
    BY <1>14, <2>3, Move DEF ReceiveFileHeader, Keeps, Holding, HandlerStates
  <2>5. StoreOK'
    BY <1>0, <1>14, <2>3, WrittenType, EmptyFileType DEF ReceiveFileHeader, StoreOK
  <2> QED
    BY <1>14, <2>1, <2>3, <2>4, <2>5, Frames DEF ReceiveFileHeader, IInv, TypeOK
<1>15. CASE SkipFile(r)
  <2>1. NetOK'
    BY <1>0, <1>15, ReceiveType DEF SkipFile, Arrived, NetOK
  <2>2. Moved
    BY <1>13, <1>15 DEF SkipFile, Holding
  <2> QED
    BY <1>15, <2>1, <2>2, Frames DEF SkipFile, IInv, TypeOK
<1>16. CASE ReceiveFile(r)
  <2>1. NetOK'
    BY <1>0, <1>16, ReceiveType DEF ReceiveFile, Arrived, NetOK
  <2>2. Head(toServer[r]).content \in Contents /\ incoming[r] \in Names
    BY <1>0, <1>16, ReceiveType, Fields DEF ReceiveFile, Arrived, IInv, ReceivesFile
  <2>3. StoreOK'
    BY <1>0, <1>16, <2>2, WrittenType DEF ReceiveFile, StoreOK
  <2>4. Moved
    BY <1>16, Move DEF ReceiveFile, Keeps, Holding, HandlerStates
  <2> QED
    BY <1>16, <2>1, <2>3, <2>4, Frames DEF ReceiveFile, IInv, TypeOK
<1>17. CASE ReceiveTornFile(r)
  <2>1. Moved
    BY <1>13, <1>17 DEF ReceiveTornFile, Holding
  <2> QED
    BY <1>17, <2>1, Frames DEF ReceiveTornFile, IInv, TypeOK
<1>18. CASE ConfirmFile(r)
  <2>1. NetOK'
    BY <1>0, <1>18, ReplyType DEF ConfirmFile, NetOK
  <2>2. Moved
    BY <1>13, <1>18 DEF ConfirmFile, Holding
  <2> QED
    BY <1>18, <2>1, <2>2, Frames DEF ConfirmFile, IInv, TypeOK
<1>19. CASE UpdateHash(r)
  <2>1. StoreOK'
    BY <1>0, <1>19, BuildTreeType, TreeHashType DEF UpdateHash, Rebuild, rebuiltHash,
       StoreOK
  <2>2. Moved
    BY <1>19, Move DEF UpdateHash, Keeps, Holding, HandlerStates
  <2> QED
    BY <1>19, <2>1, <2>2, Frames DEF UpdateHash, IInv, TypeOK
<1>20. CASE UpdateHashFails(r)
  <2>1. StoreOK'
    BY <1>0, <1>20, BuildTreeType DEF UpdateHashFails, Rebuild, StoreOK
  <2>2. Moved
    BY <1>20, Move DEF UpdateHashFails, Posts, Holding, HandlerStates
  <2> QED
    BY <1>20, <2>1, <2>2, Frames DEF UpdateHashFails, IInv, TypeOK
<1>21. CASE UpdateModifiedAt(r)
  <2>1. StoreOK' /\ MachineOK'
    BY <1>0, <1>21, EnvironmentAssumption DEF UpdateModifiedAt, StoreOK, MachineOK, User
  <2>2. Moved
    BY <1>21, Move DEF UpdateModifiedAt, Posts, Holding, HandlerStates
  <2> QED
    BY <1>21, <2>1, <2>2, Frames DEF UpdateModifiedAt, IInv, TypeOK
<1>22. CASE ReceiveTornTree(r)
  BY <1>22, TerminatePreserves DEF ReceiveTornTree
<1>23. CASE ReceiveFileHeaderNowhere(r)
  BY <1>23, TerminatePreserves DEF ReceiveFileHeaderNowhere
<1>24. CASE CloseConnection(r)
  <2>1. Moved
    BY <1>24, Move DEF CloseConnection, Keeps, Holding, HandlerStates
  <2> QED
    BY <1>24, <2>1, Frames DEF CloseConnection, IInv, TypeOK
<1> QED
  BY <1>1, <1>2, <1>3, <1>4, <1>5, <1>6, <1>7, <1>9, <1>10, <1>11, <1>12, <1>14,
     <1>15, <1>16, <1>17, <1>18, <1>19, <1>20, <1>21, <1>22, <1>23,
     <1>24 DEF ServerStep
-----------------------------------------------------------------------------
(* One step of a client.                                                   *)

\* A client that is or has been running never becomes one that has not started.
LEMMA ClientMoves ==
    ASSUME IInv, NEW r \in Runs, NEW state \in ClientStates, BecomeClient(r, state),
           UNCHANGED handler, state # "off"
    PROVE  client' \in [Runs -> ClientStates] /\ Unserved'
BY DEF IInv, TypeOK, ClientOK, BecomeClient, Unserved

LEMMA FinishedType ==
    ASSUME IInv, NEW r \in Runs, Finished(r), UNCHANGED handler
    PROVE  client' \in [Runs -> ClientStates] /\ watching' \subseteq Runs /\ Unserved'
<1>1. BecomeClient(r, "idle") /\ "idle" \in ClientStates
  BY DEF Finished, ClientStates
<1> QED
  BY <1>1, ClientMoves DEF Finished, IInv, TypeOK, ClientOK

LEMMA FileDoneType ==
    ASSUME IInv, NEW r \in Runs, NEW i \in Nat \ {0}, FileDone(r, i),
           UNCHANGED <<handler, treeJson, watchEvents>>
    PROVE  ClientOK' /\ Unserved'
<1>1. CASE i = 1
  BY <1>1, FinishedType DEF FileDone, IInv, TypeOK, ClientOK
<1>2. CASE i # 1
  <2>1. BecomeClient(r, "await_next") /\ "await_next" \in ClientStates
    BY <1>2 DEF FileDone, ClientStates, Awaiting
  <2>2. client' \in [Runs -> ClientStates] /\ Unserved'
    BY <2>1, ClientMoves
  <2>3. i - 1 \in Nat \ {0}
    BY <1>2
  <2> QED
    BY <1>2, <2>2, <2>3 DEF FileDone, IInv, TypeOK, ClientOK
<1> QED
  BY <1>1, <1>2

LEMMA ClientPreserves ==
    ASSUME IInv, NEW r \in Runs, ClientStep(r)
    PROVE  IInv'
<1> USE DEF serverSide, clientSide, processVars, jobVars, storeVars, machineVars, netVars
<1>0. /\ ProcessOK /\ JobOK /\ StoreOK /\ MachineOK /\ ClientOK /\ NetOK
      /\ Home[r] \in Machines /\ localDir[Home[r]] \in Workspaces
  BY EnvironmentAssumption DEF IInv, TypeOK, MachineOK
<1>1. CASE InitiateSync(r)
  <2> DEFINE tree == buildTree(localDir[Home[r]])
             question == <<CheckLatest(treeHash(localDir[Home[r]], ClientOrder))>>
  <2>1. question \in Seq(ClientMessages)
    BY <1>0, TreeHashType, Constructors
  <2>2. Send(r, question)
    BY <1>1 DEF InitiateSync
  <2> HIDE DEF question
  <2>3. NetOK'
    BY <1>0, <1>1, <2>1, <2>2, SendType DEF InitiateSync, NetOK
  <2>4. client' \in [Runs -> ClientStates] /\ Unserved'
    BY <1>1, ClientMoves DEF InitiateSync, ClientStates, Awaiting
  <2>5. tree \in Trees
    BY <1>0, BuildTreeType
  <2>6. watchEvents' \in [Runs -> Nat]
    BY <1>0, <1>1 DEF InitiateSync, ClientOK
  <2>7. ClientOK' /\ MachineOK'
    BY <1>0, <1>1, <2>4, <2>5, <2>6 DEF InitiateSync, ClientOK, MachineOK
  <2> QED
    BY <1>1, <2>3, <2>4, <2>7, Frames DEF InitiateSync, IInv, TypeOK
<1>2. CASE OnLatest(r)
  <2>1. NetOK'
    BY <1>0, <1>2, TakeType DEF OnLatest, NetOK
  <2>2. ClientOK' /\ Unserved'
    BY <1>0, <1>2, FinishedType DEF OnLatest, ClientOK
  <2> QED
    BY <1>2, <2>1, <2>2, Frames DEF OnLatest, IInv, TypeOK
<1>3. CASE OnNotLatest(r)
  <2> DEFINE tree == buildTree(localDir[Home[r]])
             message == <<TreeHeader(Head(toClient[r]).ahead), TreeData(tree)>>
  <2>1. tree \in Trees /\ Head(toClient[r]).ahead \in BOOLEAN
    BY <1>0, <1>3, BuildTreeType, TakeType, Fields DEF OnNotLatest, Answer
  <2>2. treeJson' = [treeJson EXCEPT ![r] = tree] /\ treeJson'[r] = tree
    BY <1>0, <1>3 DEF OnNotLatest, ClientOK
  <2>3. Send(r, message)
    BY <1>3, <2>2 DEF OnNotLatest
  <2>4. message \in Seq(ClientMessages)
    BY <2>1, Constructors
  <2> HIDE DEF message
  <2>5. NetOK'
    BY <1>0, <1>3, <2>3, <2>4, TakeType, SendType DEF OnNotLatest, Answer, NetOK
  <2>6. client' \in [Runs -> ClientStates] /\ Unserved'
    BY <1>3, ClientMoves DEF OnNotLatest, ClientStates, Awaiting
  <2>7. ClientOK'
    BY <1>0, <1>3, <2>1, <2>2, <2>6 DEF OnNotLatest, ClientOK
  <2> QED
    BY <1>3, <2>5, <2>6, <2>7, Frames DEF OnNotLatest, IInv, TypeOK
<1>4. CASE OnTreeConfirmation(r)
  <2>1. NetOK'
    BY <1>0, <1>4, TakeType DEF OnTreeConfirmation, Answer, NetOK
  <2>2. client' \in [Runs -> ClientStates] /\ Unserved'
    BY <1>4, ClientMoves DEF OnTreeConfirmation, ClientStates, Awaiting
  <2>3. ClientOK'
    BY <1>0, <1>4, <2>2 DEF OnTreeConfirmation, ClientOK
  <2> QED
    BY <1>4, <2>1, <2>2, <2>3, Frames DEF OnTreeConfirmation, IInv, TypeOK
<1>5. CASE OnNoSyncNeeded(r)
  <2>1. NetOK'
    BY <1>0, <1>5, TakeType DEF OnNoSyncNeeded, Answer, NetOK
  <2>2. ClientOK' /\ Unserved'
    BY <1>0, <1>5, FinishedType DEF OnNoSyncNeeded, ClientOK
  <2> QED
    BY <1>5, <2>1, <2>2, Frames DEF OnNoSyncNeeded, IInv, TypeOK
<1>6. CASE OnRequestFile(r)
  <2> DEFINE request == Head(toClient[r])
             dir == localDir[Home[r]]
             i == IF client[r] = "await_response" THEN request.remaining ELSE remaining[r]
             message == <<FileHeader(request.file), FileData(dir[request.file])>>
  <2>1. request.remaining \in Nat \ {0}
    BY <1>0, <1>6, TakeType, Fields DEF OnRequestFile, Answer
  <2>2. i \in Nat \ {0}
    BY <1>0, <2>1 DEF ClientOK
  <2>3. toClient' \in [Runs -> Seq(ServerMessages)]
    BY <1>0, <1>6, TakeType DEF OnRequestFile, Answer
  <2>4. ClientOK' /\ Unserved' /\ toServer' \in [Runs -> Seq(ClientMessages)]
    <3>1. CASE request.file \in DOMAIN dir
      <4>1. message \in Seq(ClientMessages)
        BY <1>0, <3>1, Constructors DEF Workspaces
      <4>2. Send(r, message) /\ BecomeClient(r, "await_fconf")
            /\ remaining' = [remaining EXCEPT ![r] = i] /\ UNCHANGED watching
        BY <1>6, <3>1 DEF OnRequestFile
      <4> HIDE DEF message, i
      <4>3. toServer' \in [Runs -> Seq(ClientMessages)]
        BY <1>0, <4>1, <4>2, SendType
      <4>4. client' \in [Runs -> ClientStates] /\ Unserved'
        BY <1>6, <4>2, ClientMoves DEF OnRequestFile, ClientStates, Awaiting
      <4> QED
        BY <1>0, <1>6, <2>2, <4>2, <4>3, <4>4 DEF OnRequestFile, ClientOK
    <3>2. CASE request.file \notin DOMAIN dir
      <4>1. FileDone(r, i) /\ UNCHANGED toServer
        BY <1>6, <3>2 DEF OnRequestFile
      <4> HIDE DEF i
      <4> QED
        BY <1>0, <1>6, <2>2, <4>1, FileDoneType DEF OnRequestFile, NetOK
    <3> QED
      BY <3>1, <3>2
  <2>5. NetOK'
    BY <1>0, <1>6, <2>3, <2>4 DEF OnRequestFile, NetOK
  <2> QED
    BY <1>6, <2>4, <2>5, Frames DEF OnRequestFile, IInv, TypeOK
<1>7. CASE OnFileConfirmation(r)
  <2>1. NetOK'
    BY <1>0, <1>7, TakeType DEF OnFileConfirmation, NetOK
  <2>2. remaining[r] \in Nat \ {0} /\ FileDone(r, remaining[r])
    BY <1>0, <1>7 DEF OnFileConfirmation, ClientOK
  <2>3. ClientOK' /\ Unserved'
    BY <1>7, <2>2, FileDoneType DEF OnFileConfirmation
  <2> QED
    BY <1>7, <2>1, <2>3, Frames DEF OnFileConfirmation, IInv, TypeOK
<1>8. CASE OnClosed(r)
  <2>1. ClientOK' /\ Unserved'
    BY <1>0, <1>8, FinishedType DEF OnClosed, ClientOK
  <2> QED
    BY <1>8, <2>1, Frames DEF OnClosed, IInv, TypeOK
<1> QED
  BY <1>1, <1>2, <1>3, <1>4, <1>5, <1>6, <1>7, <1>8 DEF ClientStep

-----------------------------------------------------------------------------
(* One step of the environment or of a user.                               *)

LEMMA DiesPreserves ==
    ASSUME IInv, NEW r \in Runs, Dies(r), UNCHANGED <<serverSide, machineVars, treeJson, remaining>>,
           toServer' \in [Runs -> Seq(ClientMessages)]
    PROVE  IInv'
<1> USE DEF serverSide, processVars, jobVars, storeVars, machineVars
<1>1. client' \in [Runs -> ClientStates] /\ Unserved'
  BY ClientMoves DEF Dies, ClientStates
<1>2. ClientOK'
  BY <1>1 DEF Dies, IInv, TypeOK, ClientOK
<1>3. NetOK'
  <2>1. <<>> \in Seq(ServerMessages)
    OBVIOUS
  <2> QED
    BY <2>1 DEF Dies, IInv, TypeOK, NetOK
<1> QED
  BY <1>1, <1>2, <1>3, Frames DEF IInv, TypeOK

LEMMA EnvironmentPreserves ==
    ASSUME IInv, NEW r \in Runs, Environment(r)
    PROVE  IInv'
<1> USE DEF serverSide, clientSide, processVars, jobVars, storeVars, machineVars, netVars
<1>0. /\ ProcessOK /\ JobOK /\ StoreOK /\ MachineOK /\ ClientOK /\ NetOK
  BY DEF IInv, TypeOK
<1>1. CASE Start(r)
  <2>1. handler[r] = "none"
    BY <1>1 DEF Start, IInv, Unserved
  <2>2. ProcessOK' /\ Holders' = Holders
    BY <1>0, <1>1, <2>1, Stays, MovesOn DEF Start, ProcessOK, Holding, HandlerStates
  <2>3. \A s \in Runs : handler'[s] = IF s = r THEN "poll" ELSE handler[s]
    BY <1>0, <1>1 DEF Start, GoTo, ProcessOK
  <2>4. \A s \in Runs : client'[s] = IF s = r THEN "idle" ELSE client[s]
    BY <1>0, <1>1 DEF Start, BecomeClient, ClientOK
  <2>5. OneTransfer' /\ Unserved' /\ ReceivesFile'
    BY <1>1, <2>2, <2>3, <2>4 DEF Start, IInv, OneTransfer, Unserved, ReceivesFile
  <2>6. ClientOK' /\ NetOK'
    BY <1>0, <1>1 DEF Start, BecomeClient, ClientStates, ClientOK, NetOK
  <2>7. JobOK'
    BY <1>0, <1>1 DEF Start, JobOK
  <2> QED
    BY <1>1, <2>2, <2>5, <2>6, <2>7, Frames DEF Start, IInv, TypeOK
<1>2. CASE ParseError(r) \/ BrokenPipe(r)
  BY <1>2, TerminatePreserves DEF ParseError, BrokenPipe
<1>3. CASE OnCoalesced(r)
  <2>1. NetOK'
    <3>1. <<>> \in Seq(ServerMessages)
      OBVIOUS
    <3> QED
      BY <1>0, <1>3, <3>1 DEF OnCoalesced, NetOK
  <2>2. ClientOK' /\ Unserved'
    BY <1>0, <1>3, FinishedType DEF OnCoalesced, ClientOK
  <2> QED
    BY <1>3, <2>1, <2>2, Frames DEF OnCoalesced, IInv, TypeOK
<1>4. CASE KillClient(r)
  <2>1. PICK n \in 0..Len(toServer[r]) :
          toServer' = [toServer EXCEPT ![r] = SubSeq(@, 1, n)]
    BY <1>4 DEF KillClient
  <2>2. toServer[r] \in Seq(ClientMessages)
    BY <1>0 DEF NetOK
  <2>3. n \in Int /\ \A i \in 1..n : toServer[r][i] \in ClientMessages
    BY <2>2
  <2>4. SubSeq(toServer[r], 1, n) \in Seq(ClientMessages)
    BY <2>3, SubSeqProperties
  <2>5. toServer' \in [Runs -> Seq(ClientMessages)]
    BY <1>0, <2>1, <2>4 DEF NetOK
  <2> QED
    BY <1>4, <2>5, DiesPreserves DEF KillClient
<1>5. CASE ClientBrokenPipe(r)
  BY <1>0, <1>5, DiesPreserves DEF ClientBrokenPipe, NetOK
<1> QED
  BY <1>1, <1>2, <1>3, <1>4, <1>5 DEF Environment

LEMMA EditPreserves ==
    ASSUME IInv, NEW m \in Machines, Edit(m)
    PROVE  IInv'
<1> USE DEF serverSide, processVars, jobVars, storeVars, machineVars, netVars
<1>0. MachineOK /\ ClientOK /\ localDir[m] \in Workspaces
  BY DEF IInv, TypeOK, MachineOK
<1>1. ASSUME NEW dir \in Workspaces, NEW n \in Nat, Change(m, dir, n)
      PROVE  IInv'
  <2>1. edits' \in 0..MaxEdits
    BY <1>0, <1>1, EnvironmentAssumption DEF Change, MachineOK
  <2>2. MachineOK'
    BY <1>0, <1>1, <2>1 DEF Change, MachineOK
  <2>3. ClientOK'
    BY <1>0, <1>1 DEF Change, ClientOK
  <2> QED
    BY <1>1, <2>2, <2>3, Frames DEF Change, IInv, TypeOK
<1>2. CASE Write(m)
  BY <1>0, <1>1, <1>2, WrittenType DEF Write
<1>3. CASE Delete(m)
  BY <1>0, <1>1, <1>3, WithoutType DEF Delete
<1>4. CASE Rename(m)
  <2>1. PICK n \in DOMAIN localDir[m], to \in Names :
          Change(m, Written(Without(localDir[m], {n}), to, localDir[m][n]), 2)
    BY <1>4 DEF Rename
  <2>2. localDir[m][n] \in Contents
    BY <1>0 DEF Workspaces
  <2>3. Written(Without(localDir[m], {n}), to, localDir[m][n]) \in Workspaces
    BY <1>0, <2>2, WithoutType, WrittenType
  <2> QED
    BY <1>1, <2>1, <2>3
<1> QED
  BY <1>2, <1>3, <1>4 DEF Edit

LEMMA Stuttering ==
    ASSUME IInv, UNCHANGED vars
    PROVE  IInv'
BY Frames DEF IInv, TypeOK, vars, serverSide, clientSide, processVars, jobVars,
              storeVars, machineVars, netVars

LEMMA Inductive == IInv /\ [Next]_vars => IInv'
<1> SUFFICES ASSUME IInv, [Next]_vars PROVE IInv'
  OBVIOUS
<1> USE DEF serverSide, clientSide, processVars, jobVars, storeVars, machineVars, netVars
<1>1. CASE UNCHANGED vars
  BY <1>1, Stuttering
<1>2. CASE \E r \in Runs : ServerStep(r) \/ ClientStep(r) \/ Environment(r)
  BY <1>2, ServerPreserves, ClientPreserves, EnvironmentPreserves
<1>3. CASE \E m \in Machines : Edit(m)
  BY <1>3, EditPreserves
<1>4. CASE Kill
  BY <1>4, TerminatePreserves DEF Kill
<1>5. CASE Restart
  BY <1>5, Frames DEF Restart, IInv, TypeOK, ProcessOK, OneTransfer, Holders
<1>6. CASE NextSecond
  <2>1. StoreOK'
    BY <1>6 DEF NextSecond, IInv, TypeOK, StoreOK
  <2> QED
    BY <1>6, <2>1, Frames DEF NextSecond, IInv, TypeOK
<1> QED
  BY <1>1, <1>2, <1>3, <1>4, <1>5, <1>6 DEF Next

LEMMA Always == Spec => []IInv
BY Initially, Inductive, PTL DEF Spec

\* Every variable of the protocol has its type in every reachable state; in
\* particular sem_post never raises the semaphore above 1.
THEOREM TypeCorrect == Spec => []TypeOK
<1>1. IInv => TypeOK
  BY DEF IInv
<1> QED
  BY <1>1, Always, PTL

\* The tree handler is a critical section whatever the number of clients,
\* and every path out of it posts the semaphore exactly once, the paths
\* through failed database calls, lost connections and crashes included.
THEOREM MutualExclusion == Spec => []OneTransfer
<1>1. IInv => OneTransfer
  BY DEF IInv
<1> QED
  BY <1>1, Always, PTL

-----------------------------------------------------------------------------
(* Sync implements ExclusiveStore, for every value of the constants.       *)

\* The abstract store speaks of the same trees and hashes.
LEMMA SameOperators ==
    /\ Store!Trees = Trees /\ Store!Workspaces = Workspaces
    /\ \A dir : Store!buildTree(dir) = buildTree(dir)
    /\ \A dir, order : Store!treeHash(dir, order) = treeHash(dir, order)
<1>1. Store!Trees = Trees /\ Store!Workspaces = Workspaces
  BY DEF Store!Trees, Trees, Store!Workspaces, Workspaces, Store!Contents, Contents
<1>2. ASSUME NEW dir PROVE Store!buildTree(dir) = buildTree(dir)
  BY DEF Store!buildTree, buildTree, Store!calculateHash, calculateHash
<1>3. ASSUME NEW tree, NEW order
      PROVE  Store!combineHashes(tree, order) = combineHashes(tree, order)
  BY DEF Store!combineHashes, combineHashes
<1> QED
  BY <1>1, <1>2, <1>3 DEF Store!treeHash, treeHash

StoreStutters == UNCHANGED <<Holders, hostname, treeFile, files, workspaceHash>>

-----------------------------------------------------------------------------
(* What a move of a thread does to the holders, and so to the store.       *)

LEMMA HolderIs ==
    ASSUME IInv, NEW r \in Runs, handler[r] \in Holding
    PROVE  Holders = {r}
BY Alone DEF IInv

LEMMA MoveOutside ==
    ASSUME IInv, NEW r \in Runs, NEW state, GoTo(r, state),
           handler[r] \notin Holding, state \notin Holding,
           UNCHANGED <<hostname, treeFile, files, workspaceHash>>
    PROVE  StoreStutters
BY Stays DEF IInv, TypeOK, StoreStutters

LEMMA MoveInside ==
    ASSUME IInv, NEW r \in Runs, NEW state, GoTo(r, state),
           handler[r] \in Holding, state \in Holding
    PROVE  Holders = {r} /\ Holders' = {r}
BY Stays, HolderIs DEF IInv, TypeOK

LEMMA Released ==
    ASSUME IInv, NEW r \in Runs, NEW state, GoTo(r, state),
           handler[r] \in Holding, state \notin Holding,
           treeFile' = treeFile \/ treeFile' = buildTree(files),
           UNCHANGED <<hostname, files, workspaceHash>>
    PROVE  Store!Release
<1>1. Holders = {r}
  BY HolderIs
<1>2. Holders' = {}
  BY <1>1, Leaves DEF IInv, TypeOK
<1> QED
  BY <1>1, <1>2, SameOperators DEF Store!Release

LEMMA TerminateReleases ==
    ASSUME IInv, Terminate
    PROVE  StoreStutters \/ Store!Release
<1>1. Holders' = {} /\ UNCHANGED <<hostname, treeFile, files, workspaceHash>>
  BY DEF Terminate, IInv, TypeOK, ProcessOK, HandlerStates, Holding, Holders, jobVars,
         storeVars
<1> QED
  BY <1>1, SameOperators DEF Store!Release, StoreStutters

\* A server step is a step of the store by the same run, or none at all.
LEMMA ServerStepImplements ==
    ASSUME IInv, NEW r \in Runs, ServerStep(r), IInv'
    PROVE  StoreStutters \/ Store!Next
<1> USE DEF serverSide, processVars, jobVars, storeVars
<1>0. StoreOK /\ StoreOK'
  BY DEF IInv, TypeOK
<1>1. CASE IsLatest(r)
  BY <1>1 DEF IsLatest, StoreStutters, Holders
<1>2. CASE IsNotLatest(r)
  BY <1>2, MoveOutside DEF IsNotLatest, Holding
<1>3. CASE CompareTimestamps(r)
  BY <1>3, MoveOutside DEF CompareTimestamps, Holding
<1>4. CASE ReceiveTreeHeader(r)
  BY <1>4, MoveOutside DEF ReceiveTreeHeader, Holding
<1>5. CASE CloseConnection(r)
  BY <1>5, MoveOutside DEF CloseConnection, Holding
<1>6. CASE AcquireSemaphore(r)
  <2>1. Holders = {}
    BY <1>6 DEF AcquireSemaphore, IInv, OneTransfer
  <2>2. GoTo(r, "tree_data") /\ "tree_data" \in Holding
    BY <1>6 DEF AcquireSemaphore, Holding
  <2>3. Holders' = {r}
    BY <2>1, <2>2, Enters DEF IInv, TypeOK
  <2>4. Store!Acquire(r)
    BY <1>6, <2>1, <2>3 DEF AcquireSemaphore, Store!Acquire, Store!store
  <2> QED
    BY <2>4 DEF Store!Next
<1>7. ASSUME NEW state \in Holding, GoTo(r, state), handler[r] \in Holding,
             UNCHANGED <<hostname, workspaceHash>>
      PROVE  Store!Next
  <2>1. Holders = {r} /\ Holders' = {r}
    BY <1>7, MoveInside
  <2>2. Store!Change(r)
    BY <1>0, <1>7, <2>1, SameOperators DEF Store!Change, StoreOK
  <2> QED
    BY <2>2 DEF Store!Next
<1>8. CASE ReceiveTree(r)
  BY <1>7, <1>8 DEF ReceiveTree, Holding
<1>9. CASE ConfirmTree(r)
  BY <1>7, <1>9 DEF ConfirmTree, Holding
<1>10. CASE TreeReception(r)
  BY <1>7, <1>10 DEF TreeReception, AfterComparison, Holding
<1>11. CASE TreeReceptionNowhere(r)
  BY <1>7, <1>11 DEF TreeReceptionNowhere, AfterComparison, Holding
<1>12. CASE Request(r)
  BY <1>7, <1>12 DEF Request, Holding
<1>13. CASE ReceiveFileHeader(r)
  BY <1>7, <1>13 DEF ReceiveFileHeader, Holding
<1>14. CASE SkipFile(r)
  BY <1>7, <1>14 DEF SkipFile, NextFile, Holding
<1>15. CASE ReceiveFile(r)
  BY <1>7, <1>15 DEF ReceiveFile, Holding
<1>16. CASE ReceiveTornFile(r)
  BY <1>7, <1>16 DEF ReceiveTornFile, NextFile, Holding
<1>17. CASE ConfirmFile(r)
  BY <1>7, <1>17 DEF ConfirmFile, NextFile, Holding
<1>18. CASE NoSync(r)
  <2>1. Store!Release
    BY <1>18, Released DEF NoSync, Holding
  <2> QED
    BY <2>1 DEF Store!Next
<1>19. CASE UpdateHash(r)
  <2>1. Holders = {r} /\ Holders' = {r}
    BY <1>19, MoveInside DEF UpdateHash, Holding
  <2>2. UNCHANGED <<hostname, files>> /\ Store!Record(r, rebuiltHash(r))
    BY <1>19 DEF UpdateHash, Store!Record, User
  <2>3. /\ treeFile' = (IF hostname[r] = "unread" THEN treeFile ELSE buildTree(files))
        /\ rebuiltHash(r) = IF hostname[r] = "unread" THEN NoHash
                            ELSE treeHash(files, ServerOrder)
    BY <1>19 DEF UpdateHash, Rebuild, rebuiltHash
  <2>4. Store!Publish(r)
    BY <2>1, <2>2, <2>3, SameOperators DEF Store!Publish
  <2> QED
    BY <2>4 DEF Store!Next
<1>20. CASE UpdateHashFails(r)
  <2>1. Store!Release
    BY <1>20, Released DEF UpdateHashFails, Rebuild, Holding
  <2> QED
    BY <2>1 DEF Store!Next
<1>21. CASE UpdateModifiedAt(r)
  <2>1. Store!Release
    BY <1>21, Released DEF UpdateModifiedAt, Holding
  <2> QED
    BY <2>1 DEF Store!Next
<1>22. CASE ReceiveTornTree(r)
  BY <1>22, TerminateReleases DEF ReceiveTornTree, Store!Next
<1>23. CASE ReceiveFileHeaderNowhere(r)
  BY <1>23, TerminateReleases DEF ReceiveFileHeaderNowhere, Store!Next
<1> QED
  BY <1>1, <1>2, <1>3, <1>4, <1>5, <1>6, <1>8, <1>9, <1>10, <1>11, <1>12, <1>13,
     <1>14, <1>15, <1>16, <1>17, <1>18, <1>19, <1>20, <1>21, <1>22, <1>23
     DEF ServerStep

\* Clients and users touch the store only through the server.
LEMMA OthersStutter ==
    ASSUME IInv,
           \/ \E r \in Runs : ClientStep(r)
           \/ \E r \in Runs : OnCoalesced(r) \/ KillClient(r) \/ ClientBrokenPipe(r)
           \/ \E m \in Machines : Edit(m)
           \/ Restart \/ NextSecond
           \/ UNCHANGED vars
    PROVE  StoreStutters
<1>1. UNCHANGED <<handler, hostname, treeFile, files, workspaceHash>>
  BY DEF ClientStep, InitiateSync, OnLatest, OnNotLatest, OnTreeConfirmation,
         OnNoSyncNeeded, OnRequestFile, OnFileConfirmation, OnClosed, OnCoalesced,
         KillClient, ClientBrokenPipe, Edit, Write, Delete, Rename, Change, Restart,
         NextSecond, vars, serverSide, jobVars, storeVars
<1> QED
  BY <1>1 DEF StoreStutters, Holders

\* A login is a step of the store in which the thread learns the hostname.
LEMMA StartImplements ==
    ASSUME IInv, NEW r \in Runs, Start(r)
    PROVE  StoreStutters \/ Store!Learn(r)
<1>1. handler[r] = "none" /\ hostname \in [Runs -> {"unread", "files"}]
  BY DEF Start, IInv, Unserved, TypeOK, JobOK
<1>2. r \notin Holders /\ Holders' = Holders
  BY <1>1, Stays DEF Start, Holding, Holders, IInv, TypeOK
<1>3. CASE UNCHANGED hostname
  BY <1>2, <1>3 DEF Start, StoreStutters, storeVars
<1>4. CASE hostname' = [hostname EXCEPT ![r] = "files"]
  <2>1. {s \in Runs : hostname'[s] # "unread"} = {s \in Runs : hostname[s] # "unread"} \cup {r}
    BY <1>1, <1>4
  <2> QED
    BY <1>2, <2>1 DEF Start, Store!Learn, Store!store, storeVars
<1> QED
  BY <1>3, <1>4 DEF Start

LEMMA StepImplements ==
    ASSUME IInv, [Next]_vars, IInv'
    PROVE  [Store!Next]_(Store!vars)
<1>1. StoreStutters \/ Store!Next
  <2>1. CASE UNCHANGED vars \/ Restart \/ NextSecond \/ \E m \in Machines : Edit(m)
    BY <2>1, OthersStutter
  <2>2. ASSUME NEW r \in Runs, ServerStep(r) PROVE StoreStutters \/ Store!Next
    BY <2>2, ServerStepImplements
  <2>3. ASSUME NEW r \in Runs, ClientStep(r) PROVE StoreStutters
    BY <2>3, OthersStutter
  <2>4. ASSUME NEW r \in Runs, Environment(r) PROVE StoreStutters \/ Store!Next
    <3>1. CASE Start(r)
      BY <3>1, StartImplements DEF Store!Next
    <3>2. CASE ParseError(r) \/ BrokenPipe(r)
      BY <3>2, TerminateReleases DEF ParseError, BrokenPipe, Store!Next
    <3>3. CASE OnCoalesced(r) \/ KillClient(r) \/ ClientBrokenPipe(r)
      BY <3>3, OthersStutter
    <3> QED
      BY <2>4, <3>1, <3>2, <3>3 DEF Environment
  <2>5. CASE Kill
    BY <2>5, TerminateReleases DEF Kill, Store!Next
  <2> QED
    BY <2>1, <2>2, <2>3, <2>4, <2>5 DEF Next
<1>2. StoreStutters => UNCHANGED (Store!vars)
  BY DEF StoreStutters, Store!vars, Store!store
<1> QED
  BY <1>1, <1>2

LEMMA InitImplements ==
    ASSUME Init, IInv
    PROVE  Store!Init
<1>1. Holders = {}
  BY DEF Init, Holders, Holding
<1>2. treeFile \in Trees /\ files \in Workspaces /\ DOMAIN workspaceHash = Users
  BY DEF IInv, TypeOK, StoreOK
<1>3. {r \in Runs : hostname[r] # "unread"} = {}
  BY DEF Init
<1> QED
  BY <1>1, <1>2, <1>3, SameOperators DEF Store!Init

\* Whatever the threads do and whenever the processes die, the directory, the
\* tree file and the workspace table change only in the hands of the holder of
\* the semaphore, and in the row of the holder's account; and the table receives
\* the hash of the directory as it is, or, from a thread whose login did not
\* read the hostname, the hash of no tree, which is no client's.
THEOREM StoreImplemented == Spec => ImplementsStore
<1>1. Init => Store!Init
  BY Initially, InitImplements
<1>2. IInv /\ IInv' /\ [Next]_vars => [Store!Next]_(Store!vars)
  BY StepImplements
<1> QED
  BY <1>1, <1>2, Always, PTL DEF Spec, ImplementsStore, Store!Spec
=============================================================================
