---------------------------- MODULE MirrorProofs ----------------------------
(***************************************************************************)
(* The effect of an exchange on the server's directory, for every number   *)
(* of clients, accounts and names: it loses every name the client's tree   *)
(* has not, gets none the tree has not, and when the exchange ends it has  *)
(* them all.                                                               *)
(*                                                                         *)
(* The invariant says where a name of the client's tree can be at every    *)
(* moment: in the directory, among the nodes still to be requested, or in  *)
(* the one request or file header under way.  It relies on DialogueProofs  *)
(* for what that message can be, and on the semaphore, for the directory   *)
(* is shared by all threads.  A treeReception that cannot read the path of *)
(* the directory ("db") compares nothing and is excluded.                  *)
(*                                                                         *)
(* Two consequences follow in the behaviours in which no sync falls into   *)
(* the second of the account's last stamp: only missing files are          *)
(* requested, and, with writes only, client and thread never wait for each *)
(* other.                                                                  *)
(***************************************************************************)
EXTENDS DialogueProofs

\* A file is on its way: requested, or its metadata sent.
Coming(r, n) ==
    LET s == toServer[r]
        k == toClient[r]
    IN  \/ Len(k) > 0 /\ k[Len(k)].type = "request_file" /\ k[Len(k)].file = n
        \/ Len(s) > 0 /\ s[1].type = "file_transfer" /\ s[1].file = n

Exchanging == {"await_conf", "await_response", "await_fconf", "await_next"}

\* The client has passed over a requested file: both sides wait.
PassedOver(r) ==
    client[r] = "await_next" /\ Empty(toClient[r]) /\ handler[r] = "await_file"

Bounded(r) == DOMAIN files \cup (addedFiles[r] \ {Root}) \subseteq DOMAIN treeJson[r]

Missing(r) == addedFiles[r] \cap DOMAIN files = {}

Requested(r) ==
    \A n : Coming(r, n) => n \in DOMAIN treeJson[r] \cup {Root} /\ n \notin addedFiles[r]

Receiving(r) == handler[r] = "file_data" => incoming[r] \in DOMAIN files

Complete(r) ==
    \/ PassedOver(r)
    \/ \A n \in DOMAIN treeJson[r] :
          n \in DOMAIN files \/ n \in addedFiles[r] \/ Coming(r, n)

Copying(r) == Bounded(r) /\ Missing(r) /\ Requested(r) /\ Receiving(r) /\ Complete(r)

Mirroring(r) ==
    /\ handler[r] \in Transferring /\ ~ahead[r] /\ link[r] = "up"
    => /\ client[r] \in Exchanging => Copying(r)
       /\ handler[r] = "rehash" /\ client[r] \in {"await_fconf", "idle"} =>
             DOMAIN files = DOMAIN treeJson[r]

MInv == DInv /\ \A r \in Runs : Mirroring(r)

-----------------------------------------------------------------------------
(* The comparison and the directory.                                       *)

\* After the deletion of the removed nodes the directory has exactly those
\* names of the received tree that are not to be requested.
LEMMA Compared ==
    ASSUME NEW dir \in Workspaces, NEW tree \in Trees
    PROVE  LET own == buildTree(dir)
               left == DOMAIN Without(dir, RemovedNodes(own, tree))
               added == AddedNodes(own, tree)
           IN  left \cup added = DOMAIN tree /\ left \cap added = {}
<1>1. DOMAIN buildTree(dir) = DOMAIN dir
  BY BuildTreeType
<1>2. DOMAIN Without(dir, RemovedNodes(buildTree(dir), tree))
         = DOMAIN dir \ RemovedNodes(buildTree(dir), tree)
  BY DEF Without
<1> QED
  BY <1>1, <1>2 DEF RemovedNodes, AddedNodes, ModifiedNodes

\* What a run's part of the invariant depends on.
LEMMA MirrorUntouched ==
    ASSUME NEW r \in Runs, Mirroring(r), Local(r)' = Local(r),
           ahead'[r] = ahead[r], incoming'[r] = incoming[r],
           files' = files \/ handler[r] \notin Transferring
    PROVE  Mirroring(r)'
<1>1. /\ client'[r] = client[r] /\ handler'[r] = handler[r] /\ link'[r] = link[r]
      /\ toServer'[r] = toServer[r] /\ toClient'[r] = toClient[r]
      /\ addedFiles'[r] = addedFiles[r] /\ treeJson'[r] = treeJson[r]
  BY DEF Local
<1> QED
  BY <1>1 DEF Mirroring, Copying, Bounded, Missing, Requested, Receiving, Complete, PassedOver,
              Coming

\* Where the exchange has nothing under way.
NoneComing(r) == \A n : ~Coming(r, n)

LEMMA NothingComes ==
    ASSUME NEW r \in Runs,
           Empty(toServer[r]) \/ (Len(toServer[r]) > 0 /\ toServer[r][1].type # "file_transfer"),
           Empty(toClient[r]) \/ One(toClient[r], {"confirmation"})
    PROVE  NoneComing(r)
<1>1. ASSUME NEW n
      PROVE  ~(Len(toClient[r]) > 0 /\ toClient[r][Len(toClient[r])].type = "request_file"
               /\ toClient[r][Len(toClient[r])].file = n)
  BY DEF Empty, One
<1>2. ASSUME NEW n
      PROVE  ~(Len(toServer[r]) > 0 /\ toServer[r][1].type = "file_transfer"
               /\ toServer[r][1].file = n)
  BY DEF Empty
<1> QED
  BY <1>1, <1>2 DEF NoneComing, Coming

\* The two streams of a run that is in the middle of an exchange.
LEMMA InExchange ==
    ASSUME DInv, NEW r \in Runs, link[r] = "up", Alive(r)
    PROVE  /\ handler[r] # "closed"
           /\ handler[r] = "compare" =>
                /\ client[r] \in {"await_conf", "await_response"} /\ treeFile = treeJson[r]
                /\ Empty(toServer[r])
                /\ Empty(toClient[r]) \/ One(toClient[r], {"confirmation"})
           /\ handler[r] = "request" /\ client[r] \in Exchanging =>
                /\ Empty(toServer[r])
                /\ Empty(toClient[r]) \/ One(toClient[r], {"confirmation"})
           /\ handler[r] = "await_file" /\ ~Empty(toServer[r]) =>
                \/ client[r] = "await_latest" /\ One(toServer[r], {"check_latest"})
                \/ client[r] = "await_fconf" /\ Two(toServer[r], "file_transfer", {"file_data"})
                   /\ Empty(toClient[r])
           /\ handler[r] = "file_data" =>
                client[r] = "await_fconf" /\ One(toServer[r], {"file_data"}) /\ Empty(toClient[r])
           /\ handler[r] = "confirm_file" =>
                client[r] = "await_fconf" /\ Empty(toServer[r]) /\ Empty(toClient[r])
<1>1. RunInv(r) /\ client[r] \in ClientStates
  BY DEF DInv, IInv, TypeOK, ClientOK
<1>2. handler[r] # "closed"
  BY <1>1 DEF RunInv, Connected
<1>3. Together(r) /\ OwnTree(r) /\ Reads(r)
  BY <1>1 DEF RunInv
<1> USE <1>1, <1>2, <1>3
    DEF Together, Idle, AwaitsLatest, AwaitsConfirmation, AwaitsResponse,
        AwaitsFileConfirmation, AwaitsNext, ClientStates, Awaiting, Alive, Rehashing, Comparing
<1>4. CASE handler[r] = "compare"
  BY <1>4 DEF OwnTree
<1>5. CASE handler[r] = "request"
  BY <1>5 DEF Exchanging
<1>6. CASE handler[r] = "await_file"
  BY <1>6
<1>7. CASE handler[r] \in {"file_data", "confirm_file"}
  BY <1>7
<1> QED
  BY <1>4, <1>5, <1>6, <1>7

-----------------------------------------------------------------------------
(* One step of the server.                                                 *)

LEMMA WorksMirror ==
    ASSUME MInv, "db" \notin Faults, NEW q \in Runs, Works(q), DInv'
    PROVE  Mirroring(q)'
<1>0. /\ handler \in [Runs -> HandlerStates] /\ ahead \in [Runs -> BOOLEAN]
      /\ addedFiles \in [Runs -> SUBSET (Names \cup {Root})]
      /\ incoming \in [Runs -> Names \cup {Root}]
      /\ files \in Workspaces /\ treeFile \in Trees /\ treeJson[q] \in Trees
      /\ DOMAIN files \subseteq Names /\ client[q] \in ClientStates
      /\ DInv /\ IInv /\ IInv' /\ Mirroring(q)
  BY DEF MInv, DInv, IInv, TypeOK, ProcessOK, JobOK, StoreOK, ClientOK, Workspaces
<1>1. /\ client'[q] = client[q] /\ treeJson'[q] = treeJson[q] /\ link'[q] = link[q]
  BY <1>0, WorksAlone DEF Moves
<1>2. SUFFICES ASSUME handler'[q] \in Transferring, ~ahead'[q], link[q] = "up",
                      client[q] \in Exchanging \cup {"idle"}
               PROVE  /\ client[q] \in Exchanging => Copying(q)'
                      /\ handler'[q] = "rehash" /\ client[q] \in {"await_fconf", "idle"} =>
                            DOMAIN files' = DOMAIN treeJson[q]
  BY <1>1 DEF Mirroring, Exchanging
<1>3. Alive(q)
  BY <1>2 DEF Alive, Exchanging
<1>4. ASSUME NEW state, GoTo(q, state)
      PROVE  handler'[q] = state
  BY <1>0, <1>4 DEF GoTo
<1>5. CASE TreeReception(q)
  <2>1. /\ handler[q] = "compare" /\ toServer' = toServer /\ toClient' = toClient
        /\ ahead' = ahead
    BY <1>5 DEF TreeReception, netVars
  <2>2. ~ahead[q] /\ treeFile = treeJson[q] /\ handler'[q] \in {"no_sync", "request"}
    BY <1>0, <1>2, <1>3, <1>4, <1>5, <2>1, InExchange DEF TreeReception, AfterComparison
  <2>3. NoneComing(q)'
    <3>1. NoneComing(q)
      BY <1>0, <1>2, <1>3, <2>1, InExchange, NothingComes
    <3> QED
      BY <2>1, <3>1 DEF NoneComing, Coming
  <2> DEFINE added == AddedNodes(buildTree(files), treeFile)
  <2>4. /\ addedFiles'[q] \in {added, added \cup {Root}}
        /\ files' = Without(files, RemovedNodes(buildTree(files), treeFile))
    BY <1>0, <1>5, <2>2 DEF TreeReception, AfterComparison
  <2>5. DOMAIN files' \cup added = DOMAIN treeFile /\ DOMAIN files' \cap added = {}
    BY <1>0, <2>4, Compared
  <2>6. Root \notin DOMAIN files'
    BY <1>0, <2>4, RootAssumption DEF Without
  <2>7. handler'[q] = "request"
    BY <1>2, <2>2 DEF Transferring
  <2> HIDE DEF added
  <2>8. Bounded(q)' /\ Missing(q)' /\ Receiving(q)'
    BY <1>1, <2>2, <2>4, <2>5, <2>6, <2>7 DEF Bounded, Missing, Receiving
  <2>9. Requested(q)' /\ Complete(q)'
    BY <1>1, <2>2, <2>3, <2>4, <2>5 DEF Requested, Complete, NoneComing
  <2> QED
    BY <2>7, <2>8, <2>9 DEF Copying
<1>6. CASE Request(q)
  <2>1. /\ handler[q] = "request" /\ handler'[q] = "await_file" /\ toServer' = toServer
        /\ files' = files /\ ahead' = ahead /\ incoming' = incoming
    BY <1>4, <1>6 DEF Request, storeVars
  <2>2. PICK f \in addedFiles[q] :
          /\ Reply(q, RequestFile(f, Left(q)))
          /\ addedFiles' = [addedFiles EXCEPT ![q] = @ \ {f}]
    BY <1>6 DEF Request, Left
  <2>3. CASE client[q] = "idle"
    BY <2>1, <2>3 DEF Exchanging
  <2>4. CASE client[q] \in Exchanging
    <3>1. Copying(q) /\ NoneComing(q) /\ Empty(toServer[q])
      BY <1>0, <1>2, <1>3, <2>1, <2>4, InExchange, NothingComes DEF Mirroring, Transferring
    <3>2. \A n : Coming(q, n)' <=> n = f
      <4>1. RequestFile(f, Left(q)) \in ServerMessages
        BY <1>0, Counted, Constructors
      <4>2. /\ toClient[q] \in Seq(ServerMessages)
            /\ toClient'[q] = Append(toClient[q], RequestFile(f, Left(q)))
        BY <1>0, <1>2, <2>2 DEF IInv, TypeOK, NetOK, Reply
      <4>3. /\ Len(toClient'[q]) > 0
            /\ toClient'[q][Len(toClient'[q])] = RequestFile(f, Left(q))
        BY <4>1, <4>2
      <4>4. Len(toServer'[q]) = 0
        BY <2>1, <3>1 DEF Empty
      <4> QED
        BY <4>3, <4>4 DEF Coming, RequestFile
    <3>3. addedFiles'[q] = addedFiles[q] \ {f} /\ f \in DOMAIN treeJson[q] \cup {Root}
      BY <1>0, <2>2, <3>1 DEF Copying, Bounded
    <3>4. Bounded(q)' /\ Missing(q)' /\ Receiving(q)'
      BY <1>1, <2>1, <3>1, <3>3 DEF Copying, Bounded, Missing, Receiving
    <3>5. Requested(q)'
      BY <1>1, <3>2, <3>3 DEF Requested
    <3>6. Complete(q)'
      <4>1. ~PassedOver(q)
        BY <2>1 DEF PassedOver
      <4> QED
        BY <1>1, <2>1, <3>1, <3>2, <3>3, <4>1 DEF Copying, Complete, NoneComing
    <3> QED
      BY <2>1, <3>4, <3>5, <3>6 DEF Copying
  <2> QED
    BY <1>2, <2>3, <2>4
<1>7. CASE ReceiveFileHeader(q)
  <2> DEFINE f == Head(toServer[q]).file
  <2>1. /\ handler[q] = "await_file" /\ handler'[q] = "file_data" /\ toClient' = toClient
        /\ ahead' = ahead /\ addedFiles' = addedFiles
    BY <1>4, <1>7 DEF ReceiveFileHeader
  <2>2. toServer[q] # <<>> /\ Head(toServer[q]).type = "file_transfer" /\ Receive(q)
    BY <1>7 DEF ReceiveFileHeader, Arrived
  <2>3. /\ Len(toServer[q]) > 0 /\ Head(toServer[q]) = toServer[q][1]
        /\ Len(toServer[q]) = 2 => toServer'[q][1] = toServer[q][2]
        /\ Len(toServer'[q]) = Len(toServer[q]) - 1
    BY <1>0, <2>2, Received
  <2>4. client[q] = "await_fconf" /\ Two(toServer[q], "file_transfer", {"file_data"})
        /\ Empty(toClient[q])
    BY <1>0, <1>2, <1>3, <2>1, <2>2, <2>3, InExchange DEF Empty, One
  <2>5. f \in Names /\ f # Root
    BY <1>0, <2>2, ReceiveType, Fields, RootAssumption DEF IInv, TypeOK
  <2>6. Copying(q) /\ Coming(q, f) /\ \A n : Coming(q, n) => n = f
    BY <1>0, <1>2, <2>1, <2>2, <2>3, <2>4
    DEF Mirroring, Transferring, Exchanging, Coming, Empty
  <2>7. NoneComing(q)'
    <3>1. toServer'[q][1].type # "file_transfer" /\ Empty(toClient'[q])
      BY <2>1, <2>3, <2>4 DEF Two
    <3> QED
      BY <3>1 DEF NoneComing, Coming, Empty
  <2>8. incoming'[q] = f /\ DOMAIN files' = DOMAIN files \cup {f}
    BY <1>0, <1>7 DEF ReceiveFileHeader, Written
  <2> HIDE DEF f
  <2>9. f \in DOMAIN treeJson[q] /\ f \notin addedFiles[q]
    BY <2>5, <2>6 DEF Copying, Requested
  <2>10. Bounded(q)' /\ Missing(q)' /\ Receiving(q)'
    BY <1>1, <2>1, <2>6, <2>8, <2>9 DEF Copying, Bounded, Missing, Receiving
  <2>11. Requested(q)' /\ Complete(q)'
    <3>1. ~PassedOver(q)
      BY <2>4 DEF PassedOver
    <3> QED
      BY <1>1, <2>1, <2>6, <2>7, <2>8, <3>1 DEF Copying, Requested, Complete, NoneComing
  <2> QED
    BY <2>1, <2>10, <2>11 DEF Copying
<1>8. CASE SkipFile(q)
  <2>1. handler[q] = "await_file" /\ toServer[q] # <<>> /\ Head(toServer[q]).type = "check_latest"
        /\ Receive(q)
    BY <1>2, <1>8 DEF SkipFile, Arrived, Ended
  <2>2. Len(toServer[q]) > 0 /\ Head(toServer[q]) = toServer[q][1]
    BY <1>0, <2>1, Received
  <2>3. client[q] = "await_latest"
    BY <1>0, <1>2, <1>3, <2>1, <2>2, InExchange DEF Empty, Two
  <2> QED
    BY <1>2, <2>3 DEF Exchanging
<1>9. CASE ReceiveFile(q)
  <2>1. /\ handler[q] = "file_data" /\ handler'[q] = "confirm_file" /\ toClient' = toClient
        /\ ahead' = ahead /\ addedFiles' = addedFiles
    BY <1>4, <1>9 DEF ReceiveFile, jobVars
  <2>2. toServer[q] # <<>> /\ Receive(q)
    BY <1>9 DEF ReceiveFile, Arrived
  <2>3. client[q] = "await_fconf" /\ One(toServer[q], {"file_data"}) /\ Empty(toClient[q])
    BY <1>0, <1>2, <1>3, <2>1, InExchange
  <2>4. Copying(q) /\ NoneComing(q)
    BY <1>0, <1>2, <2>1, <2>3, NothingComes DEF Mirroring, Transferring, Exchanging, One
  <2>5. NoneComing(q)'
    <3>0. Len(toServer'[q]) = Len(toServer[q]) - 1
      BY <1>0, <2>2, Received
    <3>1. Len(toServer'[q]) = 0
      BY <2>3, <3>0 DEF One
    <3>2. Len(toClient'[q]) = 0
      BY <2>1, <2>3 DEF Empty
    <3> QED
      BY <3>1, <3>2 DEF NoneComing, Coming
  <2>6. DOMAIN files' = DOMAIN files
    BY <1>9, <2>1, <2>4 DEF ReceiveFile, Written, Copying, Receiving
  <2>7. Bounded(q)' /\ Missing(q)' /\ Receiving(q)' /\ Requested(q)'
    BY <1>1, <2>1, <2>4, <2>5, <2>6 DEF Copying, Bounded, Missing, Receiving, Requested, NoneComing
  <2>8. Complete(q)'
    <3>1. ~PassedOver(q)
      BY <2>1 DEF PassedOver
    <3> QED
      BY <1>1, <2>1, <2>4, <2>6, <3>1 DEF Copying, Complete, NoneComing
  <2> QED
    BY <2>1, <2>7, <2>8 DEF Copying
<1>10. CASE ConfirmFile(q)
  <2>1. /\ handler[q] = "confirm_file" /\ toServer' = toServer /\ files' = files
        /\ ahead' = ahead /\ addedFiles' = addedFiles /\ Reply(q, Confirmation)
        /\ handler'[q] = IF addedFiles[q] = {} THEN "rehash" ELSE "request"
    BY <1>4, <1>10 DEF ConfirmFile, jobVars, storeVars, NextFile
  <2>2. client[q] = "await_fconf" /\ Empty(toServer[q]) /\ Empty(toClient[q])
    BY <1>0, <1>2, <1>3, <2>1, InExchange
  <2>3. Copying(q) /\ NoneComing(q)
    BY <1>0, <1>2, <2>1, <2>2, NothingComes DEF Mirroring, Transferring, Exchanging
  <2>4. NoneComing(q)'
    <3>1. Len(toServer'[q]) = 0
      BY <2>1, <2>2 DEF Empty
    <3>2. Len(toClient[q]) = 0 /\ Confirmation \in ServerMessages
      BY <2>2, Constructors DEF Empty
    <3>3. /\ Len(toClient'[q]) = Len(toClient[q]) + 1
          /\ Len(toClient[q]) = 0 => toClient'[q][1] = Confirmation
      BY <1>0, <1>2, <2>1, <3>2, Replied
    <3> QED
      BY <3>1, <3>2, <3>3 DEF NoneComing, Coming, Confirmation
  <2>5. Bounded(q)' /\ Missing(q)' /\ Receiving(q)' /\ Requested(q)'
    BY <1>1, <2>1, <2>3, <2>4 DEF Copying, Bounded, Missing, Receiving, Requested, NoneComing
  <2>6. \A n \in DOMAIN treeJson[q] : n \in DOMAIN files \/ n \in addedFiles[q]
    <3>1. ~PassedOver(q)
      BY <2>1 DEF PassedOver
    <3> QED
      BY <2>3, <3>1 DEF Copying, Complete, NoneComing
  <2>7. Complete(q)'
    BY <1>1, <2>1, <2>6 DEF Complete
  <2>8. handler'[q] = "rehash" => DOMAIN files = DOMAIN treeJson[q]
    BY <2>1, <2>3, <2>6 DEF Copying, Bounded
  <2> QED
    BY <2>1, <2>5, <2>7, <2>8 DEF Copying
<1>11. CASE ~( \/ TreeReception(q) \/ Request(q) \/ ReceiveFileHeader(q) \/ SkipFile(q)
              \/ ReceiveFile(q) \/ ConfirmFile(q))
  <2>1. ~DbMayFail(q)
    BY DEF DbMayFail
  <2>2. ~ReceiveTornFile(q)
    BY <1>2 DEF ReceiveTornFile, Ended
  <2>3. handler'[q] \in {"poll", "compare_time", "wait_tree", "tree_data", "confirm_tree", "compare",
                         "stamp", "closed"}
    <3>1. CASE IsLatest(q)
      BY <3>1 DEF IsLatest, serverSide
    <3>2. CASE IsNotLatest(q) \/ CompareTimestamps(q) \/ ReceiveTreeHeader(q)
               \/ AcquireSemaphore(q) \/ ReceiveTree(q) \/ ConfirmTree(q)
      BY <1>4, <3>2 DEF IsNotLatest, CompareTimestamps, ReceiveTreeHeader, AcquireSemaphore,
                        ReceiveTree, ConfirmTree
    <3>3. CASE NoSync(q) \/ UpdateHash(q) \/ UpdateHashFails(q) \/ UpdateModifiedAt(q)
               \/ CloseConnection(q)
      BY <1>4, <3>3 DEF NoSync, UpdateHash, UpdateHashFails, UpdateModifiedAt, CloseConnection
    <3> QED
      BY <1>11, <2>1, <2>2, <3>1, <3>2, <3>3 DEF Works, TreeReceptionNowhere
  <2> QED
    BY <1>2, <2>3 DEF Transferring
<1> QED
  BY <1>5, <1>6, <1>7, <1>8, <1>9, <1>10, <1>11

-----------------------------------------------------------------------------
(* One step of the client.                                                 *)

\* The last message of a stream that has been read from is the same.
LEMMA LastStays ==
    ASSUME IInv, NEW q \in Runs, toClient[q] # <<>>, Take(q), Len(toClient'[q]) > 0
    PROVE  toClient'[q][Len(toClient'[q])] = toClient[q][Len(toClient[q])] /\ Len(toClient[q]) > 0
<1>1. toClient[q] \in Seq(ServerMessages) /\ toClient'[q] = Tail(toClient[q])
  BY DEF IInv, TypeOK, NetOK, Take
<1> QED
  BY <1>1

LEMMA ClientMirrors ==
    ASSUME MInv, NEW q \in Runs, ClientStep(q), DInv'
    PROVE  Mirroring(q)'
<1>0. /\ client \in [Runs -> ClientStates] /\ remaining \in [Runs -> Nat \ {0}]
      /\ localDir[Home[q]] \in Workspaces /\ client[q] \in ClientStates
      /\ DInv /\ IInv /\ DInv' /\ IInv' /\ Mirroring(q) /\ RunInv(q)
  BY EnvironmentAssumption DEF MInv, DInv, IInv, TypeOK, ClientOK, MachineOK
<1>1. /\ handler' = handler /\ ahead' = ahead /\ addedFiles' = addedFiles /\ files' = files
      /\ incoming' = incoming /\ link' = link
  BY DEF ClientStep, InitiateSync, OnLatest, OnNotLatest, OnTreeConfirmation, OnNoSyncNeeded,
         OnRequestFile, OnFileConfirmation, OnClosed, serverSide, jobVars, storeVars, netVars
<1>2. SUFFICES ASSUME handler[q] \in Transferring, ~ahead[q], link[q] = "up"
               PROVE  /\ client'[q] \in Exchanging => Copying(q)'
                      /\ handler[q] = "rehash" /\ client'[q] \in {"await_fconf", "idle"} =>
                            DOMAIN files = DOMAIN treeJson'[q]
  BY <1>1 DEF Mirroring
<1>3. handler[q] # "closed" /\ handler[q] \notin {"poll", "compare_time"}
  BY <1>0, <1>2 DEF RunInv, Connected, Transferring
<1>4. ASSUME NEW state, BecomeClient(q, state)
      PROVE  client'[q] = state
  BY <1>0, <1>4 DEF BecomeClient
<1>5. ASSUME toClient[q] # <<>>
      PROVE  Head(toClient[q]) = toClient[q][1] /\ ~Empty(toClient[q])
  <2>1. toClient[q] \in Seq(ServerMessages)
    BY <1>0 DEF IInv, TypeOK, NetOK
  <2> QED
    BY <1>5, <2>1, Pops DEF Empty
<1>6. ASSUME NEW i, FileDone(q, i), treeJson' = treeJson, Copying(q),
             NoneComing(q)', handler[q] = "await_file", Empty(toClient'[q])
      PROVE  Mirroring(q)'
  <2>1. client'[q] \in {"idle", "await_next"}
    BY <1>4, <1>6 DEF FileDone, Finished
  <2>2. client'[q] = "await_next" => PassedOver(q)'
    BY <1>1, <1>6 DEF PassedOver
  <2> QED
    BY <1>1, <1>6, <2>1, <2>2
    DEF Mirroring, Exchanging, Copying, Bounded, Missing, Requested, Receiving, Complete, NoneComing
<1>10. CASE InitiateSync(q)
  BY <1>4, <1>10 DEF InitiateSync, Exchanging
<1>11. CASE OnLatest(q)
  <2>1. client[q] = "await_latest" /\ client'[q] = "idle" /\ toClient[q] # <<>>
    BY <1>4, <1>11 DEF OnLatest, Finished
  <2>2. handler[q] # "rehash"
    BY <1>0, <1>3, <1>5, <2>1 DEF RunInv, Together, AwaitsLatest, Alive
  <2> QED
    BY <2>1, <2>2 DEF Exchanging
<1>12. CASE OnNotLatest(q)
  <2>1. client[q] = "await_latest" /\ toClient[q] # <<>> /\ Head(toClient[q]).type = "not_latest"
    BY <1>12 DEF OnNotLatest, Answer
  <2>2. toClient[q][1].type = "not_latest" /\ ~Empty(toClient[q])
    BY <1>5, <2>1
  <2>3. handler[q] = "poll"
    BY <1>0, <1>3, <2>1, <2>2 DEF RunInv, Together, AwaitsLatest, Alive, One
  <2> QED
    BY <1>3, <2>3
<1>13. CASE OnTreeConfirmation(q)
  <2>1. /\ client[q] = "await_conf" /\ client'[q] = "await_response" /\ toClient[q] # <<>>
        /\ Take(q) /\ toServer' = toServer /\ treeJson' = treeJson
        /\ Head(toClient[q]).type = "confirmation"
    BY <1>4, <1>13 DEF OnTreeConfirmation, Answer
  <2>2. Copying(q)
    BY <1>0, <1>2, <2>1 DEF Mirroring, Exchanging
  <2>3. \A n : Coming(q, n)' <=> Coming(q, n)
    <3>1. CASE Len(toClient'[q]) > 0
      BY <1>0, <2>1, <3>1, LastStays DEF Coming
    <3>2. CASE ~(Len(toClient'[q]) > 0)
      <4>1. One(toClient[q], {"confirmation"})
        BY <1>0, <1>3, <1>5, <2>1, <3>2, Taken
        DEF RunInv, Hears, Gets, Two
      <4> QED
        BY <2>1, <3>2, <4>1 DEF Coming, One
    <3> QED
      BY <3>1, <3>2
  <2>4. ~PassedOver(q)
    BY <2>1 DEF PassedOver
  <2> QED
    BY <1>1, <2>1, <2>2, <2>3, <2>4
    DEF Copying, Bounded, Missing, Requested, Receiving, Complete
<1>14. CASE OnNoSyncNeeded(q)
  <2>1. /\ client[q] = "await_response" /\ toClient[q] # <<>>
        /\ Head(toClient[q]).type = "no_sync_needed"
    BY <1>14 DEF OnNoSyncNeeded, Answer
  <2>2. handler[q] = "poll"
    BY <1>0, <1>3, <1>5, <2>1 DEF RunInv, Together, AwaitsResponse, Alive, One
  <2> QED
    BY <1>3, <2>2
<1>15. CASE OnRequestFile(q)
  <2> DEFINE f == Head(toClient[q]).file
             dir == localDir[Home[q]]
  <2>1. /\ client[q] \in {"await_response", "await_next"} /\ toClient[q] # <<>>
        /\ Head(toClient[q]).type = "request_file" /\ Take(q) /\ treeJson' = treeJson
    BY <1>15 DEF OnRequestFile, Answer
  <2>2. toClient[q][1].type = "request_file" /\ toClient[q][1].file = f /\ ~Empty(toClient[q])
    BY <1>5, <2>1
  <2>3. handler[q] = "await_file" /\ Empty(toServer[q]) /\ One(toClient[q], {"request_file"})
    BY <1>0, <1>3, <2>1, <2>2
    DEF RunInv, Together, AwaitsResponse, AwaitsNext, Alive, One
  <2>4. Copying(q) /\ \A n : Coming(q, n) <=> n = f
    BY <1>0, <1>2, <2>1, <2>2, <2>3 DEF Mirroring, Exchanging, Coming, One, Empty
  <2>5. Empty(toClient'[q])
    <3>1. Len(toClient'[q]) = Len(toClient[q]) - 1
      BY <1>0, <2>1, Taken DEF Gets
    <3> QED
      BY <2>3, <3>1 DEF One, Empty
  <2>6. CASE f \in DOMAIN dir
    <3>1. client'[q] = "await_fconf" /\ Send(q, <<FileHeader(f), FileData(dir[f])>>)
      BY <1>4, <1>15, <2>6 DEF OnRequestFile
    <3>2. FileHeader(f) \in ClientMessages /\ FileData(dir[f]) \in ClientMessages
      BY <1>0, <2>6, Constructors DEF Workspaces
    <3>3. Len(toServer'[q]) = 2 /\ toServer'[q][1] = FileHeader(f)
      BY <1>0, <1>2, <2>3, <3>1, <3>2, Sent DEF Sends, Empty
    <3>4. \A n : Coming(q, n)' <=> n = f
      BY <2>5, <3>3 DEF Coming, FileHeader, Empty
    <3>5. ~PassedOver(q)
      BY <2>2 DEF PassedOver
    <3>6. Copying(q)'
      BY <1>1, <2>1, <2>4, <3>4, <3>5
      DEF Copying, Bounded, Missing, Requested, Receiving, Complete
    <3> QED
      BY <2>3, <3>1, <3>6
  <2>7. CASE f \notin DOMAIN dir
    <3>1. (\E i : FileDone(q, i)) /\ toServer' = toServer
      BY <1>15, <2>7 DEF OnRequestFile
    <3>2. NoneComing(q)'
      BY <2>3, <2>5, <3>1 DEF NoneComing, Coming, Empty
    <3>3. Mirroring(q)'
      BY <1>6, <2>1, <2>3, <2>4, <2>5, <3>1, <3>2
    <3> QED
      BY <1>1, <1>2, <3>3 DEF Mirroring
  <2> QED
    BY <2>6, <2>7
<1>16. CASE OnFileConfirmation(q)
  <2>1. /\ client[q] = "await_fconf" /\ toClient[q] # <<>> /\ Take(q) /\ toServer' = toServer
        /\ treeJson' = treeJson /\ client'[q] \in {"idle", "await_next"}
    BY <1>4, <1>16 DEF OnFileConfirmation, FileDone, Finished
  <2>2. Copying(q)
    BY <1>0, <1>2, <2>1 DEF Mirroring, Exchanging
  <2>3. CASE client'[q] = "idle"
    BY <1>0, <1>2, <2>1, <2>3 DEF Mirroring, Exchanging
  <2>4. CASE client'[q] = "await_next"
    <3>1. \A n : Coming(q, n)' <=> Coming(q, n)
      <4>1. CASE Len(toClient'[q]) > 0
        BY <1>0, <2>1, <4>1, LastStays DEF Coming
      <4>2. CASE ~(Len(toClient'[q]) > 0)
        <5>1. One(toClient[q], {"confirmation"})
          BY <1>0, <1>3, <1>5, <2>1, <4>2, Taken DEF RunInv, Hears, Gets, Two
        <5> QED
          BY <2>1, <4>2, <5>1 DEF Coming, One
      <4> QED
        BY <4>1, <4>2
    <3>2. ~PassedOver(q)
      BY <2>1 DEF PassedOver
    <3>3. Copying(q)'
      BY <1>1, <2>1, <2>2, <3>1, <3>2
      DEF Copying, Bounded, Missing, Requested, Receiving, Complete
    <3> QED
      BY <2>4, <3>3
  <2> QED
    BY <2>1, <2>3, <2>4
<1>17. CASE OnClosed(q)
  BY <1>2, <1>17 DEF OnClosed
<1> QED
  BY <1>10, <1>11, <1>12, <1>13, <1>14, <1>15, <1>16, <1>17 DEF ClientStep

-----------------------------------------------------------------------------
(* The environment, the users and the induction.                           *)

\* The directory changes only in the critical section.
LEMMA WritesInside ==
    ASSUME IInv, NEW q \in Runs, Works(q)
    PROVE  /\ files' = files \/ handler[q] \in Holding
           /\ \A r \in Runs : r # q => ahead'[r] = ahead[r] /\ incoming'[r] = incoming[r]
<1>0. ahead \in [Runs -> BOOLEAN] /\ incoming \in [Runs -> Names \cup {Root}]
  BY DEF IInv, TypeOK, JobOK
<1> USE DEF serverSide, jobVars, storeVars, processVars
<1>1. CASE IsLatest(q) \/ IsNotLatest(q) \/ CompareTimestamps(q) \/ CloseConnection(q)
           \/ ReceiveTreeHeader(q) \/ AcquireSemaphore(q) \/ ReceiveTree(q) \/ ConfirmTree(q)
  BY <1>0, <1>1
  DEF IsLatest, IsNotLatest, CompareTimestamps, CloseConnection, ReceiveTreeHeader,
      AcquireSemaphore, ReceiveTree, ConfirmTree
<1>2. CASE TreeReception(q) \/ TreeReceptionNowhere(q) \/ NoSync(q) \/ Request(q)
           \/ ReceiveFileHeader(q) \/ SkipFile(q) \/ ReceiveFile(q) \/ ReceiveTornFile(q)
  BY <1>0, <1>2
  DEF TreeReception, TreeReceptionNowhere, NoSync, Request, ReceiveFileHeader, SkipFile,
      ReceiveFile, ReceiveTornFile, Holding
<1>3. CASE ConfirmFile(q) \/ UpdateHash(q) \/ UpdateHashFails(q) \/ UpdateModifiedAt(q)
  BY <1>0, <1>3 DEF ConfirmFile, UpdateHash, UpdateHashFails, UpdateModifiedAt
<1> QED
  BY <1>1, <1>2, <1>3 DEF Works

LEMMA MirrorInitially == Init => MInv
<1> SUFFICES ASSUME Init, NEW r \in Runs
             PROVE  handler[r] = "none"
  BY AtTheOutset DEF MInv, Mirroring, Transferring
<1> QED
  BY DEF Init

LEMMA MirrorGoesOn ==
    ASSUME "db" \notin Faults
    PROVE  MInv /\ [Next]_vars => MInv'
<1> SUFFICES ASSUME MInv, [Next]_vars
             PROVE  \A r \in Runs : Mirroring(r)'
  BY DialogueGoesOn DEF MInv
<1>1. DInv /\ IInv /\ (\A r \in Runs : Mirroring(r)) /\ DInv'
  BY DialogueGoesOn DEF MInv, DInv
<1>2. ASSUME UNCHANGED <<client, handler, link, toServer, toClient, addedFiles, remaining,
                         treeJson, ahead, incoming, files>>
      PROVE  \A r \in Runs : Mirroring(r)'
  BY <1>1, <1>2, MirrorUntouched DEF Local
<1>3. CASE UNCHANGED vars
  BY <1>2, <1>3 DEF vars, serverSide, clientSide, jobVars, storeVars, netVars
<1>4. ASSUME Terminate
      PROVE  \A r \in Runs : Mirroring(r)'
  BY <1>4 DEF Terminate, Mirroring
<1>5. ASSUME NEW q \in Runs, ServerStep(q)
      PROVE  \A r \in Runs : Mirroring(r)'
  <2>1. CASE ReceiveTornTree(q) \/ ReceiveFileHeaderNowhere(q)
    BY <1>4, <2>1 DEF ReceiveTornTree, ReceiveFileHeaderNowhere
  <2>2. CASE Works(q)
    <3>1. Mirroring(q)'
      BY <1>1, <2>2, WorksMirror
    <3>2. ASSUME NEW r \in Runs, r # q
          PROVE  Mirroring(r)'
      <4>1. Local(r)' = Local(r)
        BY <1>1, <2>2, <3>2, WorksAlone DEF Moves, Local
      <4>2. files' = files \/ handler[r] \notin Transferring
        BY <1>1, <2>2, <3>2, WritesInside DEF IInv, OneTransfer, Holders, Transferring, Holding
      <4> QED
        BY <1>1, <2>2, <3>2, <4>1, <4>2, WritesInside, MirrorUntouched
    <3> QED
      BY <3>1, <3>2
  <2> QED
    BY <1>5, <2>1, <2>2 DEF ServerStep, Works
<1>6. ASSUME NEW q \in Runs, ClientStep(q)
      PROVE  \A r \in Runs : Mirroring(r)'
  <2>1. ahead' = ahead /\ incoming' = incoming /\ files' = files
    BY <1>6 DEF ClientStep, InitiateSync, OnLatest, OnNotLatest, OnTreeConfirmation,
         OnNoSyncNeeded, OnRequestFile, OnFileConfirmation, OnClosed, serverSide, jobVars,
         storeVars
  <2>2. ASSUME NEW r \in Runs, r # q
        PROVE  Mirroring(r)'
    BY <1>1, <1>6, <2>1, <2>2, ClientAlone, MirrorUntouched
  <2> QED
    BY <1>1, <1>6, <2>2, ClientMirrors
<1>7. ASSUME NEW q \in Runs, Environment(q)
      PROVE  \A r \in Runs : Mirroring(r)'
  <2>1. CASE ParseError(q) \/ BrokenPipe(q)
    BY <1>4, <2>1 DEF ParseError, BrokenPipe
  <2>2. CASE Start(q) \/ OnCoalesced(q) \/ KillClient(q) \/ ClientBrokenPipe(q)
    <3>0. /\ client \in [Runs -> ClientStates] /\ handler \in [Runs -> HandlerStates]
          /\ toServer \in [Runs -> Seq(ClientMessages)]
          /\ toClient \in [Runs -> Seq(ServerMessages)]
          /\ link \in [Runs -> {"none", "up", "gone"}]
      BY <1>1 DEF IInv, TypeOK, ClientOK, ProcessOK, NetOK
    <3>1. /\ ahead' = ahead /\ incoming' = incoming /\ files' = files
          /\ \A r \in Runs : r # q => Local(r)' = Local(r)
      BY <2>2, <3>0
      DEF Start, OnCoalesced, KillClient, ClientBrokenPipe, Dies, Finished, BecomeClient, GoTo,
          serverSide, jobVars, storeVars, Local
    <3>2. \A r \in Runs : r # q => Mirroring(r)'
      BY <1>1, <3>1, MirrorUntouched
    <3>3. CASE Start(q)
      BY <3>0, <3>2, <3>3 DEF Start, GoTo, Mirroring, Transferring
    <3>4. CASE OnCoalesced(q)
      <4>1. /\ client[q] \in Awaiting /\ Len(toClient[q]) > 1 /\ client'[q] = "idle"
            /\ handler'[q] = handler[q]
        BY <3>0, <3>4 DEF OnCoalesced, Finished, BecomeClient, serverSide
      <4>2. link[q] = "up" => handler[q] # "rehash"
        <5>1. RunInv(q) /\ (handler[q] = "closed" => link[q] = "gone")
          BY <1>1 DEF DInv, RunInv, Connected
        <5>2. Len(toClient[q]) # 0 /\ Len(toClient[q]) # 1
          <6>1. \A n \in Nat : n > 1 => n # 0 /\ n # 1
            OBVIOUS
          <6> QED
            BY Zenon, <1>1, <4>1, <6>1, Lengths
        <5>3. ~Empty(toClient[q]) /\ \A types : ~One(toClient[q], types)
          BY <5>2 DEF Empty, One
        <5> QED
          BY <4>1, <5>1, <5>3
          DEF RunInv, Together, AwaitsLatest, AwaitsConfirmation, AwaitsResponse,
              AwaitsFileConfirmation, AwaitsNext, Awaiting, Alive
      <4> QED
        BY <3>2, <3>4, <4>1, <4>2 DEF OnCoalesced, Mirroring, Exchanging
    <3>5. CASE KillClient(q) \/ ClientBrokenPipe(q)
      BY <3>0, <3>2, <3>5 DEF KillClient, ClientBrokenPipe, Dies, Mirroring
    <3> QED
      BY <2>2, <3>3, <3>4, <3>5
  <2> QED
    BY <1>7, <2>1, <2>2 DEF Environment
<1>8. ASSUME NEW m \in Machines, Edit(m)
      PROVE  \A r \in Runs : Mirroring(r)'
  BY <1>2, <1>8 DEF Edit, Write, Delete, Rename, Change, serverSide, jobVars, storeVars, netVars
<1>9. CASE Kill
  BY <1>4, <1>9 DEF Kill
<1>10. CASE Restart
  BY <1>2, <1>10 DEF Restart, clientSide, jobVars, storeVars, netVars
<1>11. CASE NextSecond
  BY <1>2, <1>11 DEF NextSecond, clientSide, jobVars, netVars
<1> QED
  BY <1>3, <1>5, <1>6, <1>7, <1>8, <1>9, <1>10, <1>11 DEF Next

\* Whatever is killed, lost or abandoned, and however many clients and accounts
\* share the directory: an exchange deletes and requests exactly what it takes
\* to make the names in the directory those of its client's tree, asks for no
\* file the directory has, and ends with all of them there.
THEOREM ExchangeMirrorsNames ==
    ASSUME "db" \notin Faults
    PROVE  Spec => []MirrorsNames
<1>1. MInv => MirrorsNames
  BY DEF MInv, Mirroring, MirrorsNames, Copying, Bounded, Missing, Exchanging
<1> QED
  BY <1>1, MirrorInitially, MirrorGoesOn, PTL DEF Spec
-----------------------------------------------------------------------------
(* Without a tie no client believes the server ahead of it.                *)

PlainQuestions == {m \in ClientMessages : m.type = "tree" => ~m.ahead}
PlainAnswers == {m \in ServerMessages : m.type = "not_latest" => ~m.ahead}

\* The flag is FALSE in the thread and wherever it is under way.
Plain(r) ==
    ~ahead[r] /\ toServer[r] \in Seq(PlainQuestions) /\ toClient[r] \in Seq(PlainAnswers)

\* A stream whose messages are all in S stays one.
LEMMA StreamOf ==
    ASSUME NEW S, NEW s \in Seq(S)
    PROVE  /\ s # <<>> => Head(s) \in S /\ Tail(s) \in Seq(S)
           /\ \A m \in S : Append(s, m) \in Seq(S)
           /\ \A t \in Seq(S) : s \o t \in Seq(S)
           /\ \A n \in 0..Len(s) : SubSeq(s, 1, n) \in Seq(S)
<1>1. s # <<>> => Head(s) \in S /\ Tail(s) \in Seq(S)
  BY HeadTailProperties
<1>2. \A m \in S : Append(s, m) \in Seq(S)
  BY AppendProperties
<1>3. \A t \in Seq(S) : s \o t \in Seq(S)
  BY ConcatProperties
<1>4. ASSUME NEW n \in 0..Len(s)
      PROVE  SubSeq(s, 1, n) \in Seq(S)
  OBVIOUS
<1> QED
  BY <1>1, <1>2, <1>3, <1>4

\* The thread whose client waits for the answer to check_latest compares the
\* time stamps.
LEMMA ComparesForClient ==
    ASSUME DInv, NEW q \in Runs, handler[q] = "compare_time", link[q] = "up"
    PROVE  client[q] = "await_latest"
<1>1. RunInv(q) /\ client[q] \in ClientStates
  BY DEF DInv, IInv, TypeOK, ClientOK
<1>2. Alive(q)
  BY <1>1 DEF RunInv, Connected, Alive
<1> QED
  BY <1>1, <1>2
  DEF RunInv, Together, Idle, AwaitsConfirmation, AwaitsResponse, AwaitsFileConfirmation,
      AwaitsNext, ClientStates, Awaiting, Alive, Rehashing, Comparing

LEMMA PlainWords ==
    /\ {Latest, NotLatest(FALSE), Confirmation, NoSyncNeeded} \subseteq PlainAnswers
    /\ \A file \in Names \cup {Root}, n \in Nat \ {0} : RequestFile(file, n) \in PlainAnswers
    /\ \A h \in Hashes : CheckLatest(h) \in PlainQuestions
    /\ TreeHeader(FALSE) \in PlainQuestions
    /\ \A tree \in Trees : TreeData(tree) \in PlainQuestions
    /\ \A file \in Names : FileHeader(file) \in PlainQuestions
    /\ \A content \in Contents : FileData(content) \in PlainQuestions
<1>1. {Latest, NotLatest(FALSE), Confirmation, NoSyncNeeded} \subseteq PlainAnswers
  <2>1. NotLatest(FALSE) \in PlainAnswers
    <3>1. NotLatest(FALSE) \in ServerMessages /\ NotLatest(FALSE).ahead = FALSE
      BY Constructors DEF NotLatest
    <3> QED
      BY <3>1 DEF PlainAnswers
  <2>2. /\ Latest.type # "not_latest" /\ Confirmation.type # "not_latest"
        /\ NoSyncNeeded.type # "not_latest"
    BY DEF Latest, Confirmation, NoSyncNeeded
  <2> QED
    BY <2>1, <2>2, Constructors DEF PlainAnswers
<1>2. \A file \in Names \cup {Root}, n \in Nat \ {0} : RequestFile(file, n) \in PlainAnswers
  BY Constructors DEF PlainAnswers, RequestFile
<1>3. ASSUME NEW m \in ClientMessages, m.type # "tree"
      PROVE  m \in PlainQuestions
  BY <1>3 DEF PlainQuestions
<1>4. \A h \in Hashes : CheckLatest(h) \in PlainQuestions
  BY <1>3, Constructors DEF CheckLatest
<1>5. TreeHeader(FALSE) \in PlainQuestions
  BY Constructors DEF TreeHeader, PlainQuestions
<1>6. \A tree \in Trees : TreeData(tree) \in PlainQuestions
  BY <1>3, Constructors DEF TreeData
<1>7. /\ \A file \in Names : FileHeader(file) \in PlainQuestions
      /\ \A content \in Contents : FileData(content) \in PlainQuestions
  BY <1>3, Constructors DEF FileHeader, FileData
<1> QED
  BY <1>1, <1>2, <1>4, <1>5, <1>6, <1>7

LEMMA WorksPlain ==
    ASSUME DInv, Untied, NEW q \in Runs, Works(q), Plain(q)
    PROVE  Plain(q)'
<1>0. /\ IInv /\ ahead \in [Runs -> BOOLEAN]
      /\ toServer \in [Runs -> Seq(ClientMessages)] /\ toClient \in [Runs -> Seq(ServerMessages)]
      /\ ~ahead[q] /\ toServer[q] \in Seq(PlainQuestions) /\ toClient[q] \in Seq(PlainAnswers)
  BY DEF DInv, IInv, TypeOK, JobOK, NetOK, Plain
<1>1. ASSUME toServer[q] # <<>>, Receive(q)
      PROVE  toServer'[q] \in Seq(PlainQuestions)
  <2>1. toServer'[q] = Tail(toServer[q])
    BY <1>0, <1>1 DEF Receive
  <2> QED
    BY <1>0, <1>1, <2>1, StreamOf
<1>2. ASSUME NEW m \in PlainAnswers, Reply(q, m)
      PROVE  toClient'[q] \in Seq(PlainAnswers)
  <2>1. toClient'[q] \in {toClient[q], Append(toClient[q], m)}
    BY <1>0, <1>2 DEF Reply
  <2> QED
    BY <1>0, <2>1, StreamOf
<1> USE DEF serverSide, jobVars, netVars, Arrived
<1>3. CASE IsLatest(q) \/ NoSync(q) \/ ConfirmTree(q) \/ ConfirmFile(q)
  BY <1>0, <1>1, <1>2, <1>3, PlainWords
  DEF IsLatest, NoSync, ConfirmTree, ConfirmFile, Plain
<1>4. CASE CompareTimestamps(q)
  <2>1. handler[q] = "compare_time" /\ toServer' = toServer /\ ahead' = ahead
    BY <1>4 DEF CompareTimestamps
  <2>2. PICK flag \in BOOLEAN : (flag => q \in notAfter) /\ Reply(q, NotLatest(flag))
    BY <1>4 DEF CompareTimestamps
  <2>3. CASE link[q] = "up"
    <3>1. flag = FALSE
      BY <2>1, <2>2, <2>3, ComparesForClient DEF Untied
    <3> QED
      BY <1>0, <1>2, <2>1, <2>2, <3>1, PlainWords DEF Plain
  <2>4. CASE link[q] # "up"
    BY <1>0, <2>1, <2>2, <2>4 DEF Reply, Plain
  <2> QED
    BY <2>3, <2>4
<1>5. CASE ReceiveTreeHeader(q)
  <2>1. toServer[q] # <<>> /\ Head(toServer[q]).type = "tree" /\ Receive(q) /\ toClient' = toClient
        /\ ahead'[q] = Head(toServer[q]).ahead
    BY <1>0, <1>5 DEF ReceiveTreeHeader
  <2>2. Head(toServer[q]) \in PlainQuestions
    BY <1>0, <2>1, StreamOf
  <2> QED
    BY <1>0, <1>1, <2>1, <2>2 DEF Plain, PlainQuestions
<1>6. CASE Request(q)
  <2>1. PICK file \in addedFiles[q] : Reply(q, RequestFile(file, Cardinality(addedFiles[q])))
    BY <1>6 DEF Request
  <2>2. /\ toServer' = toServer /\ ahead' = ahead /\ file \in Names \cup {Root}
        /\ Cardinality(addedFiles[q]) \in Nat \ {0}
    BY <1>0, <1>6, RequestCount DEF Request, IInv, TypeOK, JobOK
  <2> QED
    BY <1>0, <1>2, <2>1, <2>2, PlainWords DEF Plain
<1>7. CASE IsNotLatest(q) \/ ReceiveTree(q) \/ ReceiveFileHeader(q) \/ SkipFile(q) \/ ReceiveFile(q)
  BY <1>0, <1>1, <1>7
  DEF IsNotLatest, ReceiveTree, ReceiveFileHeader, SkipFile, ReceiveFile, Plain
<1>8. CASE AcquireSemaphore(q) \/ TreeReception(q) \/ TreeReceptionNowhere(q)
           \/ ReceiveTornFile(q) \/ UpdateHash(q) \/ UpdateHashFails(q) \/ UpdateModifiedAt(q)
           \/ CloseConnection(q)
  BY <1>0, <1>8
  DEF AcquireSemaphore, TreeReception, TreeReceptionNowhere, ReceiveTornFile, UpdateHash,
      UpdateHashFails, UpdateModifiedAt, CloseConnection, Plain
<1> QED
  BY <1>3, <1>4, <1>5, <1>6, <1>7, <1>8 DEF Works

LEMMA ClientPlain ==
    ASSUME DInv, NEW q \in Runs, ClientStep(q), Plain(q)
    PROVE  Plain(q)'
<1>0. /\ IInv /\ localDir[Home[q]] \in Workspaces /\ treeJson \in [Runs -> Trees]
      /\ toServer \in [Runs -> Seq(ClientMessages)] /\ toClient \in [Runs -> Seq(ServerMessages)]
      /\ ~ahead[q] /\ toServer[q] \in Seq(PlainQuestions) /\ toClient[q] \in Seq(PlainAnswers)
  BY EnvironmentAssumption DEF DInv, IInv, TypeOK, MachineOK, ClientOK, NetOK, Plain
<1>1. ASSUME toClient[q] # <<>>, Take(q)
      PROVE  toClient'[q] \in Seq(PlainAnswers)
  <2>1. toClient'[q] = Tail(toClient[q])
    BY <1>0, <1>1 DEF Take
  <2> QED
    BY <1>0, <1>1, <2>1, StreamOf
<1>2. ASSUME NEW ms \in Seq(PlainQuestions), Send(q, ms)
      PROVE  toServer'[q] \in Seq(PlainQuestions)
  <2>1. toServer'[q] \in {toServer[q], toServer[q] \o ms}
    BY <1>0, <1>2 DEF Send
  <2> QED
    BY <1>0, <2>1, StreamOf
<1>3. ASSUME NEW m \in PlainQuestions, NEW n \in PlainQuestions
      PROVE  <<m>> \in Seq(PlainQuestions) /\ <<m, n>> \in Seq(PlainQuestions)
  OBVIOUS
<1> USE DEF serverSide, jobVars, netVars, Answer
<1>4. CASE InitiateSync(q)
  <2>1. CheckLatest(treeHash(localDir[Home[q]], ClientOrder)) \in PlainQuestions
    BY <1>0, TreeHashType, PlainWords, DirectoryAssumption
  <2> QED
    BY <1>0, <1>2, <1>3, <1>4, <2>1 DEF InitiateSync, Plain
<1>5. CASE OnNotLatest(q)
  <2>1. /\ toClient[q] # <<>> /\ Head(toClient[q]).type = "not_latest" /\ Take(q) /\ ahead' = ahead
        /\ treeJson'[q] = buildTree(localDir[Home[q]])
        /\ Send(q, <<TreeHeader(Head(toClient[q]).ahead), TreeData(treeJson'[q])>>)
    BY <1>0, <1>5 DEF OnNotLatest
  <2>2. Head(toClient[q]).ahead = FALSE
    <3>1. Head(toClient[q]) \in PlainAnswers /\ Head(toClient[q]) \in ServerMessages
      BY <1>0, <2>1, StreamOf
    <3> QED
      BY <2>1, <3>1, Fields DEF PlainAnswers
  <2>3. TreeHeader(Head(toClient[q]).ahead) \in PlainQuestions
        /\ TreeData(treeJson'[q]) \in PlainQuestions
    BY <1>0, <2>1, <2>2, BuildTreeType, PlainWords
  <2> QED
    BY <1>0, <1>1, <1>2, <1>3, <2>1, <2>3 DEF Plain
<1>6. CASE OnRequestFile(q)
  <2> DEFINE file == Head(toClient[q]).file
             dir == localDir[Home[q]]
  <2>1. /\ toClient[q] # <<>> /\ Take(q) /\ ahead' = ahead
        /\ \/ file \in DOMAIN dir /\ Send(q, <<FileHeader(file), FileData(dir[file])>>)
           \/ toServer' = toServer
    BY <1>6 DEF OnRequestFile
  <2>2. file \in DOMAIN dir => FileHeader(file) \in PlainQuestions
                                /\ FileData(dir[file]) \in PlainQuestions
    BY <1>0, PlainWords DEF Workspaces
  <2> QED
    BY <1>0, <1>1, <1>2, <1>3, <2>1, <2>2 DEF Plain
<1>7. CASE OnLatest(q) \/ OnTreeConfirmation(q) \/ OnNoSyncNeeded(q) \/ OnFileConfirmation(q)
           \/ OnClosed(q)
  BY <1>0, <1>1, <1>7
  DEF OnLatest, OnTreeConfirmation, OnNoSyncNeeded, OnFileConfirmation, OnClosed, Plain
<1> QED
  BY <1>4, <1>5, <1>6, <1>7 DEF ClientStep

LEMMA PlainInitially == Init => \A r \in Runs : Plain(r)
<1>1. <<>> \in Seq(PlainQuestions) /\ <<>> \in Seq(PlainAnswers)
  OBVIOUS
<1> QED
  BY <1>1 DEF Init, Plain

LEMMA PlainGoesOn ==
    ASSUME DInv, Untied, \A r \in Runs : Plain(r), [Next]_vars
    PROVE  \A r \in Runs : Plain(r)'
<1>0. /\ ahead \in [Runs -> BOOLEAN]
      /\ toServer \in [Runs -> Seq(ClientMessages)] /\ toClient \in [Runs -> Seq(ServerMessages)]
      /\ IInv
  BY DEF DInv, IInv, TypeOK, JobOK, NetOK
<1>1. ASSUME UNCHANGED <<ahead, toServer, toClient>>
      PROVE  \A r \in Runs : Plain(r)'
  BY <1>1 DEF Plain
<1>2. CASE UNCHANGED vars
  BY <1>1, <1>2 DEF vars, serverSide, jobVars, netVars
<1>3. ASSUME Terminate
      PROVE  \A r \in Runs : Plain(r)'
  <2>1. <<>> \in Seq(PlainQuestions)
    OBVIOUS
  <2> QED
    BY <1>3, <2>1 DEF Terminate, jobVars, Plain
<1>4. ASSUME NEW q \in Runs, ServerStep(q)
      PROVE  \A r \in Runs : Plain(r)'
  <2>1. CASE ReceiveTornTree(q) \/ ReceiveFileHeaderNowhere(q)
    BY <1>3, <2>1 DEF ReceiveTornTree, ReceiveFileHeaderNowhere
  <2>2. CASE Works(q)
    <3>1. Plain(q)'
      BY <2>2, WorksPlain
    <3>2. ASSUME NEW r \in Runs, r # q
          PROVE  Plain(r)'
      BY <1>0, <2>2, <3>2, WorksAlone, WritesInside DEF Moves, Plain
    <3> QED
      BY <3>1, <3>2
  <2> QED
    BY <1>4, <2>1, <2>2 DEF ServerStep, Works
<1>5. ASSUME NEW q \in Runs, ClientStep(q)
      PROVE  \A r \in Runs : Plain(r)'
  <2>1. ahead' = ahead
    BY <1>5 DEF ClientStep, InitiateSync, OnLatest, OnNotLatest, OnTreeConfirmation,
         OnNoSyncNeeded, OnRequestFile, OnFileConfirmation, OnClosed, serverSide, jobVars
  <2>2. \A r \in Runs : r # q => toServer'[r] = toServer[r] /\ toClient'[r] = toClient[r]
    BY <1>0, <1>5, ClientAlone DEF Local
  <2>3. Plain(q)'
    BY <1>5, ClientPlain
  <2> QED
    BY <2>1, <2>2, <2>3 DEF Plain
<1>6. ASSUME NEW q \in Runs, Environment(q)
      PROVE  \A r \in Runs : Plain(r)'
  <2>1. CASE ParseError(q) \/ BrokenPipe(q)
    BY <1>3, <2>1 DEF ParseError, BrokenPipe
  <2>2. CASE Start(q)
    BY <1>1, <2>2 DEF Start, jobVars
  <2>3. CASE OnCoalesced(q) \/ KillClient(q) \/ ClientBrokenPipe(q)
    <3>1. <<>> \in Seq(PlainAnswers)
      OBVIOUS
    <3>2. ahead' = ahead /\ \A r \in Runs : toClient'[r] \in {toClient[r], <<>>}
      BY <1>0, <2>3 DEF OnCoalesced, KillClient, ClientBrokenPipe, Dies, serverSide, jobVars
    <3>3. ASSUME NEW r \in Runs
          PROVE  toServer'[r] \in Seq(PlainQuestions)
      <4>1. toServer[r] \in Seq(PlainQuestions)
        BY DEF Plain
      <4>2. toServer'[r] = toServer[r]
            \/ \E n \in 0..Len(toServer[r]) : toServer'[r] = SubSeq(toServer[r], 1, n)
        BY <1>0, <2>3 DEF OnCoalesced, KillClient, ClientBrokenPipe
      <4> QED
        BY <4>1, <4>2, StreamOf
    <3> QED
      BY <3>1, <3>2, <3>3 DEF Plain
  <2> QED
    BY <1>6, <2>1, <2>2, <2>3 DEF Environment
<1>7. ASSUME NEW m \in Machines, Edit(m)
      PROVE  \A r \in Runs : Plain(r)'
  BY <1>1, <1>7 DEF Edit, Write, Delete, Rename, Change, serverSide, jobVars, netVars
<1>8. CASE Kill
  BY <1>3, <1>8 DEF Kill
<1>9. CASE Restart
  BY <1>1, <1>9 DEF Restart, jobVars, netVars
<1>10. CASE NextSecond
  BY <1>1, <1>10 DEF NextSecond, jobVars, netVars
<1> QED
  BY <1>2, <1>4, <1>5, <1>6, <1>7, <1>8, <1>9, <1>10 DEF Next

\* The server requests only "files that it doesn't have": in every behaviour
\* in which no sync falls into the second of the account's last stamp (Untied),
\* for then no client asks for the reverse comparison, and the names to be
\* requested are those the directory lacks.
THEOREM OnlyMissingRequested ==
    ASSUME "db" \notin Faults
    PROVE  Spec /\ []Untied => []RequestsMissingFiles
<1> DEFINE Forward == MInv /\ \A r \in Runs : Plain(r)
<1>1. Init => Forward
  BY MirrorInitially, PlainInitially
<1>2. Forward /\ Untied /\ [Next]_vars => Forward'
  BY MirrorGoesOn, PlainGoesOn DEF MInv
<1>3. Forward => RequestsMissingFiles
  <2> SUFFICES ASSUME Forward, NEW r \in Runs, handler[r] \in Transferring,
                      client[r] \in {"await_response", "await_fconf", "await_next"}
               PROVE  Missing(r)
    BY DEF RequestsMissingFiles, Missing
  <2>1. RunInv(r) /\ Mirroring(r) /\ ~ahead[r] /\ link[r] \in {"none", "up", "gone"}
    BY DEF MInv, DInv, IInv, TypeOK, NetOK, Plain
  <2>2. link[r] = "up"
    BY <2>1 DEF RunInv, Connected, Alive, Transferring
  <2> QED
    BY <2>1, <2>2 DEF Mirroring, Exchanging, Copying
<1> HIDE DEF Forward
<1> QED
  BY <1>1, <1>2, <1>3, PTL DEF Spec

-----------------------------------------------------------------------------
(* With writes only, what the server requests can be sent.                 *)

\* Files are written and never deleted, and no directory starts empty.
OnlyWrites ==
    Edits \subseteq {"write"} /\ \A m \in Machines : DOMAIN InitialDir[m] # {}

\* The client's directory has every file of its tree, and there is one.
HasAll(r) == DOMAIN treeJson[r] # {} /\ DOMAIN treeJson[r] \subseteq DOMAIN localDir[Home[r]]

NamedRequests == {m \in ServerMessages : m.type = "request_file" => m.file # Root}

\* The root, which the client could not open, is not requested.
Named(r) ==
    toClient[r] \in Seq(NamedRequests) /\ (client[r] # "dead" => Root \notin addedFiles[r])

\* Where a client waits and no message is under way, its thread has a step.
Attended(r) ==
    LET h == handler[r]
        s == toServer[r]
        k == toClient[r]
    IN  Alive(r) /\ h # "closed" =>
            /\ client[r] = "idle" => h \in Rehashing
            /\ client[r] = "await_latest" =>
                   h # "await_file" /\ (Empty(s) /\ Empty(k) => h = "compare_time")
            /\ client[r] = "await_next" /\ Empty(k) => h = "request"

Served(r) == HasAll(r) /\ Named(r) /\ Attended(r)

TInv == MInv /\ (\A r \in Runs : Plain(r)) /\ \A r \in Runs : Served(r)

LEMMA ServedUntouched ==
    ASSUME NEW r \in Runs, Served(r), Local(r)' = Local(r), localDir'[Home[r]] = localDir[Home[r]]
    PROVE  Served(r)'
<1>1. /\ client'[r] = client[r] /\ handler'[r] = handler[r]
      /\ toServer'[r] = toServer[r] /\ toClient'[r] = toClient[r]
      /\ addedFiles'[r] = addedFiles[r] /\ treeJson'[r] = treeJson[r]
  BY DEF Local
<1> QED
  BY <1>1 DEF Served, HasAll, Named, Attended, Alive

\* The directory of a client that is alive is the one the server compares.
LEMMA RootNotAdded ==
    ASSUME IInv, NEW q \in Runs, ~ahead[q], TreeReception(q), treeFile = treeJson[q],
           DOMAIN treeJson[q] # {}
    PROVE  Root \notin addedFiles'[q]
<1>1. /\ addedFiles \in [Runs -> SUBSET (Names \cup {Root})] /\ treeFile \in Trees
      /\ files \in Workspaces
  BY DEF IInv, TypeOK, JobOK, StoreOK
<1>2. addedFiles'[q] = AddedNodes(buildTree(files), treeFile)
  BY <1>1 DEF TreeReception, AfterComparison, RootModified
<1>3. AddedNodes(buildTree(files), treeFile) \subseteq Names
  BY <1>1, BuildTreeType DEF AddedNodes, ModifiedNodes, Trees
<1> QED
  BY <1>2, <1>3, RootAssumption

LEMMA WorksNamed ==
    ASSUME TInv, "db" \notin Faults, NEW q \in Runs, Works(q)
    PROVE  HasAll(q)' /\ Named(q)'
<1>0. /\ DInv /\ IInv /\ RunInv(q) /\ HasAll(q) /\ Named(q) /\ ~ahead[q]
      /\ addedFiles \in [Runs -> SUBSET (Names \cup {Root})]
      /\ toClient \in [Runs -> Seq(ServerMessages)] /\ toClient[q] \in Seq(NamedRequests)
      /\ link[q] \in {"none", "up", "gone"}
  BY DEF TInv, MInv, DInv, IInv, TypeOK, JobOK, NetOK, Served, Named, Plain
<1>1. /\ client'[q] = client[q] /\ treeJson'[q] = treeJson[q] /\ link'[q] = link[q]
  BY <1>0, WorksAlone DEF Moves
<1>2. localDir' = localDir
  BY DEF Works, IsLatest, IsNotLatest, CompareTimestamps, ReceiveTreeHeader, AcquireSemaphore,
         ReceiveTree, ConfirmTree, TreeReception, TreeReceptionNowhere, NoSync, Request,
         ReceiveFileHeader, SkipFile, ReceiveFile, ReceiveTornFile, ConfirmFile, UpdateHash,
         UpdateHashFails, UpdateModifiedAt, CloseConnection, clientSide, machineVars
<1>3. HasAll(q)'
  BY <1>0, <1>1, <1>2 DEF HasAll
<1>4. ASSUME NEW m \in NamedRequests, Reply(q, m)
      PROVE  toClient'[q] \in Seq(NamedRequests)
  <2>1. toClient'[q] \in {toClient[q], Append(toClient[q], m)}
    BY <1>0, <1>4 DEF Reply
  <2> QED
    BY <1>0, <2>1, StreamOf
<1>5. ASSUME NEW m \in ServerMessages, m.type # "request_file"
      PROVE  m \in NamedRequests
  BY <1>5 DEF NamedRequests
<1>6. /\ Latest \in NamedRequests /\ Confirmation \in NamedRequests
      /\ NoSyncNeeded \in NamedRequests
      /\ \A flag \in BOOLEAN : NotLatest(flag) \in NamedRequests
  BY <1>5, Constructors DEF Latest, Confirmation, NoSyncNeeded, NotLatest
<1> USE DEF serverSide, jobVars, netVars
<1>7. CASE IsLatest(q) \/ NoSync(q) \/ ConfirmTree(q) \/ ConfirmFile(q)
  BY <1>0, <1>1, <1>3, <1>4, <1>6, <1>7 DEF IsLatest, NoSync, ConfirmTree, ConfirmFile, Named
<1>8. CASE CompareTimestamps(q)
  <2>1. (\E flag \in BOOLEAN : Reply(q, NotLatest(flag))) /\ addedFiles' = addedFiles
    BY <1>8 DEF CompareTimestamps
  <2> QED
    BY <1>0, <1>1, <1>3, <1>4, <1>6, <2>1 DEF Named
<1>9. CASE TreeReception(q)
  <2>1. handler[q] = "compare" /\ toClient' = toClient
    BY <1>9 DEF TreeReception
  <2>2. ASSUME client[q] # "dead"
        PROVE  Root \notin addedFiles'[q]
    <3>1. Alive(q) /\ link[q] = "up"
      BY <1>0, <2>1, <2>2 DEF RunInv, Connected, Alive
    <3>2. treeFile = treeJson[q]
      BY <1>0, <2>1, <3>1, InExchange
    <3> QED
      BY <1>0, <1>9, <3>2, RootNotAdded DEF HasAll
  <2> QED
    BY <1>0, <1>1, <1>3, <2>1, <2>2 DEF Named
<1>10. CASE Request(q)
  <2>1. PICK file \in addedFiles[q] :
          /\ Reply(q, RequestFile(file, Cardinality(addedFiles[q])))
          /\ addedFiles' = [addedFiles EXCEPT ![q] = @ \ {file}]
    BY <1>10 DEF Request
  <2>2. RequestFile(file, Cardinality(addedFiles[q])) \in ServerMessages
    BY <1>0, RequestCount, Constructors DEF IInv, TypeOK
  <2>3. toClient'[q] \in Seq(NamedRequests)
    <3>1. CASE link[q] = "up"
      <4>1. file # Root
        BY <1>0, <3>1 DEF RunInv, Connected, Named
      <4>2. RequestFile(file, Cardinality(addedFiles[q])) \in NamedRequests
        BY <2>2, <4>1 DEF NamedRequests, RequestFile
      <4> QED
        BY <1>4, <2>1, <4>2
    <3>2. CASE link[q] # "up"
      BY <1>0, <2>1, <3>2 DEF Reply
    <3> QED
      BY <3>1, <3>2
  <2>4. addedFiles'[q] \subseteq addedFiles[q]
    BY <1>0, <2>1
  <2> QED
    BY <1>0, <1>1, <1>3, <2>3, <2>4 DEF Named
<1>11. CASE ~(IsLatest(q) \/ NoSync(q) \/ ConfirmTree(q) \/ ConfirmFile(q)
              \/ CompareTimestamps(q) \/ TreeReception(q) \/ Request(q))
  <2>1. toClient' = toClient /\ addedFiles' = addedFiles
    BY <1>11 DEF Works, IsNotLatest, ReceiveTreeHeader, AcquireSemaphore, ReceiveTree,
         TreeReceptionNowhere, ReceiveFileHeader, SkipFile, ReceiveFile, ReceiveTornFile,
         UpdateHash, UpdateHashFails, UpdateModifiedAt, CloseConnection, DbMayFail
  <2> QED
    BY <1>0, <1>1, <1>3, <2>1 DEF Named
<1> QED
  BY <1>7, <1>8, <1>9, <1>10, <1>11

\* The steps a thread can take from its position.
LEMMA WorksAt ==
    ASSUME NEW q \in Runs, Works(q)
    PROVE  /\ handler[q] \notin {"none", "closed"}
           /\ handler[q] = "poll" =>
                IsLatest(q) \/ IsNotLatest(q) \/ ReceiveTreeHeader(q) \/ CloseConnection(q)
           /\ handler[q] = "compare_time" => CompareTimestamps(q)
           /\ handler[q] = "request" => Request(q)
           /\ handler[q] = "await_file" => ReceiveFileHeader(q) \/ SkipFile(q)
           /\ handler[q] = "rehash" => UpdateHash(q) \/ UpdateHashFails(q)
           /\ handler[q] = "stamp" => UpdateModifiedAt(q)
BY DEF Works, IsLatest, IsNotLatest, CompareTimestamps, ReceiveTreeHeader, AcquireSemaphore,
       ReceiveTree, ConfirmTree, TreeReception, TreeReceptionNowhere, NoSync, Request,
       ReceiveFileHeader, SkipFile, ReceiveFile, ReceiveTornFile, ConfirmFile, UpdateHash,
       UpdateHashFails, UpdateModifiedAt, CloseConnection

LEMMA WorksAttended ==
    ASSUME TInv, "db" \notin Faults, "coalesce" \notin Faults, NEW q \in Runs, Works(q)
    PROVE  Attended(q)'
<1>0. /\ DInv /\ IInv /\ RunInv(q) /\ Attended(q) /\ handler \in [Runs -> HandlerStates]
      /\ client[q] \in ClientStates
  BY DEF TInv, MInv, DInv, IInv, TypeOK, ProcessOK, ClientOK, Served
<1>1. client'[q] = client[q]
  BY <1>0, WorksAlone DEF Moves
<1>2. SUFFICES ASSUME Alive(q), handler'[q] # "closed",
                      client[q] \in {"idle", "await_latest", "await_next"}
               PROVE  LET h == handler'[q]
                          s == toServer'[q]
                          k == toClient'[q]
                      IN  /\ client[q] = "idle" => h \in Rehashing
                          /\ client[q] = "await_latest" =>
                                 h # "await_file" /\ (Empty(s) /\ Empty(k) => h = "compare_time")
                          /\ client[q] = "await_next" /\ Empty(k) => h = "request"
  BY <1>1 DEF Attended, Alive
<1>3. ASSUME NEW state, GoTo(q, state)
      PROVE  handler'[q] = state
  BY <1>0, <1>3 DEF GoTo
<1>4. handler[q] # "closed" /\ link[q] = "up"
  <2>1. handler[q] # "closed" /\ link[q] # "none"
    BY <1>0, <1>2, WorksAt DEF RunInv, Connected, Alive
  <2>2. link[q] \in {"none", "up", "gone"}
    BY <1>0 DEF IInv, TypeOK, NetOK
  <2> QED
    BY <1>0, <1>2, <2>1, <2>2 DEF RunInv, Connected
<1>5. /\ toServer[q] = <<>> <=> Empty(toServer[q])
      /\ ~Ended(q) /\ ~DbMayFail(q)
  BY <1>0, <1>4, Lengths DEF Ended, DbMayFail
<1>6. Together(q) /\ Attended(q)
  BY <1>0 DEF RunInv
<1>7. CASE client[q] = "idle"
  <2>1. /\ handler[q] \in {"poll", "rehash", "stamp"} /\ Empty(toServer[q])
    BY <1>2, <1>4, <1>6, <1>7 DEF Together, Idle, Attended, Rehashing
  <2>2. CASE handler[q] = "poll"
    BY <1>5, <2>1, <2>2, WorksAt
    DEF IsLatest, IsNotLatest, ReceiveTreeHeader, CloseConnection, Arrived
  <2>3. CASE handler[q] \in {"rehash", "stamp"}
    BY <1>3, <1>5, <1>7, <2>1, <2>3, WorksAt
    DEF UpdateHash, UpdateHashFails, UpdateModifiedAt, Rehashing
  <2> QED
    BY <2>1, <2>2, <2>3
<1>8. CASE client[q] = "await_next"
  <2>1. CASE Empty(toClient[q])
    <3>1. handler[q] = "request"
      BY <1>2, <1>4, <1>6, <1>8, <2>1 DEF Attended
    <3>2. Request(q)
      BY <3>1, WorksAt
    <3>3. ~Empty(toClient'[q])
      <4>1. PICK f \in addedFiles[q] : Reply(q, RequestFile(f, Cardinality(addedFiles[q])))
        BY <3>2 DEF Request
      <4>2. RequestFile(f, Cardinality(addedFiles[q])) \in ServerMessages
        BY <1>0, RequestCount, Constructors DEF IInv, TypeOK, JobOK
      <4>3. Len(toClient[q]) = 0 /\ Len(toClient'[q]) = Len(toClient[q]) + 1
        BY <1>0, <1>4, <2>1, <4>1, <4>2, Replied DEF Empty
      <4> QED
        BY <4>3 DEF Empty
    <3> QED
      BY <1>8, <3>3
  <2>2. CASE ~Empty(toClient[q])
    <3>1. handler[q] = "await_file" /\ toServer[q] = <<>>
      BY <1>2, <1>4, <1>5, <1>6, <1>8, <2>2 DEF Together, AwaitsNext
    <3> QED
      BY <1>5, <3>1, WorksAt DEF ReceiveFileHeader, SkipFile, Arrived
  <2> QED
    BY <2>1, <2>2
<1>9. CASE client[q] = "await_latest"
  <2>1. \/ One(toServer[q], {"check_latest"}) /\ Empty(toClient[q]) /\ handler[q] \in Rehashing
        \/ Empty(toServer[q]) /\ Empty(toClient[q]) /\ handler[q] = "compare_time"
        \/ Empty(toServer[q]) /\ One(toClient[q], {"latest", "not_latest"}) /\ handler[q] = "poll"
    BY <1>2, <1>4, <1>6, <1>9 DEF Together, AwaitsLatest, Attended
  <2>2. SUFFICES handler'[q] # "await_file"
                 /\ (Empty(toServer'[q]) /\ Empty(toClient'[q]) => handler'[q] = "compare_time")
    BY <1>9
  <2>3. ASSUME NEW m \in ServerMessages, Reply(q, m), Empty(toClient[q])
        PROVE  ~Empty(toClient'[q])
    <3>1. Len(toClient[q]) = 0 /\ Len(toClient'[q]) = Len(toClient[q]) + 1
      BY <1>0, <1>4, <2>3, Replied DEF Empty
    <3> QED
      BY <3>1 DEF Empty
  <2>4. CASE handler[q] = "compare_time" /\ Empty(toClient[q])
    <3>1. CompareTimestamps(q)
      BY <2>4, WorksAt
    <3>2. handler'[q] = "poll" /\ \E flag \in BOOLEAN : Reply(q, NotLatest(flag))
      BY <1>3, <3>1 DEF CompareTimestamps
    <3> QED
      BY <2>3, <2>4, <3>2, Constructors
  <2>5. CASE Empty(toServer[q]) /\ handler[q] = "poll"
    BY <1>5, <2>5, WorksAt DEF IsLatest, IsNotLatest, ReceiveTreeHeader, CloseConnection, Arrived
  <2>6. CASE One(toServer[q], {"check_latest"}) /\ Empty(toClient[q]) /\ handler[q] = "poll"
    <3>1. IsLatest(q) \/ IsNotLatest(q)
      <4>1. toServer[q] # <<>> => Head(toServer[q]) = toServer[q][1]
        BY <1>0, Pops DEF IInv, TypeOK, NetOK
      <4>2. ~Arrived(q, "tree")
        BY <2>6, <4>1 DEF Arrived, One
      <4> QED
        BY <1>5, <2>6, <4>2, WorksAt DEF ReceiveTreeHeader, CloseConnection
    <3>2. CASE IsLatest(q)
      BY <2>3, <2>6, <3>2, Constructors DEF IsLatest, serverSide
    <3>3. CASE IsNotLatest(q)
      BY <1>3, <3>3 DEF IsNotLatest
    <3> QED
      BY <3>1, <3>2, <3>3
  <2>7. CASE One(toServer[q], {"check_latest"}) /\ handler[q] \in {"rehash", "stamp"}
    <3>1. UpdateHash(q) \/ UpdateModifiedAt(q)
      BY <1>5, <2>7, WorksAt DEF UpdateHashFails
    <3>2. handler'[q] \in {"stamp", "poll"} /\ toServer' = toServer
      BY <1>3, <3>1 DEF UpdateHash, UpdateModifiedAt, netVars
    <3> QED
      BY <2>7, <3>2 DEF One, Empty
  <2> QED
    BY <2>1, <2>4, <2>5, <2>6, <2>7 DEF Rehashing
<1> QED
  BY <1>2, <1>7, <1>8, <1>9

LEMMA ClientServed ==
    ASSUME TInv, "coalesce" \notin Faults, NEW q \in Runs, ClientStep(q)
    PROVE  Served(q)'
<1>0. /\ DInv /\ IInv /\ RunInv(q) /\ Mirroring(q) /\ HasAll(q) /\ Named(q) /\ Attended(q)
      /\ ~ahead[q] /\ client \in [Runs -> ClientStates] /\ client[q] \in ClientStates
      /\ treeJson \in [Runs -> Trees] /\ localDir[Home[q]] \in Workspaces
      /\ toClient \in [Runs -> Seq(ServerMessages)] /\ link[q] \in {"none", "up", "gone"}
      /\ DOMAIN localDir[Home[q]] # {}
  BY EnvironmentAssumption
  DEF TInv, MInv, DInv, IInv, TypeOK, MachineOK, ClientOK, NetOK, Served, HasAll, Plain
<1>1. /\ handler' = handler /\ addedFiles' = addedFiles /\ link' = link /\ localDir' = localDir
  BY DEF ClientStep, InitiateSync, OnLatest, OnNotLatest, OnTreeConfirmation, OnNoSyncNeeded,
         OnRequestFile, OnFileConfirmation, OnClosed, serverSide, jobVars, netVars, machineVars
<1>2. ASSUME NEW state, BecomeClient(q, state)
      PROVE  client'[q] = state
  BY <1>0, <1>2 DEF BecomeClient
<1>3. HasAll(q)'
  <2>1. treeJson'[q] \in {treeJson[q], buildTree(localDir[Home[q]])}
    BY <1>0 DEF ClientStep, InitiateSync, OnLatest, OnNotLatest, OnTreeConfirmation,
         OnNoSyncNeeded, OnRequestFile, OnFileConfirmation, OnClosed
  <2> QED
    BY <1>0, <1>1, <2>1, BuildTreeType DEF HasAll
<1>4. Named(q)'
  <2>1. client[q] # "dead"
    BY DEF ClientStep, InitiateSync, OnLatest, OnNotLatest, OnTreeConfirmation, OnNoSyncNeeded,
         OnRequestFile, OnFileConfirmation, OnClosed, Awaiting
  <2>2. toClient' = toClient \/ (toClient[q] # <<>> /\ Take(q))
    BY DEF ClientStep, InitiateSync, OnLatest, OnNotLatest, OnTreeConfirmation, OnNoSyncNeeded,
         OnRequestFile, OnFileConfirmation, OnClosed, Answer, netVars
  <2>3. toClient'[q] \in Seq(NamedRequests)
    <3>1. CASE toClient' = toClient
      BY <1>0, <3>1 DEF Named
    <3>2. CASE toClient[q] # <<>> /\ Take(q)
      <4>1. toClient'[q] = Tail(toClient[q])
        BY <1>0, <3>2 DEF Take
      <4> QED
        BY <1>0, <3>2, <4>1, StreamOf DEF Named
    <3> QED
      BY <2>2, <3>1, <3>2
  <2> QED
    BY <1>0, <1>1, <2>1, <2>3 DEF Named
<1>5. SUFFICES Attended(q)'
  BY <1>3, <1>4 DEF Served
<1>6. SUFFICES ASSUME handler[q] # "closed"
               PROVE  Attended(q)'
  BY <1>1 DEF Attended
<1>7. Alive(q) /\ link[q] = "up" /\ Together(q)
  <2>1. client[q] \notin {"off", "dead"}
    BY DEF ClientStep, InitiateSync, OnLatest, OnNotLatest, OnTreeConfirmation, OnNoSyncNeeded,
         OnRequestFile, OnFileConfirmation, OnClosed, Awaiting
  <2> QED
    BY <1>0, <1>6, <2>1 DEF RunInv, Connected, Alive
<1>8. ASSUME toClient[q] # <<>>
      PROVE  /\ Head(toClient[q]) = toClient[q][1] /\ ~Empty(toClient[q])
             /\ Head(toClient[q]) \in ServerMessages /\ Head(toClient[q]) \in NamedRequests
  <2>1. toClient[q] \in Seq(ServerMessages) /\ toClient[q] \in Seq(NamedRequests)
    BY <1>0 DEF Named
  <2> QED
    BY <1>8, <2>1, Pops, StreamOf DEF Empty
<1>9. ASSUME toClient[q] # <<>>, Take(q)
      PROVE  Len(toClient'[q]) = Len(toClient[q]) - 1
  BY <1>0, <1>9, Taken DEF Gets
<1>10. CASE InitiateSync(q)
  <2>1. /\ client[q] = "idle" /\ client'[q] = "await_latest"
        /\ Send(q, <<CheckLatest(treeHash(localDir[Home[q]], ClientOrder))>>)
    BY <1>2, <1>10 DEF InitiateSync
  <2>2. CheckLatest(treeHash(localDir[Home[q]], ClientOrder)) \in ClientMessages
    BY <1>0, TreeHashType, Constructors
  <2>3. Len(toServer[q]) = 0 /\ handler[q] \in Rehashing
    BY <1>0, <1>6, <1>7, <2>1 DEF Together, Idle, Attended, Empty
  <2>4. Len(toServer'[q]) = 1
    BY <1>0, <1>7, <2>1, <2>2, <2>3, Asked DEF Asks, Empty
  <2> QED
    BY <1>1, <2>1, <2>3, <2>4 DEF Attended, Rehashing, Empty
<1>11. CASE OnLatest(q)
  <2>1. client[q] = "await_latest" /\ client'[q] = "idle" /\ toClient[q] # <<>>
    BY <1>2, <1>11 DEF OnLatest, Finished
  <2>2. handler[q] = "poll"
    BY <1>6, <1>7, <1>8, <2>1 DEF Together, AwaitsLatest
  <2> QED
    BY <1>1, <2>1, <2>2 DEF Attended, Rehashing
<1>12. CASE OnNotLatest(q) \/ OnTreeConfirmation(q)
  BY <1>2, <1>12 DEF OnNotLatest, OnTreeConfirmation, Attended
<1>13. CASE OnNoSyncNeeded(q)
  <2>1. /\ client[q] = "await_response" /\ client'[q] = "idle" /\ toClient[q] # <<>>
        /\ Head(toClient[q]).type = "no_sync_needed"
    BY <1>2, <1>13 DEF OnNoSyncNeeded, Answer, Finished
  <2>2. handler[q] = "poll"
    BY <1>6, <1>7, <1>8, <2>1 DEF Together, AwaitsResponse, One
  <2> QED
    BY <1>1, <2>1, <2>2 DEF Attended, Rehashing
<1>14. CASE OnRequestFile(q)
  <2> DEFINE f == Head(toClient[q]).file
  <2>1. /\ client[q] \in {"await_response", "await_next"} /\ toClient[q] # <<>>
        /\ Head(toClient[q]).type = "request_file"
    BY <1>14 DEF OnRequestFile, Answer
  <2>2. handler[q] = "await_file" /\ One(toClient[q], {"request_file"})
    BY <1>6, <1>7, <1>8, <2>1 DEF Together, AwaitsResponse, AwaitsNext, One
  <2>3. Coming(q, f)
    BY <1>8, <2>1, <2>2 DEF Coming, One
  <2>4. f \in DOMAIN treeJson[q] \cup {Root}
    BY <1>0, <1>7, <2>1, <2>2, <2>3 DEF Mirroring, Transferring, Exchanging, Copying, Requested
  <2>5. f \in DOMAIN localDir[Home[q]]
    BY <1>0, <1>8, <2>1, <2>4 DEF NamedRequests, HasAll
  <2>6. client'[q] = "await_fconf"
    BY <1>2, <1>14, <2>5 DEF OnRequestFile
  <2> QED
    BY <2>6 DEF Attended
<1>15. CASE OnFileConfirmation(q)
  <2>1. /\ client[q] = "await_fconf" /\ toClient[q] # <<>> /\ Take(q)
        /\ FileDone(q, remaining[q])
    BY <1>15 DEF OnFileConfirmation
  <2>2. Left(q) \in Nat /\ (addedFiles[q] # {} => Left(q) > 0)
    BY <1>0, Counted
  <2>3. CASE remaining[q] = 1
    <3>1. client'[q] = "idle"
      BY <1>2, <2>1, <2>3 DEF FileDone, Finished
    <3>2. handler[q] \in Rehashing
      <4>1. remaining[q] # Left(q) + 2 /\ (addedFiles[q] # {} => remaining[q] # Left(q) + 1)
        BY <2>2, <2>3
      <4> QED
        BY <1>6, <1>7, <1>8, <2>1, <4>1 DEF Together, AwaitsFileConfirmation
    <3> QED
      BY <1>1, <3>1, <3>2 DEF Attended
  <2>4. CASE remaining[q] # 1
    <3>1. client'[q] = "await_next"
      BY <1>2, <2>1, <2>4 DEF FileDone
    <3>2. \/ handler[q] = "request"
          \/ Len(toClient[q]) = 2
      BY <1>6, <1>7, <1>8, <2>1, <2>4 DEF Together, AwaitsFileConfirmation, Two
    <3>3. Len(toClient[q]) = 2 => Len(toClient'[q]) # 0
      BY <1>9, <2>1
    <3> QED
      BY <1>1, <3>1, <3>2, <3>3 DEF Attended, Empty
  <2> QED
    BY <2>3, <2>4
<1>16. CASE OnClosed(q)
  BY <1>7, <1>16 DEF OnClosed
<1> QED
  BY <1>10, <1>11, <1>12, <1>13, <1>14, <1>15, <1>16 DEF ClientStep

LEMMA ServedInitially ==
    ASSUME OnlyWrites
    PROVE  Init => \A r \in Runs : Served(r)
<1> SUFFICES ASSUME Init, NEW r \in Runs
             PROVE  Served(r)
  OBVIOUS
<1>1. /\ client[r] = "off" /\ toClient[r] = <<>> /\ addedFiles[r] = {}
      /\ treeJson[r] = buildTree(InitialDir[Home[r]]) /\ localDir = InitialDir
  BY DEF Init
<1>2. InitialDir[Home[r]] \in Workspaces /\ Home[r] \in Machines
  BY EnvironmentAssumption, DirectoryAssumption
<1>3. HasAll(r)
  BY <1>1, <1>2, BuildTreeType DEF OnlyWrites, HasAll
<1>4. Named(r)
  <2>1. <<>> \in Seq(NamedRequests)
    OBVIOUS
  <2> QED
    BY <1>1, <2>1 DEF Named
<1> QED
  BY <1>1, <1>3, <1>4 DEF Served, Attended, Alive

LEMMA ServedGoesOn ==
    ASSUME TInv, OnlyWrites, "db" \notin Faults, "coalesce" \notin Faults, [Next]_vars
    PROVE  \A r \in Runs : Served(r)'
<1>0. /\ DInv /\ IInv /\ (\A r \in Runs : Served(r))
      /\ client \in [Runs -> ClientStates] /\ handler \in [Runs -> HandlerStates]
      /\ localDir \in [Machines -> Workspaces]
      /\ toServer \in [Runs -> Seq(ClientMessages)] /\ toClient \in [Runs -> Seq(ServerMessages)]
      /\ link \in [Runs -> {"none", "up", "gone"}]
  BY DEF TInv, MInv, DInv, IInv, TypeOK, ProcessOK, ClientOK, MachineOK, NetOK
<1>1. ASSUME UNCHANGED <<client, handler, link, toServer, toClient, addedFiles, remaining,
                         treeJson, localDir>>
      PROVE  \A r \in Runs : Served(r)'
  BY <1>0, <1>1, ServedUntouched DEF Local
<1>2. CASE UNCHANGED vars
  BY <1>1, <1>2 DEF vars, serverSide, clientSide, jobVars, machineVars, netVars
<1>3. ASSUME Terminate
      PROVE  \A r \in Runs : Served(r)'
  <2> SUFFICES ASSUME NEW r \in Runs
               PROVE  Served(r)'
    OBVIOUS
  <2>1. /\ client' = client /\ treeJson' = treeJson /\ localDir' = localDir
        /\ toClient' = toClient /\ addedFiles' = addedFiles
        /\ handler'[r] \in {"none", "closed"}
        /\ handler'[r] = "none" => handler[r] = "none"
    BY <1>3 DEF Terminate, clientSide, machineVars, jobVars
  <2>2. HasAll(r)' /\ Named(r)'
    BY <1>0, <2>1 DEF Served, HasAll, Named
  <2>3. Attended(r)'
    <3>1. handler[r] = "none" => client[r] = "off"
      BY <1>0 DEF DInv, RunInv, Connected
    <3> QED
      BY <2>1, <3>1 DEF Attended, Alive
  <2> QED
    BY <2>2, <2>3 DEF Served
<1>4. ASSUME NEW q \in Runs, ServerStep(q)
      PROVE  \A r \in Runs : Served(r)'
  <2>1. CASE ReceiveTornTree(q) \/ ReceiveFileHeaderNowhere(q)
    BY <1>3, <2>1 DEF ReceiveTornTree, ReceiveFileHeaderNowhere
  <2>2. CASE Works(q)
    <3>1. Served(q)'
      BY <2>2, WorksNamed, WorksAttended DEF Served
    <3>2. localDir' = localDir
      BY <2>2 DEF Works, IsLatest, IsNotLatest, CompareTimestamps, ReceiveTreeHeader,
           AcquireSemaphore, ReceiveTree, ConfirmTree, TreeReception, TreeReceptionNowhere, NoSync,
           Request, ReceiveFileHeader, SkipFile, ReceiveFile, ReceiveTornFile, ConfirmFile,
           UpdateHash, UpdateHashFails, UpdateModifiedAt, CloseConnection, clientSide, machineVars
    <3>3. ASSUME NEW r \in Runs, r # q
          PROVE  Served(r)'
      <4>1. Local(r)' = Local(r)
        BY <1>0, <2>2, <3>3, WorksAlone DEF Moves, Local
      <4> QED
        BY <1>0, <3>2, <4>1, ServedUntouched
    <3> QED
      BY <3>1, <3>3
  <2> QED
    BY <1>4, <2>1, <2>2 DEF ServerStep, Works
<1>5. ASSUME NEW q \in Runs, ClientStep(q)
      PROVE  \A r \in Runs : Served(r)'
  <2>1. localDir' = localDir
    BY <1>5 DEF ClientStep, InitiateSync, OnLatest, OnNotLatest, OnTreeConfirmation,
         OnNoSyncNeeded, OnRequestFile, OnFileConfirmation, OnClosed, machineVars
  <2>2. \A r \in Runs : r # q => Served(r)'
    BY <1>0, <1>5, <2>1, ClientAlone, ServedUntouched
  <2> QED
    BY <1>5, <2>2, ClientServed
<1>6. ASSUME NEW q \in Runs, Environment(q)
      PROVE  \A r \in Runs : Served(r)'
  <2>1. CASE ParseError(q) \/ BrokenPipe(q)
    BY <1>3, <2>1 DEF ParseError, BrokenPipe
  <2>2. CASE Start(q) \/ KillClient(q) \/ ClientBrokenPipe(q)
    <3>1. /\ localDir' = localDir /\ treeJson' = treeJson /\ addedFiles' = addedFiles
          /\ toClient'[q] \in {toClient[q], <<>>}
          /\ \/ client'[q] = "dead"
             \/ client[q] = "off" /\ client'[q] = "idle" /\ handler'[q] = "poll"
          /\ \A r \in Runs : r # q => Local(r)' = Local(r)
      BY <1>0, <2>2 DEF Start, KillClient, ClientBrokenPipe, Dies, BecomeClient, GoTo, serverSide,
           jobVars, machineVars, Local
    <3>2. \A r \in Runs : r # q => Served(r)'
      BY <1>0, <3>1, ServedUntouched
    <3>3. HasAll(q)' /\ Named(q)'
      <4>1. <<>> \in Seq(NamedRequests)
        OBVIOUS
      <4> QED
        BY <1>0, <3>1, <4>1 DEF Served, HasAll, Named
    <3>4. Attended(q)'
      BY <3>1 DEF Attended, Alive, Rehashing
    <3> QED
      BY <3>2, <3>3, <3>4 DEF Served
  <2> QED
    BY <1>6, <2>1, <2>2 DEF Environment, OnCoalesced
<1>7. ASSUME NEW m \in Machines, Edit(m)
      PROVE  \A r \in Runs : Served(r)'
  <2>1. Write(m)
    BY <1>7 DEF Edit, Delete, Rename, OnlyWrites
  <2>2. PICK n \in Names, c \in Contents : Change(m, Written(localDir[m], n, c), 1)
    BY <2>1 DEF Write
  <2>3. /\ client' = client /\ handler' = handler /\ toServer' = toServer /\ toClient' = toClient
        /\ addedFiles' = addedFiles /\ treeJson' = treeJson
        /\ localDir' = [localDir EXCEPT ![m] = Written(localDir[m], n, c)]
    BY <2>2 DEF Change, serverSide, jobVars, netVars
  <2>4. ASSUME NEW h \in Machines
        PROVE  DOMAIN localDir[h] \subseteq DOMAIN localDir'[h]
    BY <1>0, <2>3 DEF Written
  <2>5. ASSUME NEW r \in Runs
        PROVE  Served(r)'
    <3>1. Home[r] \in Machines
      BY EnvironmentAssumption
    <3>2. HasAll(r)'
      BY <1>0, <2>3, <2>4, <3>1 DEF Served, HasAll
    <3> QED
      BY <1>0, <2>3, <3>2 DEF Served, Named, Attended, Alive
  <2> QED
    BY <2>5
<1>8. CASE Kill
  BY <1>3, <1>8 DEF Kill
<1>9. CASE Restart
  BY <1>1, <1>9 DEF Restart, clientSide, machineVars, jobVars, netVars
<1>10. CASE NextSecond
  BY <1>1, <1>10 DEF NextSecond, clientSide, machineVars, jobVars, netVars
<1> QED
  BY <1>2, <1>4, <1>5, <1>6, <1>7, <1>8, <1>9, <1>10 DEF Next

\* Neither recv has a time limit, but a client and its thread never wait for
\* each other with nothing in transit, if files are only written, no directory
\* is empty, no sync falls into the second of the last stamp, every message is
\* read alone and the database answers.  Kills and any number of other clients
\* change nothing; each of the conditions is needed (a requested file that is
\* gone, or the root, is passed over in silence, and so is a request that no
\* longer has a sync).
THEOREM NobodyWaitsForEver ==
    ASSUME OnlyWrites, "db" \notin Faults, "coalesce" \notin Faults
    PROVE  Spec /\ []Untied => []NoMutualWait
<1>1. Init => TInv
  BY MirrorInitially, PlainInitially, ServedInitially DEF TInv
<1>2. TInv /\ Untied /\ [Next]_vars => TInv'
  BY MirrorGoesOn, PlainGoesOn, ServedGoesOn DEF TInv, MInv
<1>3. TInv => NoMutualWait
  <2> SUFFICES ASSUME TInv, NEW r \in Runs, link[r] = "up", toServer[r] = <<>>,
                      toClient[r] = <<>>, client[r] \in Awaiting
               PROVE  handler[r] \notin {"poll", "tree_data", "await_file", "file_data"}
    BY DEF NoMutualWait
  <2>1. RunInv(r) /\ Attended(r) /\ Empty(toServer[r]) /\ Empty(toClient[r])
    BY Lengths DEF TInv, MInv, DInv, Served
  <2>2. Alive(r) /\ handler[r] # "closed"
    BY <2>1 DEF RunInv, Connected, Alive, Awaiting
  <2>3. Together(r)
    BY <2>1 DEF RunInv
  <2>4. (\A types : ~One(toServer[r], types) /\ ~One(toClient[r], types))
        /\ \A type, types : ~Two(toServer[r], type, types) /\ ~Two(toClient[r], type, types)
    BY <2>1 DEF Empty, One, Two
  <2> QED
    BY <2>1, <2>2, <2>3, <2>4
    DEF Together, Attended, AwaitsLatest, AwaitsConfirmation, AwaitsResponse,
        AwaitsFileConfirmation, AwaitsNext, Awaiting, Comparing
<1> QED
  BY <1>1, <1>2, <1>3, PTL DEF Spec
=============================================================================
