--------------------------- MODULE DialogueProofs ---------------------------
(***************************************************************************)
(* The dialogue of Sync, for every number of clients, accounts and names,  *)
(* and whatever is killed, lost or read together: neither side ever finds  *)
(* a message it cannot parse at the point where it is, and the tree the    *)
(* server compares is the one its own client sent.                         *)
(*                                                                         *)
(* The inductive invariant has, for each run, what may be in its two       *)
(* streams at every pair of positions of the two sides, and how many files *)
(* the server has still to request when the client expects so many.  The   *)
(* server goes on reading what a dead client has left in the stream, and a *)
(* client what a dead server has; each has therefore an invariant of its   *)
(* own, which speaks of its own position and the stream it reads, and only *)
(* the third relates the two sides while both are alive.                   *)
(***************************************************************************)
EXTENDS SyncProofs

\* A stream with nothing in it, with one message, with two.
Empty(stream) == Len(stream) = 0

One(stream, types) == Len(stream) = 1 /\ stream[1].type \in types

Two(stream, first, types) ==
    Len(stream) = 2 /\ stream[1].type = first /\ stream[2].type \in types

Alive(r) == client[r] \notin {"off", "dead"}

\* A connection lasts as long as both of its ends.
Connected(r) ==
    /\ client[r] = "off" <=> handler[r] = "none"
    /\ client[r] = "off" => toServer[r] = <<>> /\ toClient[r] = <<>>
    /\ link[r] = "none" <=> client[r] = "off"
    /\ handler[r] = "closed" => link[r] = "gone" /\ Empty(toServer[r])
    /\ client[r] = "dead" => link[r] = "gone"
    /\ Alive(r) /\ link[r] = "gone" => handler[r] = "closed"

\* What the server finds in the stream, cut off anywhere if the client died.
Reads(r) ==
    LET s == toServer[r]
    IN  /\ handler[r] = "poll" =>
               Empty(s) \/ One(s, {"check_latest", "tree"}) \/ Two(s, "tree", {"tree_data"})
        /\ handler[r] \in {"wait_tree", "tree_data"} => Empty(s) \/ One(s, {"tree_data"})
        /\ handler[r] \in {"compare_time", "confirm_tree", "compare", "no_sync", "request",
                           "confirm_file"} => Empty(s)
        /\ handler[r] = "await_file" =>
               \/ Empty(s) \/ One(s, {"check_latest", "file_transfer"})
               \/ Two(s, "file_transfer", {"file_data"})
        /\ handler[r] = "file_data" => Empty(s) \/ One(s, {"file_data"})
        /\ handler[r] \in {"rehash", "stamp"} => Empty(s) \/ One(s, {"check_latest"})

\* What the client finds.  An answer to a request of an abandoned sync is
\* taken for one to check_latest; without "coalesce" no sync is abandoned
\* with requests to come.
Hears(r) ==
    LET k == toClient[r]
    IN  /\ client[r] = "idle" => Empty(k)
        /\ client[r] = "await_latest" =>
               \/ Empty(k) \/ One(k, {"latest", "not_latest"})
               \/ "coalesce" \in Faults /\ One(k, {"request_file"})
        /\ client[r] = "await_conf" =>
               \/ Empty(k) \/ One(k, {"confirmation"})
               \/ Two(k, "confirmation", {"no_sync_needed", "request_file"})
        /\ client[r] = "await_response" =>
               Empty(k) \/ One(k, {"no_sync_needed", "request_file"})
        /\ client[r] = "await_fconf" =>
               \/ Empty(k) \/ One(k, {"confirmation"})
               \/ Two(k, "confirmation", {"request_file"}) /\ remaining[r] > 1
        /\ client[r] = "await_next" => Empty(k) \/ One(k, {"request_file"})

\* The files the server has still to request.
Left(r) == Cardinality(addedFiles[r])

\* The sync ended before the exchange: the server asks for files that the
\* client does not send, one per check_latest.
Abandoned(r) == "coalesce" \in Faults \/ addedFiles[r] = {}

Rehashing == {"poll", "rehash", "stamp"}
Comparing == {"compare", "no_sync", "request"}

\* Where the server can be, and what is under way, for each position of a
\* client that is alive; s, k and h stand for its streams and its thread.
Idle(h, s, k, r) ==
    /\ Empty(s) /\ Empty(k)
    /\ h \in Rehashing \/ (h = "await_file" /\ Abandoned(r))

AwaitsLatest(h, s, k, r) ==
    \/ /\ One(s, {"check_latest"}) /\ Empty(k)
       /\ h \in Rehashing \/ (h = "await_file" /\ Abandoned(r))
    \/ Empty(s) /\ Empty(k) /\ h \in Rehashing \cup {"compare_time"}
    \/ Empty(s) /\ Empty(k) /\ h = "request" /\ "coalesce" \in Faults
    \/ Empty(s) /\ One(k, {"latest", "not_latest"}) /\ h = "poll"
    \/ Empty(s) /\ One(k, {"request_file"}) /\ h = "await_file" /\ "coalesce" \in Faults

AwaitsConfirmation(h, s, k, r) ==
    \/ Two(s, "tree", {"tree_data"}) /\ Empty(k) /\ h = "poll"
    \/ One(s, {"tree_data"}) /\ Empty(k) /\ h \in {"wait_tree", "tree_data"}
    \/ Empty(s) /\ Empty(k) /\ h = "confirm_tree"
    \/ Empty(s) /\ One(k, {"confirmation"}) /\ h \in Comparing
    \/ Empty(s) /\ Two(k, "confirmation", {"no_sync_needed"}) /\ h = "poll"
    \/ /\ Empty(s) /\ Two(k, "confirmation", {"request_file"}) /\ h = "await_file"
       /\ k[2].remaining = Left(r) + 1

AwaitsResponse(h, s, k, r) ==
    \/ Empty(s) /\ Empty(k) /\ h \in Comparing
    \/ Empty(s) /\ One(k, {"no_sync_needed"}) /\ h = "poll"
    \/ /\ Empty(s) /\ One(k, {"request_file"}) /\ h = "await_file"
       /\ k[1].remaining = Left(r) + 1

AwaitsFileConfirmation(h, s, k, r) ==
    \/ /\ Empty(k) /\ remaining[r] = Left(r) + 1
       /\ \/ Two(s, "file_transfer", {"file_data"}) /\ h = "await_file"
          \/ One(s, {"file_data"}) /\ h = "file_data"
          \/ Empty(s) /\ h = "confirm_file"
    \/ /\ Empty(s) /\ One(k, {"confirmation"})
       /\ \/ h = "request" /\ remaining[r] = Left(r) + 1 /\ addedFiles[r] # {}
          \/ h \in Rehashing /\ remaining[r] = 1
    \/ /\ Empty(s) /\ Two(k, "confirmation", {"request_file"}) /\ h = "await_file"
       /\ remaining[r] = Left(r) + 2

AwaitsNext(h, s, k, r) ==
    \/ Empty(s) /\ Empty(k) /\ h \in {"request", "await_file"} /\ remaining[r] = Left(r)
    \/ /\ Empty(s) /\ One(k, {"request_file"}) /\ h = "await_file"
       /\ remaining[r] = Left(r) + 1

Together(r) ==
    LET h == handler[r]
        s == toServer[r]
        k == toClient[r]
    IN  Alive(r) /\ h # "closed" =>
            /\ client[r] = "idle" => Idle(h, s, k, r)
            /\ client[r] = "await_latest" => AwaitsLatest(h, s, k, r)
            /\ client[r] = "await_conf" => AwaitsConfirmation(h, s, k, r)
            /\ client[r] = "await_response" => AwaitsResponse(h, s, k, r)
            /\ client[r] = "await_fconf" => AwaitsFileConfirmation(h, s, k, r)
            /\ client[r] = "await_next" => AwaitsNext(h, s, k, r)

\* The thread is in the loop of the requests because there is one to make.
Requesting(r) == handler[r] = "request" => addedFiles[r] # {}

\* The tree in the stream is the one in the client's tree.json, and so is the
\* one the server has received from it.
OwnTree(r) ==
    LET s == toServer[r]
    IN  Alive(r) /\ handler[r] # "closed" =>
            /\ client[r] = "await_conf" =>
                   \A i \in 1..Len(s) : s[i].type = "tree_data" => s[i].tree = treeJson[r]
            /\ /\ client[r] \in {"await_conf", "await_response"}
               /\ handler[r] \in {"confirm_tree", "compare"}
               => treeFile = treeJson[r]

RunInv(r) == Connected(r) /\ Reads(r) /\ Hears(r) /\ Requesting(r) /\ Together(r) /\ OwnTree(r)

DInv == IInv /\ \A r \in Runs : RunInv(r)

-----------------------------------------------------------------------------
(* Streams.                                                                *)

LEMMA Emptied ==
    ASSUME NEW S, NEW s \in Seq(S)
    PROVE  Len(s) \in Nat /\ (Empty(s) <=> s = <<>>)
BY EmptySeq DEF Empty

\* The receiver takes the first message.
LEMMA Pops ==
    ASSUME NEW S, NEW s \in Seq(S), s # <<>>
    PROVE  /\ Len(s) \in Nat /\ Len(s) > 0
           /\ Head(s) = s[1]
           /\ Len(Tail(s)) = Len(s) - 1
           /\ Len(s) = 2 => Tail(s)[1] = s[2]
OBVIOUS

\* The sender appends one.
LEMMA Pushes ==
    ASSUME NEW S, NEW s \in Seq(S), NEW m \in S
    PROVE  /\ Len(Append(s, m)) = Len(s) + 1
           /\ Len(s) = 0 => Append(s, m)[1] = m
           /\ Len(s) = 1 => Append(s, m)[1] = s[1] /\ Append(s, m)[2] = m
OBVIOUS

\* What a run's invariant depends on.
Local(r) == <<client[r], handler[r], link[r], toServer[r], toClient[r], remaining[r],
              addedFiles[r], treeJson[r]>>

LEMMA Untouched ==
    ASSUME NEW r \in Runs, RunInv(r), Local(r)' = Local(r),
           treeFile' = treeFile \/ handler[r] \notin Holding
    PROVE  RunInv(r)'
<1>1. /\ client'[r] = client[r] /\ handler'[r] = handler[r] /\ link'[r] = link[r]
      /\ toServer'[r] = toServer[r] /\ toClient'[r] = toClient[r]
      /\ remaining'[r] = remaining[r] /\ addedFiles'[r] = addedFiles[r]
      /\ treeJson'[r] = treeJson[r]
  BY DEF Local
<1>2. Connected(r)' /\ Reads(r)' /\ Hears(r)' /\ Requesting(r)'
  BY <1>1 DEF RunInv, Connected, Reads, Hears, Requesting, Alive
<1>3. Together(r)'
  BY <1>1 DEF RunInv, Together, Alive, Idle, AwaitsLatest, AwaitsConfirmation,
              AwaitsResponse, AwaitsFileConfirmation, AwaitsNext, Abandoned, Left
<1>4. OwnTree(r)'
  BY <1>1 DEF RunInv, OwnTree, Alive, Holding
<1> QED
  BY <1>2, <1>3, <1>4 DEF RunInv
-----------------------------------------------------------------------------
(* One step of the server.                                                 *)

\* The thread reads a message.
LEMMA Received ==
    ASSUME IInv, NEW q \in Runs, toServer[q] # <<>>, Receive(q)
    PROVE  /\ Len(toServer[q]) \in Nat /\ Len(toServer[q]) > 0
           /\ Head(toServer[q]) = toServer[q][1]
           /\ Len(toServer'[q]) = Len(toServer[q]) - 1
           /\ Len(toServer[q]) = 2 => toServer'[q][1] = toServer[q][2]
           /\ \A r \in Runs : r # q => toServer'[r] = toServer[r]
<1>1. toServer[q] \in Seq(ClientMessages) /\ toServer'[q] = Tail(toServer[q])
  BY DEF IInv, TypeOK, NetOK, Receive
<1>2. \A r \in Runs : r # q => toServer'[r] = toServer[r]
  BY DEF IInv, TypeOK, NetOK, Receive
<1> QED
  BY <1>1, <1>2, Pops

\* The thread answers; nothing gets to a client that has gone away.
LEMMA Replied ==
    ASSUME IInv, NEW q \in Runs, NEW m \in ServerMessages, Reply(q, m)
    PROVE  /\ link[q] = "up" =>
                /\ Len(toClient'[q]) = Len(toClient[q]) + 1
                /\ Len(toClient[q]) = 0 => toClient'[q][1] = m
                /\ Len(toClient[q]) = 1 => toClient'[q][1] = toClient[q][1]
                                           /\ toClient'[q][2] = m
           /\ link[q] # "up" => toClient'[q] = toClient[q]
           /\ \A r \in Runs : r # q => toClient'[r] = toClient[r]
<1>1. toClient[q] \in Seq(ServerMessages)
      /\ (link[q] = "up" => toClient'[q] = Append(toClient[q], m))
  BY DEF IInv, TypeOK, NetOK, Reply
<1>2. /\ link[q] # "up" => toClient'[q] = toClient[q]
      /\ \A r \in Runs : r # q => toClient'[r] = toClient[r]
  BY DEF IInv, TypeOK, NetOK, Reply
<1> QED
  BY <1>1, <1>2, Pushes

LEMMA Lengths ==
    ASSUME IInv, NEW r \in Runs
    PROVE  /\ Len(toServer[r]) \in Nat /\ Len(toClient[r]) \in Nat
           /\ Empty(toServer[r]) <=> toServer[r] = <<>>
           /\ Empty(toClient[r]) <=> toClient[r] = <<>>
<1>1. toServer[r] \in Seq(ClientMessages) /\ toClient[r] \in Seq(ServerMessages)
  BY DEF IInv, TypeOK, NetOK
<1> QED
  BY <1>1, Emptied

\* The requests are counted down to none.
LEMMA Counted ==
    ASSUME IInv, NEW r \in Runs
    PROVE  /\ Left(r) \in Nat /\ (Left(r) = 0 <=> addedFiles[r] = {})
           /\ \A f \in addedFiles[r] :
                /\ Cardinality(addedFiles[r] \ {f}) = Left(r) - 1
                /\ Cardinality(addedFiles[r] \ {f}) = 0 <=> addedFiles[r] \ {f} = {}
<1>1. IsFiniteSet(Names \cup {Root})
  BY DirectoryAssumption, FS_AddElement
<1>2. IsFiniteSet(addedFiles[r])
  BY <1>1, FS_Subset DEF IInv, TypeOK, JobOK
<1>3. \A f \in addedFiles[r] :
        /\ Cardinality(addedFiles[r] \ {f}) = Left(r) - 1
        /\ Cardinality(addedFiles[r] \ {f}) = 0 <=> addedFiles[r] \ {f} = {}
  BY <1>2, FS_RemoveElement, FS_EmptySet DEF Left
<1> QED
  BY <1>2, <1>3, FS_CardinalityType, FS_EmptySet DEF Left

\* A thread that moves on by itself disturbs no other run.
Moves(q) ==
    /\ UNCHANGED <<client, treeJson, remaining, link>>
    /\ \A r \in Runs : r # q =>
           /\ handler'[r] = handler[r] /\ addedFiles'[r] = addedFiles[r]
           /\ toServer'[r] = toServer[r] /\ toClient'[r] = toClient[r]

LEMMA OthersStay ==
    ASSUME IInv, NEW q \in Runs, Moves(q), \A r \in Runs : RunInv(r),
           treeFile' = treeFile \/ handler[q] \in Holding
    PROVE  \A r \in Runs : r # q => RunInv(r)'
<1> SUFFICES ASSUME NEW r \in Runs, r # q
             PROVE  RunInv(r)'
  OBVIOUS
<1>1. Local(r)' = Local(r)
  BY DEF Moves, Local
<1>2. treeFile' = treeFile \/ handler[r] \notin Holding
  BY DEF IInv, OneTransfer, Holders
<1> QED
  BY <1>1, <1>2, Untouched

\* The process ends: nothing is left for a server to read.
LEMMA TerminateKeeps ==
    ASSUME IInv, \A r \in Runs : RunInv(r), Terminate
    PROVE  \A r \in Runs : RunInv(r)'
<1> SUFFICES ASSUME NEW r \in Runs
             PROVE  RunInv(r)'
  OBVIOUS
<1>1. /\ client'[r] = client[r] /\ toClient'[r] = toClient[r] /\ toServer'[r] = <<>>
      /\ remaining'[r] = remaining[r]
      /\ handler'[r] = IF handler[r] = "none" THEN "none" ELSE "closed"
      /\ link'[r] = IF link[r] = "none" THEN "none" ELSE "gone"
  BY DEF Terminate, clientSide
<1>2. Len(<<>>) = 0
  OBVIOUS
<1>3. Connected(r)' /\ Reads(r)' /\ Requesting(r)' /\ Together(r)' /\ OwnTree(r)'
  BY <1>1, <1>2 DEF RunInv, Connected, Reads, Requesting, Together, OwnTree, Alive, Empty
<1>4. Hears(r)'
  BY <1>1 DEF RunInv, Hears
<1> QED
  BY <1>3, <1>4 DEF RunInv

\* All other steps of a thread.
Works(q) ==
    \/ IsLatest(q) \/ IsNotLatest(q) \/ CompareTimestamps(q)
    \/ ReceiveTreeHeader(q) \/ AcquireSemaphore(q) \/ ReceiveTree(q)
    \/ ConfirmTree(q) \/ TreeReception(q) \/ TreeReceptionNowhere(q)
    \/ NoSync(q) \/ Request(q) \/ ReceiveFileHeader(q) \/ SkipFile(q)
    \/ ReceiveFile(q) \/ ReceiveTornFile(q) \/ ConfirmFile(q)
    \/ UpdateHash(q) \/ UpdateHashFails(q) \/ UpdateModifiedAt(q)
    \/ CloseConnection(q)

LEMMA WorksAlone ==
    ASSUME IInv, NEW q \in Runs, Works(q)
    PROVE  Moves(q) /\ (treeFile' = treeFile \/ handler[q] \in Holding)
<1> USE DEF clientSide, processVars, jobVars, storeVars, machineVars, netVars, serverSide
<1>0. /\ handler \in [Runs -> HandlerStates] /\ DOMAIN addedFiles = Runs
      /\ DOMAIN toServer = Runs /\ DOMAIN toClient = Runs
  BY DEF IInv, TypeOK, ProcessOK, JobOK, NetOK
<1> DEFINE Rest == UNCHANGED <<client, treeJson, remaining, link>>
           Own == treeFile' = treeFile \/ handler[q] \in Holding
<1>1. ASSUME NEW state, GoTo(q, state)
      PROVE  \A r \in Runs : r # q => handler'[r] = handler[r]
  BY <1>0, <1>1 DEF GoTo
<1>2. ASSUME Receive(q)
      PROVE  \A r \in Runs : r # q => toServer'[r] = toServer[r]
  BY <1>0, <1>2 DEF Receive
<1>3. ASSUME NEW m, Reply(q, m)
      PROVE  \A r \in Runs : r # q => toClient'[r] = toClient[r]
  BY <1>0, <1>3 DEF Reply
<1>4. CASE IsLatest(q) \/ IsNotLatest(q) \/ CompareTimestamps(q)
           \/ ReceiveTreeHeader(q) \/ AcquireSemaphore(q) \/ CloseConnection(q)
  BY <1>1, <1>2, <1>3, <1>4
  DEF Moves, IsLatest, IsNotLatest, CompareTimestamps, ReceiveTreeHeader,
      AcquireSemaphore, CloseConnection
<1>5. CASE ReceiveTree(q) \/ ConfirmTree(q) \/ NoSync(q)
  BY <1>1, <1>2, <1>3, <1>5 DEF Moves, ReceiveTree, ConfirmTree, NoSync, Holding
<1>6. CASE TreeReception(q) \/ TreeReceptionNowhere(q) \/ Request(q)
  BY <1>0, <1>1, <1>3, <1>6
  DEF Moves, TreeReception, TreeReceptionNowhere, AfterComparison, Request, Holding
<1>7. CASE ReceiveFileHeader(q) \/ SkipFile(q) \/ ReceiveFile(q) \/ ReceiveTornFile(q)
           \/ ConfirmFile(q)
  BY <1>1, <1>2, <1>3, <1>7
  DEF Moves, ReceiveFileHeader, SkipFile, ReceiveFile, ReceiveTornFile, ConfirmFile, NextFile
<1>8. CASE UpdateHash(q) \/ UpdateHashFails(q) \/ UpdateModifiedAt(q)
  BY <1>1, <1>8 DEF Moves, UpdateHash, UpdateHashFails, UpdateModifiedAt, Holding
<1> QED
  BY <1>4, <1>5, <1>6, <1>7, <1>8 DEF Works

\* What the message just read says of the stream before and after.
LEMMA Reading ==
    ASSUME IInv, NEW q \in Runs, NEW type, Arrived(q, type), Receive(q)
    PROVE  /\ Len(toServer[q]) > 0 /\ toServer[q][1].type = type
           /\ Len(toServer'[q]) = Len(toServer[q]) - 1
           /\ Len(toServer[q]) = 2 => toServer'[q][1] = toServer[q][2]
BY Received DEF Arrived

\* What a step of the thread may do with the two streams, its requests and
\* its place in the code.
Takes(q, type) ==
    /\ Len(toServer[q]) > 0 /\ toServer[q][1].type = type
    /\ Len(toServer'[q]) = Len(toServer[q]) - 1
    /\ Len(toServer[q]) = 2 => toServer'[q][1] = toServer[q][2]

Says(q, m) ==
    /\ link[q] = "up" =>
          /\ Len(toClient'[q]) = Len(toClient[q]) + 1
          /\ Len(toClient[q]) = 0 => toClient'[q][1] = m
          /\ Len(toClient[q]) = 1 => toClient'[q][1] = toClient[q][1]
                                     /\ toClient'[q][2] = m
    /\ link[q] # "up" => toClient'[q] = toClient[q]

Unread(q) == toServer'[q] = toServer[q]
Silent(q) == toClient'[q] = toClient[q]
AsBefore(q) == addedFiles'[q] = addedFiles[q]
Goes(q, state) == handler'[q] = state
Onward(q) == Goes(q, IF addedFiles[q] = {} THEN "rehash" ELSE "request")

\* What it cannot touch, and the types the cases below depend on.
Beside(q) ==
    /\ client'[q] = client[q] /\ treeJson'[q] = treeJson[q]
    /\ remaining'[q] = remaining[q] /\ link'[q] = link[q]
    /\ Len(toServer[q]) \in Nat /\ Len(toClient[q]) \in Nat
    /\ toServer'[q] = <<>> <=> Empty(toServer'[q])
    /\ toClient'[q] = <<>> <=> Empty(toClient'[q])
    /\ link[q] \in {"none", "up", "gone"} /\ client[q] \in ClientStates

\* The position of the run whose thread has worked: for each action what it
\* does to the run, and that the new position is one of those allowed.
LEMMA WorksKeeps ==
    ASSUME IInv, NEW q \in Runs, RunInv(q), Works(q), IInv'
    PROVE  RunInv(q)'
<1>0. /\ handler \in [Runs -> HandlerStates]
      /\ addedFiles \in [Runs -> SUBSET (Names \cup {Root})]
  BY DEF IInv, TypeOK, ProcessOK, JobOK
<1>1. Beside(q)
  <2>1. link[q] \in {"none", "up", "gone"} /\ client[q] \in ClientStates
    BY DEF IInv, TypeOK, NetOK, ClientOK
  <2>2. /\ client'[q] = client[q] /\ treeJson'[q] = treeJson[q]
        /\ remaining'[q] = remaining[q] /\ link'[q] = link[q]
    BY WorksAlone DEF Moves
  <2>3. toServer'[q] \in Seq(ClientMessages) /\ toClient'[q] \in Seq(ServerMessages)
    BY DEF IInv, TypeOK, NetOK
  <2> QED
    BY <2>1, <2>2, <2>3, Lengths, Emptied DEF Beside
<1>2. ASSUME NEW m \in ServerMessages, Reply(q, m)
      PROVE  Says(q, m)
  BY <1>2, Replied DEF Says
<1>3. ASSUME NEW type, Arrived(q, type), Receive(q)
      PROVE  Takes(q, type)
  BY <1>3, Reading DEF Takes
<1>4. ASSUME NEW state, GoTo(q, state)
      PROVE  Goes(q, state)
  BY <1>0, <1>4 DEF GoTo, Goes
<1>5. ASSUME NextFile(q)
      PROVE  Onward(q)
  BY <1>4, <1>5 DEF NextFile, Onward
<1>6. ASSUME NEW added, AfterComparison(q, added)
      PROVE  Goes(q, IF addedFiles'[q] = {} THEN "no_sync" ELSE "request")
  BY <1>0, <1>4, <1>6 DEF AfterComparison
<1>7. Latest.type = "latest" /\ Confirmation.type = "confirmation"
      /\ NoSyncNeeded.type = "no_sync_needed"
  BY DEF Latest, Confirmation, NoSyncNeeded
<1>8. Left(q) \in Nat /\ (Left(q) = 0 <=> addedFiles[q] = {})
  BY Counted
<1>9. ASSUME Request(q)
       PROVE  /\ handler[q] = "request" /\ Goes(q, "await_file") /\ Unread(q)
              /\ Left(q)' = Left(q) - 1 /\ (Left(q)' = 0 <=> addedFiles'[q] = {})
              /\ \E m \in ServerMessages :
                     m.type = "request_file" /\ m.remaining = Left(q) /\ Says(q, m)
  <2>1. PICK f \in addedFiles[q] :
          /\ Reply(q, RequestFile(f, Left(q)))
          /\ addedFiles' = [addedFiles EXCEPT ![q] = @ \ {f}]
    BY <1>9 DEF Request, Left
  <2>2. RequestFile(f, Left(q)) \in ServerMessages
    BY <1>0, Counted, Constructors
  <2>3. Left(q)' = Left(q) - 1 /\ (Left(q)' = 0 <=> addedFiles'[q] = {})
    <3>1. addedFiles'[q] = addedFiles[q] \ {f}
      BY <1>0, <2>1
    <3> QED
      BY <2>1, <3>1, Counted DEF Left
  <2>4. handler[q] = "request" /\ Goes(q, "await_file") /\ Unread(q)
    BY <1>4, <1>9 DEF Request, Unread
  <2>5. RequestFile(f, Left(q)).type = "request_file"
        /\ RequestFile(f, Left(q)).remaining = Left(q)
    BY DEF RequestFile
  <2> QED
    BY <1>2, <2>1, <2>2, <2>3, <2>4, <2>5
<1> USE <1>1, <1>7, <1>8
    DEF Takes, Says, Unread, Silent, AsBefore, Goes, Onward, Beside,
        serverSide, jobVars, storeVars, processVars, netVars,
        RunInv, Connected, Reads, Hears, Requesting, Together, OwnTree, Idle, AwaitsLatest,
        AwaitsConfirmation, AwaitsResponse, AwaitsFileConfirmation, AwaitsNext, Abandoned,
        Left, Alive, Empty, One, Two, Rehashing, Comparing, ClientStates, Awaiting
<1>10. CASE IsLatest(q)
  <2>1. /\ handler[q] = "poll" /\ Goes(q, "poll") /\ Takes(q, "check_latest")
        /\ Says(q, Latest) /\ AsBefore(q)
    BY <1>2, <1>3, <1>10, Constructors DEF IsLatest
  <2> QED
    BY SMTT(60), <2>1
<1>11. CASE IsNotLatest(q)
  <2>1. /\ handler[q] = "poll" /\ Goes(q, "compare_time") /\ Takes(q, "check_latest")
        /\ Silent(q) /\ AsBefore(q)
    BY <1>3, <1>4, <1>11 DEF IsNotLatest
  <2> QED
    BY SMTT(60), <2>1
<1>12. CASE CompareTimestamps(q)
  <2>0. /\ handler[q] = "compare_time" /\ Goes(q, "poll") /\ Unread(q) /\ AsBefore(q)
        /\ \E m \in ServerMessages : m.type = "not_latest" /\ Says(q, m)
    BY <1>2, <1>4, <1>12, Constructors DEF CompareTimestamps, NotLatest
  <2>1. Connected(q)' /\ Reads(q)' /\ Requesting(q)' /\ OwnTree(q)'
    BY <2>0
  <2>2. CASE ~Alive(q)
    BY <2>0, <2>1, <2>2
  <2>3. CASE Alive(q)
    <3>1. /\ link[q] = "up" /\ client[q] = "await_latest"
          /\ Empty(toServer[q]) /\ Empty(toClient[q])
      BY <2>0, <2>3
    <3>2. Hears(q)'
      BY <2>0, <3>1
    <3>3. Together(q)'
      BY <2>0, <3>1
    <3> QED
      BY <2>1, <3>2, <3>3
  <2> QED
    BY <2>2, <2>3
<1>13. CASE ReceiveTreeHeader(q)
  <2>1. /\ handler[q] = "poll" /\ Goes(q, "wait_tree") /\ Takes(q, "tree")
        /\ Silent(q) /\ AsBefore(q)
    BY <1>3, <1>4, <1>13 DEF ReceiveTreeHeader
  <2> QED
    BY SMTT(60), <2>1
<1>14. CASE AcquireSemaphore(q)
  <2>1. /\ handler[q] = "wait_tree" /\ Goes(q, "tree_data")
        /\ Unread(q) /\ Silent(q) /\ AsBefore(q)
    BY <1>4, <1>14 DEF AcquireSemaphore
  <2> QED
    BY SMTT(60), <2>1
<1>15. CASE ReceiveTree(q)
  <2>1. /\ handler[q] = "tree_data" /\ Goes(q, "confirm_tree") /\ Takes(q, "tree_data")
        /\ Silent(q) /\ AsBefore(q) /\ treeFile' = toServer[q][1].tree
    BY <1>3, <1>4, <1>15, Received DEF ReceiveTree, Arrived
  <2> QED
    BY SMTT(60), <2>1
<1>16. CASE ConfirmTree(q)
  <2>0. /\ handler[q] = "confirm_tree" /\ Goes(q, "compare") /\ Unread(q)
        /\ Says(q, Confirmation) /\ AsBefore(q) /\ treeFile' = treeFile
    BY <1>2, <1>4, <1>16, Constructors DEF ConfirmTree
  <2>1. Connected(q)' /\ Reads(q)' /\ Requesting(q)' /\ OwnTree(q)'
    BY <2>0
  <2>2. CASE ~Alive(q)
    BY <2>0, <2>1, <2>2
  <2>3. CASE Alive(q)
    <3>1. /\ link[q] = "up" /\ client[q] = "await_conf" /\ Empty(toServer[q]) /\ Empty(toClient[q])
      BY <2>0, <2>3
    <3>2. Hears(q)'
      BY <2>0, <3>1
    <3>3. Together(q)'
      BY <2>0, <3>1
    <3> QED
      BY <2>1, <3>2, <3>3
  <2> QED
    BY <2>2, <2>3
<1>17. CASE TreeReception(q)
  <2>1. /\ handler[q] = "compare" /\ Unread(q) /\ Silent(q)
        /\ Goes(q, IF addedFiles'[q] = {} THEN "no_sync" ELSE "request")
    BY <1>17, <1>6 DEF TreeReception
  <2> QED
    BY SMTT(60), <2>1
<1>18. CASE TreeReceptionNowhere(q)
  <2>1. /\ handler[q] = "compare" /\ Unread(q) /\ Silent(q)
        /\ Goes(q, IF addedFiles'[q] = {} THEN "no_sync" ELSE "request")
    BY <1>18, <1>6 DEF TreeReceptionNowhere
  <2> QED
    BY SMTT(60), <2>1
<1>19. CASE NoSync(q)
  <2>0. /\ handler[q] = "no_sync" /\ Goes(q, "poll") /\ Unread(q)
        /\ Says(q, NoSyncNeeded) /\ AsBefore(q)
    BY <1>2, <1>4, <1>19, Constructors DEF NoSync
  <2>1. Connected(q)' /\ Reads(q)' /\ Requesting(q)' /\ OwnTree(q)'
    BY <2>0
  <2>2. CASE client[q] = "await_conf"
    <3>1. link[q] = "up" /\ Empty(toServer[q]) /\ One(toClient[q], {"confirmation"})
      BY <2>0, <2>2
    <3>2. Two(toClient'[q], "confirmation", {"no_sync_needed"})
      BY <2>0, <3>1
    <3> QED
      BY <2>0, <2>1, <2>2, <3>1, <3>2
  <2>3. CASE client[q] = "await_response"
    <3>1. link[q] = "up" /\ Empty(toServer[q]) /\ Empty(toClient[q])
      BY <2>0, <2>3
    <3>2. One(toClient'[q], {"no_sync_needed"})
      BY <2>0, <3>1
    <3> QED
      BY <2>0, <2>1, <2>3, <3>1, <3>2
  <2>4. CASE ~Alive(q)
    BY <2>0, <2>1, <2>4
  <2>5. Alive(q) => client[q] \in {"await_conf", "await_response"}
    BY <2>0
  <2> QED
    BY <2>2, <2>3, <2>4, <2>5
<1>20. CASE Request(q)
  <2>1. Connected(q)' /\ Reads(q)' /\ Requesting(q)' /\ OwnTree(q)'
    BY <1>9, <1>20
  <2>2. PICK m \in ServerMessages :
          m.type = "request_file" /\ m.remaining = Left(q) /\ Says(q, m)
    BY <1>9, <1>20
  <2>3. CASE client[q] = "await_conf"
    <3>1. link[q] = "up" /\ Empty(toServer[q]) /\ One(toClient[q], {"confirmation"})
      BY <1>9, <1>20, <2>3
    <3>2. Two(toClient'[q], "confirmation", {"request_file"}) /\ toClient'[q][2] = m
      BY <1>9, <1>20, <2>2, <3>1
    <3> QED
      BY <1>9, <1>20, <2>1, <2>2, <2>3, <3>1, <3>2
  <2>4. CASE client[q] = "await_response"
    <3>1. link[q] = "up" /\ Empty(toServer[q]) /\ Empty(toClient[q])
      BY <1>9, <1>20, <2>4
    <3>2. One(toClient'[q], {"request_file"}) /\ toClient'[q][1] = m
      BY <1>9, <1>20, <2>2, <3>1
    <3> QED
      BY <1>9, <1>20, <2>1, <2>2, <2>4, <3>1, <3>2
  <2>5. CASE client[q] = "await_fconf"
    <3>1. link[q] = "up" /\ Empty(toServer[q]) /\ One(toClient[q], {"confirmation"})
          /\ remaining[q] = Left(q) + 1
      BY <1>9, <1>20, <2>5
    <3>2. Two(toClient'[q], "confirmation", {"request_file"})
      BY <1>9, <1>20, <2>2, <3>1
    <3> QED
      BY <1>9, <1>20, <2>1, <2>2, <2>5, <3>1, <3>2
  <2>6. CASE client[q] = "await_next"
    <3>1. link[q] = "up" /\ Empty(toServer[q]) /\ Empty(toClient[q])
          /\ remaining[q] = Left(q)
      BY <1>9, <1>20, <2>6
    <3>2. One(toClient'[q], {"request_file"})
      BY <1>9, <1>20, <2>2, <3>1
    <3> QED
      BY <1>9, <1>20, <2>1, <2>2, <2>6, <3>1, <3>2
  <2>7. CASE client[q] = "await_latest"
    <3>1. link[q] = "up" /\ Empty(toServer[q]) /\ Empty(toClient[q])
          /\ "coalesce" \in Faults
      BY <1>9, <1>20, <2>7
    <3>2. One(toClient'[q], {"request_file"})
      BY <1>9, <1>20, <2>2, <3>1
    <3> QED
      BY <1>9, <1>20, <2>1, <2>2, <2>7, <3>1, <3>2
  <2>8. CASE ~Alive(q)
    BY <1>9, <1>20, <2>1, <2>2, <2>8
  <2>9. Alive(q) => client[q] \in {"await_conf", "await_response", "await_fconf", "await_next",
                                  "await_latest"}
    BY <1>9, <1>20
  <2> QED
    BY <2>3, <2>4, <2>5, <2>6, <2>7, <2>8, <2>9
<1>21. CASE ReceiveFileHeader(q)
  <2>1. /\ handler[q] = "await_file" /\ Goes(q, "file_data") /\ Takes(q, "file_transfer")
        /\ Silent(q) /\ AsBefore(q)
    BY <1>3, <1>4, <1>21 DEF ReceiveFileHeader
  <2> QED
    BY SMTT(60), <2>1
<1>22. CASE SkipFile(q)
  <2>1. /\ handler[q] = "await_file" /\ Onward(q) /\ Silent(q) /\ AsBefore(q)
        /\ Takes(q, "check_latest") \/ (Unread(q) /\ toServer[q] = <<>> /\ link[q] = "gone")
    BY <1>3, <1>5, <1>22 DEF SkipFile, Ended
  <2>2. CASE Takes(q, "check_latest")
    BY SMTT(60), <2>1, <2>2
  <2>3. CASE Unread(q) /\ toServer[q] = <<>> /\ link[q] = "gone"
    BY SMTT(60), <2>1, <2>3
  <2> QED
    BY <2>1, <2>2, <2>3
<1>23. CASE ReceiveFile(q)
  <2>1. /\ handler[q] = "file_data" /\ Goes(q, "confirm_file") /\ Takes(q, "file_data")
        /\ Silent(q) /\ AsBefore(q)
    BY <1>3, <1>4, <1>23 DEF ReceiveFile
  <2> QED
    BY SMTT(60), <2>1
<1>24. CASE ReceiveTornFile(q)
  <2>1. /\ handler[q] = "file_data" /\ Onward(q) /\ Unread(q) /\ Silent(q) /\ AsBefore(q)
        /\ toServer[q] = <<>> /\ link[q] = "gone"
    BY <1>5, <1>24 DEF ReceiveTornFile, Ended
  <2> QED
    BY SMTT(60), <2>1
<1>25. CASE ConfirmFile(q)
  <2>0. /\ handler[q] = "confirm_file" /\ Onward(q) /\ Unread(q)
        /\ Says(q, Confirmation) /\ AsBefore(q)
    BY <1>2, <1>5, <1>25, Constructors DEF ConfirmFile
  <2>1. Connected(q)' /\ Reads(q)' /\ Requesting(q)' /\ OwnTree(q)'
    BY <2>0
  <2>2. CASE ~Alive(q)
    BY <2>0, <2>1, <2>2
  <2>3. CASE Alive(q)
    <3>1. /\ link[q] = "up" /\ client[q] = "await_fconf" /\ Empty(toServer[q]) /\ Empty(toClient[q])
          /\ remaining[q] = Left(q) + 1
      BY <2>0, <2>3
    <3>2. Hears(q)'
      BY <2>0, <3>1
    <3>3. Together(q)'
      BY <2>0, <3>1
    <3> QED
      BY <2>1, <3>2, <3>3
  <2> QED
    BY <2>2, <2>3
<1>26. CASE UpdateHash(q)
  <2>1. /\ handler[q] = "rehash" /\ Goes(q, "stamp")
        /\ Unread(q) /\ Silent(q) /\ AsBefore(q)
    BY <1>4, <1>26 DEF UpdateHash
  <2> QED
    BY SMTT(60), <2>1
<1>27. CASE UpdateHashFails(q)
  <2>1. /\ handler[q] = "rehash" /\ Goes(q, "poll")
        /\ Unread(q) /\ Silent(q) /\ AsBefore(q)
    BY <1>4, <1>27 DEF UpdateHashFails
  <2> QED
    BY SMTT(60), <2>1
<1>28. CASE UpdateModifiedAt(q)
  <2>1. /\ handler[q] = "stamp" /\ Goes(q, "poll")
        /\ Unread(q) /\ Silent(q) /\ AsBefore(q)
    BY <1>4, <1>28 DEF UpdateModifiedAt
  <2> QED
    BY SMTT(60), <2>1
<1>29. CASE CloseConnection(q)
  <2>1. /\ handler[q] = "poll" /\ Goes(q, "closed") /\ Unread(q) /\ Silent(q)
        /\ AsBefore(q) /\ toServer[q] = <<>> /\ link[q] = "gone"
    BY <1>4, <1>29 DEF CloseConnection, Ended
  <2> QED
    BY SMTT(60), <2>1
<1> QED
  BY <1>10, <1>11, <1>12, <1>13, <1>14, <1>15, <1>16, <1>17, <1>18, <1>19, <1>20,
     <1>21, <1>22, <1>23, <1>24, <1>25, <1>26, <1>27, <1>28, <1>29
  DEF Works

-----------------------------------------------------------------------------
(* One step of the client.                                                 *)

\* What a step of the client may do with the two streams.
Gets(q) ==
    /\ Len(toClient[q]) > 0 /\ Len(toClient'[q]) = Len(toClient[q]) - 1
    /\ Len(toClient[q]) = 2 => toClient'[q][1] = toClient[q][2]

Asks(q, m) ==
    IF link[q] = "up" THEN Len(toServer[q]) = 0 => Len(toServer'[q]) = 1 /\ toServer'[q][1] = m
                      ELSE toServer'[q] = toServer[q]

Sends(q, header, data) ==
    IF link[q] = "up"
    THEN Len(toServer[q]) = 0 =>
             Len(toServer'[q]) = 2 /\ toServer'[q][1] = header /\ toServer'[q][2] = data
    ELSE toServer'[q] = toServer[q]

Becomes(q, state) == client'[q] = state

\* The loop over the requested files, seen from the i-th last one.
Counts(q, i) ==
    IF i = 1 THEN Becomes(q, "idle") /\ remaining'[q] = remaining[q]
             ELSE Becomes(q, "await_next") /\ remaining'[q] = i - 1

\* What it cannot touch, and the types.
Across(q) ==
    /\ handler'[q] = handler[q] /\ addedFiles'[q] = addedFiles[q] /\ link'[q] = link[q]
    /\ treeFile' = treeFile
    /\ Len(toServer[q]) \in Nat /\ Len(toClient[q]) \in Nat
    /\ toServer'[q] = <<>> <=> Empty(toServer'[q])
    /\ toClient'[q] = <<>> <=> Empty(toClient'[q])
    /\ link[q] \in {"none", "up", "gone"} /\ client[q] \in ClientStates
    /\ remaining[q] \in Nat \ {0}

LEMMA Taken ==
    ASSUME IInv, NEW q \in Runs, toClient[q] # <<>>, Take(q)
    PROVE  Gets(q) /\ Head(toClient[q]) = toClient[q][1]
<1>1. toClient[q] \in Seq(ServerMessages) /\ toClient'[q] = Tail(toClient[q])
  BY DEF IInv, TypeOK, NetOK, Take
<1> QED
  BY <1>1, Pops DEF Gets

LEMMA Asked ==
    ASSUME IInv, NEW q \in Runs, NEW m \in ClientMessages, Send(q, <<m>>)
    PROVE  Asks(q, m)
<1>1. toServer[q] \in Seq(ClientMessages)
      /\ toServer'[q] = IF link[q] = "up" THEN toServer[q] \o <<m>> ELSE toServer[q]
  BY DEF IInv, TypeOK, NetOK, Send
<1>2. <<m>> \in Seq(ClientMessages) /\ Len(<<m>>) = 1 /\ <<m>>[1] = m
  OBVIOUS
<1> QED
  BY <1>1, <1>2, ConcatProperties DEF Asks

LEMMA Sent ==
    ASSUME IInv, NEW q \in Runs, NEW m \in ClientMessages, NEW n \in ClientMessages,
           Send(q, <<m, n>>)
    PROVE  Sends(q, m, n)
<1>1. toServer[q] \in Seq(ClientMessages)
      /\ toServer'[q] = IF link[q] = "up" THEN toServer[q] \o <<m, n>> ELSE toServer[q]
  BY DEF IInv, TypeOK, NetOK, Send
<1>2. <<m, n>> \in Seq(ClientMessages) /\ Len(<<m, n>>) = 2
      /\ <<m, n>>[1] = m /\ <<m, n>>[2] = n
  OBVIOUS
<1> QED
  BY <1>1, <1>2, ConcatProperties DEF Sends

LEMMA ClientStepKeeps ==
    ASSUME IInv, NEW q \in Runs, RunInv(q), ClientStep(q), IInv'
    PROVE  RunInv(q)'
<1>0. /\ client \in [Runs -> ClientStates] /\ remaining \in [Runs -> Nat \ {0}]
      /\ treeJson \in [Runs -> Trees] /\ localDir[Home[q]] \in Workspaces
      /\ client' \in [Runs -> ClientStates] /\ remaining' \in [Runs -> Nat \ {0}]
  BY EnvironmentAssumption DEF IInv, TypeOK, ClientOK, MachineOK
<1>1. Across(q)
  <2>1. link[q] \in {"none", "up", "gone"} /\ client[q] \in ClientStates
        /\ remaining[q] \in Nat \ {0}
    BY DEF IInv, TypeOK, NetOK, ClientOK
  <2>2. /\ handler' = handler /\ addedFiles' = addedFiles /\ link' = link
        /\ treeFile' = treeFile
    BY DEF ClientStep, InitiateSync, OnLatest, OnNotLatest, OnTreeConfirmation, OnNoSyncNeeded,
           OnRequestFile, OnFileConfirmation, OnClosed, serverSide, jobVars, storeVars, netVars
  <2>3. toServer'[q] \in Seq(ClientMessages) /\ toClient'[q] \in Seq(ServerMessages)
    BY DEF IInv, TypeOK, NetOK
  <2> QED
    BY <2>1, <2>2, <2>3, Lengths, Emptied DEF Across
<1>2. ASSUME NEW state, BecomeClient(q, state)
      PROVE  Becomes(q, state)
  BY <1>0, <1>2 DEF BecomeClient, Becomes
<1>3. ASSUME NEW i, FileDone(q, i)
      PROVE  Counts(q, i)
  BY <1>0, <1>2, <1>3 DEF FileDone, Finished, Counts
<1>4. ASSUME NEW type, Answer(q, type), Take(q)
      PROVE  Gets(q) /\ toClient[q][1].type = type
  BY <1>4, Taken DEF Answer
<1>5. Left(q) \in Nat /\ (Left(q) = 0 <=> addedFiles[q] = {})
  BY Counted
<1>6. /\ \A hash : CheckLatest(hash).type = "check_latest"
      /\ \A flag : TreeHeader(flag).type = "tree"
      /\ \A tree : TreeData(tree).type = "tree_data" /\ TreeData(tree).tree = tree
      /\ \A file : FileHeader(file).type = "file_transfer"
      /\ \A content : FileData(content).type = "file_data"
  BY DEF CheckLatest, TreeHeader, TreeData, FileHeader, FileData
<1>10. ASSUME InitiateSync(q)
       PROVE  /\ client[q] = "idle" /\ Becomes(q, "await_latest") /\ Silent(q)
              /\ remaining'[q] = remaining[q]
              /\ \E m : m.type = "check_latest" /\ Asks(q, m)
  <2>1. CheckLatest(treeHash(localDir[Home[q]], ClientOrder)) \in ClientMessages
    BY <1>0, TreeHashType, Constructors
  <2> QED
    BY <1>2, <1>6, <1>10, <2>1, Asked DEF InitiateSync, Silent
<1>11. ASSUME OnLatest(q)
       PROVE  /\ client[q] = "await_latest" /\ Becomes(q, "idle") /\ Unread(q) /\ Gets(q)
              /\ remaining'[q] = remaining[q] /\ treeJson'[q] = treeJson[q]
  BY <1>2, <1>11, Taken DEF OnLatest, Finished, Unread
<1>12. ASSUME OnNotLatest(q)
       PROVE  /\ client[q] = "await_latest" /\ Becomes(q, "await_conf")
              /\ Gets(q) /\ toClient[q][1].type = "not_latest"
              /\ remaining'[q] = remaining[q]
              /\ \E m, n : /\ m.type = "tree" /\ n.type = "tree_data" /\ n.tree = treeJson'[q]
                          /\ Sends(q, m, n)
  <2>1. treeJson'[q] = buildTree(localDir[Home[q]]) /\ treeJson'[q] \in Trees
    BY <1>0, <1>12, BuildTreeType DEF OnNotLatest
  <2>2. Head(toClient[q]).ahead \in BOOLEAN
    BY <1>12, TakeType, Fields DEF OnNotLatest, Answer, IInv, TypeOK
  <2>3. /\ TreeHeader(Head(toClient[q]).ahead) \in ClientMessages
        /\ TreeData(treeJson'[q]) \in ClientMessages
    BY <2>1, <2>2, Constructors
  <2>4. Sends(q, TreeHeader(Head(toClient[q]).ahead), TreeData(treeJson'[q]))
    BY <1>12, <2>3, Sent DEF OnNotLatest
  <2> QED
    BY <1>2, <1>4, <1>6, <1>12, <2>4 DEF OnNotLatest
<1>13. ASSUME OnTreeConfirmation(q)
       PROVE  /\ client[q] = "await_conf" /\ Becomes(q, "await_response")
              /\ Gets(q) /\ toClient[q][1].type = "confirmation" /\ Unread(q)
              /\ remaining'[q] = remaining[q] /\ treeJson'[q] = treeJson[q]
  BY <1>2, <1>4, <1>13 DEF OnTreeConfirmation, Unread
<1>14. ASSUME OnNoSyncNeeded(q)
       PROVE  /\ client[q] = "await_response" /\ Becomes(q, "idle")
              /\ Gets(q) /\ toClient[q][1].type = "no_sync_needed" /\ Unread(q)
              /\ remaining'[q] = remaining[q] /\ treeJson'[q] = treeJson[q]
  BY <1>2, <1>4, <1>14 DEF OnNoSyncNeeded, Finished, Unread
<1>15. ASSUME OnRequestFile(q)
       PROVE  /\ client[q] \in {"await_response", "await_next"} /\ treeJson'[q] = treeJson[q]
              /\ Gets(q) /\ toClient[q][1].type = "request_file"
              /\ LET i == IF client[q] = "await_response" THEN toClient[q][1].remaining
                                                         ELSE remaining[q]
                 IN  \/ /\ Becomes(q, "await_fconf") /\ remaining'[q] = i
                        /\ \E m, n : m.type = "file_transfer" /\ n.type = "file_data"
                                    /\ Sends(q, m, n)
                     \/ Counts(q, i) /\ Unread(q)
  <2> DEFINE request == Head(toClient[q])
             dir == localDir[Home[q]]
             i == IF client[q] = "await_response" THEN request.remaining ELSE remaining[q]
  <2>1. request = toClient[q][1] /\ Gets(q) /\ toClient[q][1].type = "request_file"
    BY <1>4, <1>15, Taken DEF OnRequestFile, Answer
  <2>2. CASE request.file \in DOMAIN dir
    <3>1. request.file \in Names /\ dir[request.file] \in Contents
      BY <1>0, <2>2 DEF Workspaces
    <3>2. /\ FileHeader(request.file) \in ClientMessages
          /\ FileData(dir[request.file]) \in ClientMessages
      BY <3>1, Constructors
    <3>3. Sends(q, FileHeader(request.file), FileData(dir[request.file]))
      BY <1>15, <2>2, <3>2, Sent DEF OnRequestFile
    <3>4. Becomes(q, "await_fconf") /\ remaining'[q] = i
      BY <1>0, <1>2, <1>15, <2>2 DEF OnRequestFile
    <3> QED
      BY <1>6, <1>15, <2>1, <3>3, <3>4 DEF OnRequestFile
  <2>3. CASE request.file \notin DOMAIN dir
    <3>1. Counts(q, i) /\ Unread(q)
      BY <1>3, <1>15, <2>3 DEF OnRequestFile, Unread
    <3> QED
      BY <1>15, <2>1, <3>1 DEF OnRequestFile
  <2> QED
    BY <2>2, <2>3
<1>16. ASSUME OnFileConfirmation(q)
       PROVE  /\ client[q] = "await_fconf" /\ Counts(q, remaining[q])
              /\ Gets(q) /\ Unread(q) /\ treeJson'[q] = treeJson[q]
  BY <1>3, <1>16, Taken DEF OnFileConfirmation, Unread
<1>17. ASSUME OnClosed(q)
       PROVE  /\ client[q] \in Awaiting /\ Becomes(q, "idle") /\ link[q] = "gone"
              /\ Unread(q) /\ Silent(q) /\ toClient[q] = <<>>
              /\ remaining'[q] = remaining[q] /\ treeJson'[q] = treeJson[q]
  BY <1>2, <1>17 DEF OnClosed, Finished, netVars, Unread, Silent
<1> USE <1>1, <1>5
    DEF Gets, Asks, Sends, Becomes, Unread, Silent, Across,
        RunInv, Connected, Reads, Hears, Requesting, Together, OwnTree, Idle, AwaitsLatest,
        AwaitsConfirmation, AwaitsResponse, AwaitsFileConfirmation, AwaitsNext, Abandoned,
        Left, Alive, Empty, One, Two, Rehashing, Comparing, ClientStates, Awaiting
<1>20. CASE InitiateSync(q)
  <2>1. PICK m : m.type = "check_latest" /\ Asks(q, m)
    BY <1>10, <1>20
  <2>2. /\ client[q] = "idle" /\ Becomes(q, "await_latest") /\ Silent(q)
        /\ remaining'[q] = remaining[q]
    BY <1>10, <1>20
  <2> QED
    BY SMTT(60), <2>1, <2>2
<1>21. CASE OnLatest(q)
  <2>1. /\ client[q] = "await_latest" /\ Becomes(q, "idle") /\ Unread(q) /\ Gets(q)
        /\ remaining'[q] = remaining[q] /\ treeJson'[q] = treeJson[q]
    BY <1>11, <1>21
  <2> QED
    BY SMTT(60), <2>1
<1>22. CASE OnNotLatest(q)
  <2>1. PICK m, n : /\ m.type = "tree" /\ n.type = "tree_data" /\ n.tree = treeJson'[q]
                    /\ Sends(q, m, n)
    BY <1>12, <1>22
  <2>2. /\ client[q] = "await_latest" /\ Becomes(q, "await_conf")
        /\ Gets(q) /\ toClient[q][1].type = "not_latest"
        /\ remaining'[q] = remaining[q]
    BY <1>12, <1>22
  <2> QED
    BY SMTT(60), <2>1, <2>2
<1>23. CASE OnTreeConfirmation(q)
  <2>1. /\ client[q] = "await_conf" /\ Becomes(q, "await_response")
        /\ Gets(q) /\ toClient[q][1].type = "confirmation" /\ Unread(q)
        /\ remaining'[q] = remaining[q] /\ treeJson'[q] = treeJson[q]
    BY <1>13, <1>23
  <2> QED
    BY SMTT(60), <2>1
<1>24. CASE OnNoSyncNeeded(q)
  <2>1. /\ client[q] = "await_response" /\ Becomes(q, "idle")
        /\ Gets(q) /\ toClient[q][1].type = "no_sync_needed" /\ Unread(q)
        /\ remaining'[q] = remaining[q] /\ treeJson'[q] = treeJson[q]
    BY <1>14, <1>24
  <2> QED
    BY SMTT(60), <2>1
<1>25. CASE OnRequestFile(q)
  <2> DEFINE i == IF client[q] = "await_response" THEN toClient[q][1].remaining
                                                  ELSE remaining[q]
  <2>1. /\ client[q] \in {"await_response", "await_next"} /\ treeJson'[q] = treeJson[q]
        /\ Gets(q) /\ toClient[q][1].type = "request_file"
    BY <1>15, <1>25
  <2>2. /\ Alive(q) /\ Empty(toClient'[q]) /\ addedFiles'[q] = addedFiles[q]
        /\ handler[q] # "closed" => /\ link[q] = "up" /\ handler[q] = "await_file"
                                   /\ Empty(toServer[q]) /\ i = Left(q) + 1
    BY SMTT(60), <2>1
  <2>3. handler[q] = "closed" => link[q] = "gone" /\ Empty(toServer[q])
    BY <2>1
  <2>4. CASE /\ Becomes(q, "await_fconf") /\ remaining'[q] = i
             /\ \E m, n : m.type = "file_transfer" /\ n.type = "file_data" /\ Sends(q, m, n)
    <3>1. PICK m, n : m.type = "file_transfer" /\ n.type = "file_data" /\ Sends(q, m, n)
      BY <2>4
    <3> QED
      BY SMTT(60), <2>1, <2>2, <2>3, <2>4, <3>1
  <2>5. CASE Counts(q, i) /\ Unread(q)
    <3>1. CASE i = 1
      <4>1. Becomes(q, "idle") /\ remaining'[q] = remaining[q]
        BY <2>5, <3>1 DEF Counts
      <4>2. handler[q] # "closed" => addedFiles[q] = {}
        BY <2>2, <3>1
      <4> HIDE DEF i
      <4> QED
        BY SMTT(60), <2>1, <2>2, <2>3, <2>5, <4>1, <4>2
    <3>2. CASE i # 1
      <4>1. Becomes(q, "await_next") /\ remaining'[q] = i - 1
        BY <2>5, <3>2 DEF Counts
      <4>2. handler[q] # "closed" => remaining'[q] = Left(q)
        BY <2>2, <4>1
      <4> HIDE DEF i
      <4> QED
        BY SMTT(60), <2>1, <2>2, <2>3, <2>5, <4>1, <4>2
    <3> QED
      BY <3>1, <3>2
  <2> QED
    BY <1>15, <1>25, <2>4, <2>5
<1>26. CASE OnFileConfirmation(q)
  <2>1. /\ client[q] = "await_fconf" /\ Counts(q, remaining[q])
        /\ Gets(q) /\ Unread(q) /\ treeJson'[q] = treeJson[q]
    BY <1>16, <1>26
  <2> QED
    BY SMTT(60), <2>1 DEF Counts
<1>27. CASE OnClosed(q)
  <2>1. /\ client[q] \in Awaiting /\ Becomes(q, "idle") /\ link[q] = "gone"
        /\ Unread(q) /\ Silent(q) /\ toClient[q] = <<>>
        /\ remaining'[q] = remaining[q] /\ treeJson'[q] = treeJson[q]
    BY <1>17, <1>27
  <2> QED
    BY SMTT(60), <2>1
<1> QED
  BY <1>20, <1>21, <1>22, <1>23, <1>24, <1>25, <1>26, <1>27 DEF ClientStep

\* The other runs are where they were.
LEMMA OthersRemain ==
    ASSUME IInv, NEW q \in Runs, \A r \in Runs : RunInv(r), treeFile' = treeFile,
           \A r \in Runs : r # q => Local(r)' = Local(r)
    PROVE  \A r \in Runs : r # q => RunInv(r)'
BY Untouched

LEMMA ClientAlone ==
    ASSUME IInv, NEW q \in Runs, ClientStep(q)
    PROVE  treeFile' = treeFile /\ \A r \in Runs : r # q => Local(r)' = Local(r)
<1>0. /\ client \in [Runs -> ClientStates] /\ treeJson \in [Runs -> Trees]
      /\ remaining \in [Runs -> Nat \ {0}]
      /\ toServer \in [Runs -> Seq(ClientMessages)]
      /\ toClient \in [Runs -> Seq(ServerMessages)]
  BY DEF IInv, TypeOK, ClientOK, NetOK
<1> USE DEF serverSide, jobVars, storeVars, netVars, BecomeClient, Finished, Take, Send, Local
<1>1. CASE InitiateSync(q) \/ OnLatest(q) \/ OnNotLatest(q)
  BY <1>0, <1>1 DEF InitiateSync, OnLatest, OnNotLatest
<1>2. CASE OnTreeConfirmation(q) \/ OnNoSyncNeeded(q) \/ OnClosed(q)
  BY <1>0, <1>2 DEF OnTreeConfirmation, OnNoSyncNeeded, OnClosed
<1>3. CASE OnRequestFile(q)
  BY <1>0, <1>3 DEF OnRequestFile, FileDone
<1>4. CASE OnFileConfirmation(q)
  BY <1>0, <1>4 DEF OnFileConfirmation, FileDone
<1> QED
  BY <1>1, <1>2, <1>3, <1>4 DEF ClientStep

-----------------------------------------------------------------------------
(* The environment, the users and the induction.                           *)

\* A client starts, is killed, or loses the answers it reads together.
LEMMA ClientEventKeeps ==
    ASSUME IInv, NEW q \in Runs, \A r \in Runs : RunInv(r), IInv',
           Start(q) \/ OnCoalesced(q) \/ KillClient(q) \/ ClientBrokenPipe(q)
    PROVE  \A r \in Runs : RunInv(r)'
<1>0. /\ client \in [Runs -> ClientStates] /\ handler \in [Runs -> HandlerStates]
      /\ toServer \in [Runs -> Seq(ClientMessages)]
      /\ toClient \in [Runs -> Seq(ServerMessages)]
      /\ link \in [Runs -> {"none", "up", "gone"}]
  BY DEF IInv, TypeOK, ClientOK, ProcessOK, NetOK
<1>1. /\ treeFile' = treeFile /\ treeJson' = treeJson /\ remaining' = remaining
      /\ addedFiles' = addedFiles
      /\ \A r \in Runs : r # q => Local(r)' = Local(r)
  BY <1>0 DEF Start, OnCoalesced, KillClient, ClientBrokenPipe, Dies, Finished, BecomeClient,
              GoTo, serverSide, jobVars, storeVars, Local
<1>2. \A r \in Runs : r # q => RunInv(r)'
  BY <1>1, OthersRemain
<1>3. /\ Len(toServer[q]) \in Nat /\ Len(toClient[q]) \in Nat /\ RunInv(q)
      /\ toServer[q] = <<>> <=> Empty(toServer[q])
      /\ toClient[q] = <<>> <=> Empty(toClient[q])
  BY Lengths
<1>4. CASE Start(q)
  <2>1. /\ client[q] = "off" /\ client'[q] = "idle" /\ handler'[q] = "poll" /\ link'[q] = "up"
        /\ toServer'[q] = toServer[q] /\ toClient'[q] = toClient[q]
    BY <1>0, <1>4 DEF Start, BecomeClient, GoTo
  <2>2. Empty(toServer'[q]) /\ Empty(toClient'[q])
    BY <1>3, <2>1 DEF RunInv, Connected
  <2>3. Connected(q)'
    BY <1>3, <2>1, <2>2 DEF Connected, Alive
  <2>4. Reads(q)' /\ Hears(q)' /\ Requesting(q)' /\ Together(q)'
    BY <2>1, <2>2 DEF Reads, Hears, Requesting, Together, Idle, Rehashing
  <2>5. OwnTree(q)'
    BY <2>1 DEF OwnTree
  <2> QED
    BY <1>2, <2>3, <2>4, <2>5 DEF RunInv
<1>5. CASE OnCoalesced(q)
  <2>1. /\ "coalesce" \in Faults /\ client[q] \in Awaiting /\ Len(toClient[q]) > 1
        /\ client'[q] = "idle" /\ handler'[q] = handler[q] /\ link'[q] = link[q]
        /\ toServer'[q] = toServer[q] /\ toClient'[q] = <<>>
    BY <1>0, <1>5 DEF OnCoalesced, Finished, BecomeClient, serverSide
  <2>2. Empty(toClient'[q])
    BY <2>1 DEF Empty
  <2>3. client[q] \in {"await_conf", "await_fconf"}
    <3>1. Len(toClient[q]) # 0 /\ Len(toClient[q]) # 1
      <4>1. \A n \in Nat : n > 1 => n # 0 /\ n # 1
        OBVIOUS
      <4> QED
        BY Zenon, <1>3, <2>1, <4>1
    <3>2. ~Empty(toClient[q]) /\ \A types : ~One(toClient[q], types)
      BY <3>1 DEF Empty, One
    <3> QED
      BY <1>3, <2>1, <3>2 DEF RunInv, Hears, Awaiting
  <2>4. handler[q] # "closed" => Empty(toServer[q]) /\ handler[q] \in {"poll", "await_file"}
    <3>1. Len(toClient[q]) # 0 /\ Len(toClient[q]) # 1
      <4>1. \A n \in Nat : n > 1 => n # 0 /\ n # 1
        OBVIOUS
      <4> QED
        BY Zenon, <1>3, <2>1, <4>1
    <3>2. ~Empty(toClient[q]) /\ \A types : ~One(toClient[q], types)
      BY <3>1 DEF Empty, One
    <3> QED
      BY <1>3, <2>1, <2>3, <3>2
      DEF RunInv, Together, AwaitsConfirmation, AwaitsFileConfirmation, Alive
  <2>5. Connected(q)' /\ Reads(q)' /\ Requesting(q)'
    BY <1>1, <1>3, <2>1, <2>3 DEF RunInv, Connected, Reads, Requesting, Alive, Empty
  <2>6. Hears(q)' /\ Together(q)'
    BY <2>1, <2>2, <2>4 DEF Hears, Together, Idle, Rehashing, Abandoned, Empty
  <2>7. OwnTree(q)'
    BY <2>1 DEF OwnTree
  <2> QED
    BY <1>2, <2>5, <2>6, <2>7 DEF RunInv
<1>6. CASE KillClient(q) \/ ClientBrokenPipe(q)
  <2>1. /\ client[q] \notin {"off", "dead"} /\ client'[q] = "dead" /\ link'[q] = "gone"
        /\ handler'[q] = handler[q] /\ toClient'[q] = <<>>
    BY <1>0, <1>6 DEF KillClient, ClientBrokenPipe, Dies, BecomeClient, serverSide
  <2>2. PICK n \in 0..Len(toServer[q]) : toServer'[q] = SubSeq(toServer[q], 1, n)
    <3>1. CASE KillClient(q)
      BY <1>0, <3>1 DEF KillClient
    <3>2. CASE ClientBrokenPipe(q)
      <4>1. toServer[q] \in Seq(ClientMessages) /\ toServer'[q] = toServer[q]
        BY <1>0, <3>2 DEF ClientBrokenPipe
      <4>2. SubSeq(toServer[q], 1, Len(toServer[q])) = toServer[q]
        BY <4>1
      <4> QED
        BY <1>3, <4>1, <4>2
    <3> QED
      BY <1>6, <3>1, <3>2
  <2>3. /\ Len(toServer'[q]) = n
        /\ n > 0 => toServer'[q][1] = toServer[q][1]
        /\ n > 1 => toServer'[q][2] = toServer[q][2]
    <3>1. toServer[q] \in Seq(ClientMessages)
      BY <1>0
    <3> QED
      BY <2>2, <3>1
  <2>4. Reads(q)'
    BY <1>3, <2>1, <2>2, <2>3 DEF RunInv, Reads, Empty, One, Two
  <2>5. Connected(q)' /\ Requesting(q)'
    BY <1>1, <1>3, <2>1, <2>2, <2>3 DEF RunInv, Connected, Requesting, Alive, Empty
  <2>6. Hears(q)' /\ Together(q)' /\ OwnTree(q)'
    BY <2>1 DEF Hears, Together, OwnTree, Alive
  <2> QED
    BY <1>2, <2>4, <2>5, <2>6 DEF RunInv
<1> QED
  BY <1>4, <1>5, <1>6

LEMMA AtTheOutset == Init => DInv
<1> SUFFICES ASSUME Init, NEW r \in Runs
             PROVE  RunInv(r)
  BY Initially DEF DInv
<1>1. /\ client[r] = "off" /\ handler[r] = "none" /\ link[r] = "none"
      /\ toServer[r] = <<>> /\ toClient[r] = <<>>
  BY DEF Init
<1> QED
  BY <1>1 DEF RunInv, Connected, Reads, Hears, Requesting, Together, OwnTree, Alive

LEMMA DialogueGoesOn == DInv /\ [Next]_vars => DInv'
<1> SUFFICES ASSUME DInv, [Next]_vars
             PROVE  \A r \in Runs : RunInv(r)'
  BY Inductive DEF DInv
<1>1. IInv /\ (\A r \in Runs : RunInv(r)) /\ IInv'
  BY Inductive DEF DInv
<1>2. ASSUME UNCHANGED <<client, handler, link, toServer, toClient, remaining, addedFiles,
                         treeJson, treeFile>>
      PROVE  \A r \in Runs : RunInv(r)'
  BY <1>1, <1>2, Untouched DEF Local
<1>3. CASE UNCHANGED vars
  BY <1>2, <1>3 DEF vars, serverSide, clientSide, jobVars, storeVars, netVars
<1>4. ASSUME NEW q \in Runs, ServerStep(q)
      PROVE  \A r \in Runs : RunInv(r)'
  <2>1. CASE ReceiveTornTree(q) \/ ReceiveFileHeaderNowhere(q)
    BY <1>1, <2>1, TerminateKeeps DEF ReceiveTornTree, ReceiveFileHeaderNowhere
  <2>2. CASE Works(q)
    <3>1. RunInv(q)'
      BY <1>1, <2>2, WorksKeeps
    <3> QED
      BY <1>1, <2>2, <3>1, WorksAlone, OthersStay
  <2> QED
    BY <1>4, <2>1, <2>2 DEF ServerStep, Works
<1>5. ASSUME NEW q \in Runs, ClientStep(q)
      PROVE  \A r \in Runs : RunInv(r)'
  BY <1>1, <1>5, ClientStepKeeps, ClientAlone, OthersRemain
<1>6. ASSUME NEW q \in Runs, Environment(q)
      PROVE  \A r \in Runs : RunInv(r)'
  BY <1>1, <1>6, TerminateKeeps, ClientEventKeeps DEF Environment, ParseError, BrokenPipe
<1>7. ASSUME NEW m \in Machines, Edit(m)
      PROVE  \A r \in Runs : RunInv(r)'
  BY <1>2, <1>7 DEF Edit, Write, Delete, Rename, Change, serverSide, jobVars, storeVars, netVars
<1>8. CASE Kill
  BY <1>1, <1>8, TerminateKeeps DEF Kill
<1>9. CASE Restart
  BY <1>2, <1>9 DEF Restart, clientSide, jobVars, storeVars, netVars
<1>10. CASE NextSecond
  BY <1>2, <1>10 DEF NextSecond, clientSide, jobVars, netVars
<1> QED
  BY <1>3, <1>4, <1>5, <1>6, <1>7, <1>8, <1>9, <1>10 DEF Next

LEMMA DialogueAlways == Spec => []DInv
BY AtTheOutset, DialogueGoesOn, PTL DEF Spec

\* Neither side ever finds a message that its code cannot parse at the point
\* where it is, whichever process is killed, whichever answers are read
\* together and whichever exchange is given up: a sync that is abandoned half
\* way leaves the server in a loop that copes with every check_latest, and a
\* client that waits for "latest" with the one question that copes with a
\* stray request.
THEOREM DialogueNeverSlips == Spec => []Dialogue
<1>1. DInv => Dialogue
  <2> SUFFICES ASSUME DInv
               PROVE  Dialogue
    OBVIOUS
  <2>1. ASSUME NEW r \in Runs
        PROVE  /\ RunInv(r)
               /\ toServer[r] # <<>> => Head(toServer[r]) = toServer[r][1] /\ ~Empty(toServer[r])
               /\ toClient[r] # <<>> => Head(toClient[r]) = toClient[r][1] /\ ~Empty(toClient[r])
    <3>1. toServer[r] \in Seq(ClientMessages) /\ toClient[r] \in Seq(ServerMessages)
      BY DEF DInv, IInv, TypeOK, NetOK
    <3> QED
      BY <3>1, Pops DEF DInv, Empty
  <2> QED
    BY <2>1 DEF Dialogue, RunInv, Reads, Hears, One, Two
<1> QED
  BY <1>1, DialogueAlways, PTL

\* The tree a thread compares is its own client's, although every thread
\* receives into the one tree.json and every buildTree overwrites it.
THEOREM OwnTreeCompared == Spec => []ComparesOwnTree
<1>1. DInv => ComparesOwnTree
  BY DEF DInv, RunInv, OwnTree, Alive, ComparesOwnTree
<1> QED
  BY <1>1, DialogueAlways, PTL

\* A client is told "latest" or "not_latest" and nothing else, as long as no
\* recv returns two messages at once; no kill, however timed, breaks this.
THEOREM CheckLatestAnswered ==
    ASSUME "coalesce" \notin Faults
    PROVE  Spec => []AnswersCheckLatest
<1>1. DInv => AnswersCheckLatest
  <2> SUFFICES ASSUME DInv, NEW r \in Runs, client[r] = "await_latest", toClient[r] # <<>>
               PROVE  Head(toClient[r]).type \in {"latest", "not_latest"}
    BY DEF AnswersCheckLatest
  <2>1. One(toClient[r], {"latest", "not_latest"})
    BY Lengths DEF DInv, RunInv, Hears
  <2>2. toClient[r] \in Seq(ServerMessages)
    BY DEF DInv, IInv, TypeOK, NetOK
  <2> QED
    BY <2>1, <2>2, Pops DEF One
<1> QED
  BY <1>1, DialogueAlways, PTL
=============================================================================
