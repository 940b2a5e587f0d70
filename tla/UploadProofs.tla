---------------------------- MODULE UploadProofs ----------------------------
(***************************************************************************)
(* The exchange of Upload, for every set of paths, contents and orders of  *)
(* iteration, and whatever the user and the environment do.                *)
(***************************************************************************)
EXTENDS Upload, TreeProofs

\* The messages of the exchange.
ServerBound ==
    {CheckLatest(getTreeHash(buildTree(dir, ClientOrder))) : dir \in Directories}
    \cup {Tree(flag, tree) : flag \in BOOLEAN, tree \in Trees}
    \cup {FileHeader(path, size) : path \in Paths, size \in Int}
    \cup {Block(block) : block \in Blocks}

Requestable == Paths \cup FileNames \cup {Root}

ClientBound ==
    {Answer(type) : type \in {"latest", "confirmation", "no_sync_needed"}}
    \cup {NotLatest(flag) : flag \in BOOLEAN}
    \cup {RequestFile(path, n) : path \in Requestable, n \in Nat \ {0}}

ServerTyped ==
    /\ running \in BOOLEAN /\ ahead \in BOOLEAN
    /\ handler \in Holding \cup {"poll", "closed"}
    /\ addedFiles \in Seq(Requestable)
    /\ incoming \in [name : FileNames \cup {Root}, size : Int, got : Nat]
    /\ DOMAIN files \subseteq FileNames
    /\ files \in [DOMAIN files -> Seq(Blocks)]
    /\ handler = "request" => addedFiles # <<>>
    /\ handler \in {"file_data", "confirm_file"} =>
           incoming.name \in FileNames /\ incoming.name \in DOMAIN files

UserTyped == localDir \in Directories /\ edits \in 0..MaxEdits /\ syncsDue \in Nat

OpenFiles == [path : Paths \cup {Root}, data : Versions \cup {<<>>}, size : Int,
              sent : Nat, linked : BOOLEAN]

ClientTyped ==
    /\ client \in Awaiting \cup {"idle", "sending", "dead"}
    /\ sentTree \in Trees
    /\ opened \in OpenFiles
    /\ remaining \in Nat \ {0}
    /\ watching \in BOOLEAN

NetTyped ==
    /\ toServer \in Seq(ServerBound)
    /\ toClient \in Seq(ClientBound)
    /\ link \in BOOLEAN

Typed == ServerTyped /\ UserTyped /\ ClientTyped /\ NetTyped /\ mishaps \subseteq Mishaps

-----------------------------------------------------------------------------
(* The type of every variable and of every message under way.              *)

LEMMA Received ==
  ASSUME NEW S, NEW s \in Seq(S), s # <<>>
  PROVE  Head(s) \in S /\ Tail(s) \in Seq(S) /\ Len(Tail(s)) = Len(s) - 1
  BY HeadTailProperties

LEMMA ServerMessage ==
  ASSUME NEW m \in ServerBound
  PROVE  /\ m.type \in {"check_latest", "tree", "file_transfer", "block"}
         /\ m.type = "tree" => m.ahead \in BOOLEAN /\ m.tree \in Trees
                               /\ m = Tree(m.ahead, m.tree)
         /\ m.type = "file_transfer" => m.name \in Paths /\ m.size \in Int
         /\ m.type = "block" => m.block \in Blocks
  BY DEF ServerBound, CheckLatest, Tree, FileHeader, Block

LEMMA ClientMessage ==
  ASSUME NEW m \in ClientBound
  PROVE  /\ m.type \in {"latest", "confirmation", "no_sync_needed", "not_latest", "request_file"}
         /\ m.type = "request_file" => m.path \in Requestable /\ m.remaining \in Nat \ {0}
         /\ m.type = "not_latest" => m.ahead \in BOOLEAN
  BY DEF ClientBound, Answer, NotLatest, RequestFile

LEMMA Outgoing ==
  /\ \A dir \in Directories : CheckLatest(getTreeHash(buildTree(dir, ClientOrder))) \in ServerBound
  /\ \A flag \in BOOLEAN, tree \in Trees : Tree(flag, tree) \in ServerBound
  /\ \A path \in Paths, size \in Int : FileHeader(path, size) \in ServerBound
  /\ \A block \in Blocks : Block(block) \in ServerBound
  BY DEF ServerBound

LEMMA Answers ==
  /\ \A type \in {"latest", "confirmation", "no_sync_needed"} : Answer(type) \in ClientBound
  /\ \A flag \in BOOLEAN : NotLatest(flag) \in ClientBound
  /\ \A path \in Requestable, n \in Nat \ {0} : RequestFile(path, n) \in ClientBound
  BY DEF ClientBound

LEMMA Sent ==
  ASSUME NEW S, NEW s \in Seq(S), NEW m \in S
  PROVE  s \o <<m>> \in Seq(S) /\ Len(s \o <<m>>) = Len(s) + 1
         /\ \A i \in 1..Len(s) : (s \o <<m>>)[i] = s[i]
         /\ (s \o <<m>>)[Len(s) + 1] = m
  BY ConcatProperties

LEMMA FlatNames ==
  /\ FileNames \subseteq Seq(Names)
  /\ \A p \in FileNames : Len(p) = 1 /\ p # Root /\ Front(p) = Root /\ Last(p) \in Names
                          /\ p = <<Last(p)>>
  <1>1. ASSUME NEW n \in Names
        PROVE  <<n>> \in Seq(Names) /\ Len(<<n>>) = 1 /\ <<n>> # Root /\ Last(<<n>>) = n
    BY DEF Root, Last
  <1>2. ASSUME NEW p \in Seq(Names), Len(p) = 1 PROVE Front(p) = Root
    <2>1. p # Root
      BY <1>2 DEF Root
    <2>2. Front(p) \in Seq(Names) /\ Len(Front(p)) = 0
      BY <1>2, <2>1, Parted
    <2> QED
      BY <2>2, EmptySeq DEF Root
  <1> QED
    BY <1>1, <1>2 DEF FileNames

LEMMA Flattened ==
  ASSUME NEW p \in Paths
  PROVE  Target(p) \in FileNames /\ Target(p) = <<Last(p)>> /\ p # Root /\ p \in Seq(Names)
  <1>1. p \in Seq(Names) /\ p # <<>>
    BY PathAssumption
  <1>2. Len(p) \in Nat /\ Len(p) > 0
    BY <1>1, EmptySeq, LenProperties
  <1>3. p[Len(p)] \in Names
    BY <1>1, <1>2
  <1> QED
    BY <1>1, <1>3 DEF Target, Last, FileNames, Root

LEMMA NodesOfServer ==
  ASSUME NEW D, D \subseteq FileNames
  PROVE  NodeSet(D \cup {Root})
  <1>1. Root \in Seq(Names) /\ Len(Root) = 0
    BY DEF Root
  <1>2. \A p \in D \cup {Root} : p # Root => Front(p) \in D \cup {Root}
    BY FlatNames
  <1>3. \A p \in D \cup {Root} : Len(p) <= 1
    <2>1. \A p \in D \cup {Root} : Len(p) = 0 \/ Len(p) = 1
      BY <1>1, FlatNames
    <2>2. 0 <= 1 /\ 1 <= 1
      OBVIOUS
    <2> QED
      BY <2>1, <2>2
  <1>4. 1 \in Nat
    OBVIOUS
  <1> QED
    BY <1>1, <1>2, <1>3, <1>4, FlatNames DEF NodeSet

LEMMA NodesOfClient ==
  ASSUME NEW tree \in Trees
  PROVE  /\ NodeSet(DOMAIN tree)
         /\ NodeSet(DOMAIN loadFromFile(tree))
         /\ DOMAIN tree \subseteq Paths \cup {Root}
         /\ DOMAIN loadFromFile(tree) = DOMAIN tree
  <1>1. PICK dir \in Directories : tree = buildTree(dir, ClientOrder)
    BY DEF Trees
  <1>2. DOMAIN tree = DOMAIN dir \cup {Root} /\ DOMAIN loadFromFile(tree) = DOMAIN tree
    BY <1>1, TreeDomain, LoadedDomain
  <1> QED
    BY <1>2, NodesOfDirectory, DirectoryIs

\* What treeReception adds can be requested, and what it removes is in a tree.
LEMMA ComparisonTyped ==
  ASSUME DOMAIN files \subseteq FileNames, NEW tree \in Trees, NEW flag \in BOOLEAN
  PROVE  /\ NodeSet(DOMAIN Own) /\ DOMAIN Own = DOMAIN files \cup {Root}
         /\ Added(flag, tree) \in Seq(Requestable)
  <1>1. DOMAIN Own = DOMAIN files \cup {Root} /\ NodeSet(DOMAIN Own)
    BY TreeDomain, NodesOfServer DEF Own
  <1>2. IsOrder(ServerOrder) /\ IsOrder(ClientOrder)
    BY UploadAssumption
  <1> DEFINE received == loadFromFile(tree)
  <1>3. NodeSet(DOMAIN received) /\ DOMAIN received \subseteq Paths \cup {Root}
    BY NodesOfClient
  <1> HIDE DEF received
  <1>4. addedNodes(received, Own, ServerOrder) \in Seq(DOMAIN Own)
    BY <1>1, <1>2, <1>3, AddedAre DEF Reports
  <1>5. addedNodes(Own, received, ClientOrder) \in Seq(DOMAIN received)
    BY <1>1, <1>2, <1>3, AddedAre DEF Reports
  <1>6. DOMAIN Own \subseteq Requestable /\ DOMAIN received \subseteq Requestable
    BY <1>1, <1>3 DEF Requestable
  <1>7. /\ addedNodes(received, Own, ServerOrder) \in Seq(Requestable)
        /\ addedNodes(Own, received, ClientOrder) \in Seq(Requestable)
    BY <1>4, <1>5, <1>6, SeqMonotonic
  <1> QED
    BY <1>1, <1>7 DEF Added, received

LEMMA EmptyDirectory ==
  <<>> \in Directories /\ CanBuildTree(<<>>)
  <1>1. <<>> \in [{} -> Versions \cup {Dir}] /\ DOMAIN <<>> = {}
    OBVIOUS
  <1>2. {} \in SUBSET Paths
    OBVIOUS
  <1>3. <<>> \in Directories
    BY <1>1, <1>2 DEF Directories
  <1> DEFINE kids == children({}, Root, NameOrder)
  <1>4. Root \in Seq(Names) /\ {} \subseteq Seq(Names)
    BY DEF Root
  <1>5. AreKids(kids, {}, Root)
    BY <1>4, PathAssumption, KidsAre
  <1> HIDE DEF kids
  <1>6. kids \in Seq({})
    BY <1>5 DEF AreKids
  <1>7. Len(kids) = 0
    BY <1>6, EmptySeq, LenProperties
  <1>8. Len(kids) <= MaxEntries
    BY <1>7, EntriesAssumption
  <1> QED
    BY <1>1, <1>3, <1>8 DEF CanBuildTree, kids

LEMMA InitTyped ==
  ASSUME Init
  PROVE  Typed
  <1>1. ServerTyped
    <2>1. /\ DOMAIN files \subseteq FileNames
          /\ files \in [DOMAIN files -> Seq(Blocks)]
      BY UploadAssumption DEF Init
    <2>2. running \in BOOLEAN /\ ahead \in BOOLEAN
      BY DEF Init
    <2>3. handler = "poll" /\ addedFiles = <<>> /\ incoming = [name |-> Root, size |-> 0, got |-> 0]
      BY DEF Init
    <2>4. addedFiles \in Seq(Requestable)
      BY <2>3
    <2> QED
      BY <2>1, <2>2, <2>3, <2>4 DEF ServerTyped
  <1>2. UserTyped
    BY UploadAssumption DEF Init, UserTyped
  <1>3. ClientTyped
    <2>1. sentTree \in Trees
      BY EmptyDirectory DEF Init, Trees
    <2>2. opened \in OpenFiles
      BY DEF Init, Nothing, OpenFiles
    <2>3. watching \in BOOLEAN
      BY DEF Init
    <2>4. client = "idle" /\ remaining = 1
      BY DEF Init
    <2> QED
      BY <2>1, <2>2, <2>3, <2>4 DEF ClientTyped
  <1>4. NetTyped
    <2>1. link \in BOOLEAN
      BY DEF Init
    <2>2. toServer = <<>> /\ toClient = <<>>
      BY DEF Init
    <2>3. toServer \in Seq(ServerBound) /\ toClient \in Seq(ClientBound)
      BY <2>2
    <2> QED
      BY <2>1, <2>3 DEF NetTyped
  <1>5. mishaps \subseteq Mishaps
    BY DEF Init
  <1> QED
    BY <1>1, <1>2, <1>3, <1>4, <1>5 DEF Typed

LEMMA TypedIsOK ==
  ASSUME Typed
  PROVE  TypeOK
  <1>1. /\ running \in BOOLEAN /\ ahead \in BOOLEAN /\ watching \in BOOLEAN /\ link \in BOOLEAN
    BY DEF Typed, ServerTyped, ClientTyped, NetTyped
  <1>2. /\ handler \in Holding \cup {"poll", "closed"}
        /\ client \in Awaiting \cup {"idle", "sending", "dead"}
        /\ addedFiles \in Seq(Paths \cup FileNames \cup {Root})
        /\ incoming \in [name : FileNames \cup {Root}, size : Int, got : Nat]
        /\ DOMAIN files \subseteq FileNames
    BY DEF Typed, ServerTyped, ClientTyped, Requestable
  <1>3. \A n \in DOMAIN files : files[n] \in Seq(Blocks)
    BY DEF Typed, ServerTyped
  <1>4. /\ localDir \in Directories /\ sentTree \in Trees
        /\ edits \in 0..MaxEdits /\ syncsDue \in Nat /\ remaining \in Nat \ {0}
        /\ mishaps \subseteq Mishaps
    BY DEF Typed, ClientTyped, UserTyped
  <1>5. /\ opened.path \in Paths \cup {Root} /\ opened.data \in Versions \cup {<<>>}
        /\ opened.size \in Int /\ opened.sent \in Nat /\ opened.linked \in BOOLEAN
    BY DEF Typed, ClientTyped, OpenFiles
  <1> QED
    BY <1>1, <1>2, <1>3, <1>4, <1>5 DEF TypeOK

-----------------------------------------------------------------------------
(* What an action leaves alone keeps its type.                             *)

LEMMA ServerStays ==
  ASSUME ServerTyped, UNCHANGED serverVars
  PROVE  ServerTyped'
  BY DEF ServerTyped, serverVars

LEMMA UserStays ==
  ASSUME UserTyped, UNCHANGED userVars
  PROVE  UserTyped'
  BY DEF UserTyped, userVars

LEMMA ClientStays ==
  ASSUME ClientTyped, UNCHANGED clientVars
  PROVE  ClientTyped'
  BY DEF ClientTyped, clientVars

LEMMA ServerMoves ==
  ASSUME ServerTyped, NEW state \in Holding \cup {"poll", "closed"}, handler' = state,
         state = "request" => addedFiles # <<>>,
         state \notin {"file_data", "confirm_file"},
         running' \in BOOLEAN, ahead' = ahead, addedFiles' = addedFiles,
         incoming' = incoming, files' = files
  PROVE  ServerTyped'
  <1>1. running' \in BOOLEAN /\ ahead' \in BOOLEAN
    BY DEF ServerTyped
  <1>2. /\ handler' \in Holding \cup {"poll", "closed"} /\ addedFiles' \in Seq(Requestable)
        /\ incoming' \in [name : FileNames \cup {Root}, size : Int, got : Nat]
        /\ DOMAIN files' \subseteq FileNames
        /\ files' \in [DOMAIN files' -> Seq(Blocks)]
        /\ handler' = "request" => addedFiles' # <<>>
        /\ handler' \notin {"file_data", "confirm_file"}
    BY DEF ServerTyped
  <1> QED
    BY <1>1, <1>2 DEF ServerTyped

\* What a step does to a stream.
Moves(s, t, S) ==
    \/ t = s \/ t = <<>>
    \/ s # <<>> /\ t = Tail(s)
    \/ \E m \in S : t = s \o <<m>>

LEMMA Moved ==
  ASSUME NEW S, NEW s \in Seq(S), NEW t, Moves(s, t, S)
  PROVE  t \in Seq(S)
  <1>1. CASE t = s \/ t = <<>>
    <2>1. <<>> \in Seq(S)
      OBVIOUS
    <2> QED
      BY <1>1, <2>1
  <1>2. CASE s # <<>> /\ t = Tail(s)
    BY <1>2, Received
  <1>3. ASSUME NEW m \in S, t = s \o <<m>> PROVE t \in Seq(S)
    BY <1>3, Sent
  <1> QED
    BY <1>1, <1>2, <1>3 DEF Moves

LEMMA StreamsTyped ==
  ASSUME NetTyped, Moves(toServer, toServer', ServerBound),
         Moves(toClient, toClient', ClientBound), link' = link \/ link' = FALSE
  PROVE  NetTyped'
  <1>1. toServer' \in Seq(ServerBound)
    BY Moved DEF NetTyped
  <1>2. toClient' \in Seq(ClientBound)
    BY Moved DEF NetTyped
  <1>3. link' \in BOOLEAN
    BY DEF NetTyped
  <1>4. ServerBound' = ServerBound /\ ClientBound' = ClientBound
    BY DEF ServerBound, ClientBound, Trees
  <1> QED
    BY <1>1, <1>2, <1>3, <1>4 DEF NetTyped

LEMMA ServerOthers ==
  ASSUME Typed, UNCHANGED <<userVars, clientVars, mishaps>>, ServerTyped', NetTyped'
  PROVE  Typed'
  <1>1. UserTyped' /\ ClientTyped'
    BY UserStays, ClientStays DEF Typed
  <1>2. mishaps' \subseteq Mishaps
    BY DEF Typed
  <1> QED
    BY <1>1, <1>2 DEF Typed

LEMMA Replies ==
  ASSUME NEW m \in ClientBound, Reply(<<m>>)
  PROVE  Moves(toClient, toClient', ClientBound)
  BY DEF Reply, Moves

LEMMA Receives ==
  ASSUME NEW type, Arrived(type), Receive
  PROVE  Moves(toServer, toServer', ServerBound)
  BY DEF Arrived, Receive, Moves

LEMMA CheckVersionTyped ==
  ASSUME Typed, CheckVersion
  PROVE  Typed'
  <1>1. ServerTyped'
    BY ServerStays DEF CheckVersion, Typed
  <1>2. Moves(toClient, toClient', ClientBound)
    <2>1. CASE Head(toServer).hash = workspaceHash
      BY <2>1, Replies, Answers DEF CheckVersion
    <2>2. CASE Head(toServer).hash # workspaceHash
      <3>1. PICK flag \in Flags : Reply(<<NotLatest(flag)>>)
        BY <2>2 DEF CheckVersion
      <3>2. flag \in BOOLEAN
        BY UploadAssumption
      <3>3. NotLatest(flag) \in ClientBound
        BY <3>2, Answers
      <3> QED
        BY <3>1, <3>3, Replies
    <2> QED
      BY <2>1, <2>2
  <1>3. Moves(toServer, toServer', ServerBound)
    BY Receives DEF CheckVersion
  <1>4. NetTyped'
    BY <1>2, <1>3, StreamsTyped DEF CheckVersion, Typed
  <1> QED
    BY <1>1, <1>4, ServerOthers DEF CheckVersion

LEMMA TreeReceptionTyped ==
  ASSUME Typed, TreeReception
  PROVE  Typed'
  <1> DEFINE received == Head(toServer).tree
             flag == Head(toServer).ahead
             removed == Removed(flag, received)
  <1>1. Head(toServer) \in ServerBound /\ Head(toServer).type = "tree"
    BY Received DEF TreeReception, Arrived, Typed, NetTyped
  <1>2. received \in Trees /\ flag \in BOOLEAN
    BY <1>1, ServerMessage
  <1>3. /\ ahead' = flag /\ addedFiles' = Added(flag, received)
        /\ files' = [n \in DOMAIN files \ ToSet(removed) |-> files[n]]
        /\ handler' = IF addedFiles' = <<>> THEN "no_sync" ELSE "request"
        /\ UNCHANGED <<running, incoming>>
    BY DEF TreeReception, GoTo
  <1> HIDE DEF received, flag, removed
  <1>4. addedFiles' \in Seq(Requestable)
    BY <1>2, <1>3, ComparisonTyped DEF Typed, ServerTyped
  <1>5. DOMAIN files' \subseteq FileNames /\ files' \in [DOMAIN files' -> Seq(Blocks)]
    <2>1. DOMAIN files \subseteq FileNames /\ \A n \in DOMAIN files : files[n] \in Seq(Blocks)
      BY DEF Typed, ServerTyped
    <2> QED
      BY <1>3, <2>1
  <1>6. ServerTyped'
    <2>1. running' \in BOOLEAN /\ ahead' \in BOOLEAN
      BY <1>2, <1>3 DEF Typed, ServerTyped
    <2>2. /\ handler' \in {"no_sync", "request"}
          /\ handler' = "request" => addedFiles' # <<>>
          /\ incoming' \in [name : FileNames \cup {Root}, size : Int, got : Nat]
      BY <1>3 DEF Typed, ServerTyped
    <2>3. handler' \in Holding \cup {"poll", "closed"}
          /\ handler' \notin {"file_data", "confirm_file"}
      BY <2>2 DEF Holding
    <2>4. Requestable' = Requestable
      BY DEF Requestable
    <2> QED
      BY <1>4, <1>5, <2>1, <2>2, <2>3, <2>4 DEF ServerTyped
  <1>7. Moves(toClient, toClient', ClientBound)
    BY Replies, Answers DEF TreeReception
  <1>8. Moves(toServer, toServer', ServerBound)
    BY Receives DEF TreeReception
  <1>9. NetTyped'
    BY <1>7, <1>8, StreamsTyped DEF TreeReception, Typed
  <1> QED
    BY <1>6, <1>9, ServerOthers DEF TreeReception

LEMMA NoSyncTyped ==
  ASSUME Typed, NoSync
  PROVE  Typed'
  <1>1. "poll" \in Holding \cup {"poll", "closed"}
    OBVIOUS
  <1>2. ServerTyped'
    BY <1>1, ServerMoves DEF NoSync, GoTo, Typed, ServerTyped
  <1>3. Moves(toClient, toClient', ClientBound)
    BY Replies, Answers DEF NoSync
  <1>4. Moves(toServer, toServer', ServerBound)
    BY DEF NoSync, Moves
  <1>5. NetTyped'
    BY <1>3, <1>4, StreamsTyped DEF NoSync, Typed
  <1> QED
    BY <1>2, <1>5, ServerOthers DEF NoSync

LEMMA RequestTyped ==
  ASSUME Typed, Request
  PROVE  Typed'
  <1>1. addedFiles \in Seq(Requestable) /\ addedFiles # <<>>
    BY DEF Typed, ServerTyped, Request
  <1>2. Head(addedFiles) \in Requestable /\ Tail(addedFiles) \in Seq(Requestable)
    BY <1>1, Received
  <1>3. Len(addedFiles) \in Nat \ {0}
    BY <1>1, EmptySeq, LenProperties
  <1>4. /\ handler' = "await_file" /\ addedFiles' = Tail(addedFiles)
        /\ UNCHANGED <<running, ahead, incoming, files>>
    BY DEF Request, GoTo
  <1>5. ServerTyped'
    <2>1. running' \in BOOLEAN /\ ahead' \in BOOLEAN
      BY <1>4 DEF Typed, ServerTyped
    <2>2. handler' \in Holding \cup {"poll", "closed"} /\ handler' = "await_file"
      BY <1>4 DEF Holding
    <2>3. /\ incoming' \in [name : FileNames \cup {Root}, size : Int, got : Nat]
          /\ DOMAIN files' \subseteq FileNames /\ files' \in [DOMAIN files' -> Seq(Blocks)]
          /\ addedFiles' \in Seq(Requestable)
      BY <1>2, <1>4 DEF Typed, ServerTyped
    <2>4. Requestable' = Requestable
      BY DEF Requestable
    <2> QED
      BY <2>1, <2>2, <2>3, <2>4 DEF ServerTyped
  <1>6. Moves(toClient, toClient', ClientBound)
    <2>1. RequestFile(Head(addedFiles), Len(addedFiles)) \in ClientBound
      BY <1>2, <1>3, Answers
    <2> QED
      BY <2>1, Replies DEF Request
  <1>7. Moves(toServer, toServer', ServerBound)
    BY DEF Request, Moves
  <1>8. NetTyped'
    BY <1>6, <1>7, StreamsTyped DEF Request, Typed
  <1> QED
    BY <1>5, <1>8, ServerOthers DEF Request

\* The fields of the file that is being received.
LEMMA ReceptionTyped ==
  ASSUME ServerTyped, NEW name \in FileNames, NEW size \in Int, NEW got \in Nat,
         incoming' = [name |-> name, size |-> size, got |-> got],
         DOMAIN files' = DOMAIN files \cup {name},
         files' \in [DOMAIN files' -> Seq(Blocks)],
         handler' \in {"confirm_file", "file_data"},
         UNCHANGED <<running, ahead, addedFiles>>
  PROVE  ServerTyped'
  <1>1. running' \in BOOLEAN /\ ahead' \in BOOLEAN
    BY DEF ServerTyped
  <1>2. /\ incoming' \in [name : FileNames \cup {Root}, size : Int, got : Nat]
        /\ incoming'.name = name
    OBVIOUS
  <1>3. /\ DOMAIN files' \subseteq FileNames /\ addedFiles' \in Seq(Requestable)
        /\ incoming'.name \in FileNames /\ incoming'.name \in DOMAIN files'
    BY <1>2 DEF ServerTyped
  <1>4. handler' \in Holding \cup {"poll", "closed"} /\ handler' # "request"
    BY DEF Holding
  <1>5. Requestable' = Requestable
    BY DEF Requestable
  <1> QED
    BY <1>1, <1>2, <1>3, <1>4, <1>5 DEF ServerTyped

LEMMA ReceiveFileHeaderTyped ==
  ASSUME Typed, ReceiveFileHeader
  PROVE  Typed'
  <1> DEFINE header == Head(toServer)
             name == Target(header.name)
  <1>1. header \in ServerBound /\ header.type = "file_transfer"
    BY Received DEF ReceiveFileHeader, Arrived, Typed, NetTyped
  <1>2. header.name \in Paths /\ header.size \in Int
    BY <1>1, ServerMessage
  <1>3. name \in FileNames
    BY <1>2, Flattened
  <1>4. /\ incoming' = [name |-> name, size |-> header.size, got |-> 0]
        /\ files' = [n \in DOMAIN files \cup {name} |-> IF n = name THEN <<>> ELSE files[n]]
        /\ handler' \in {"confirm_file", "file_data"}
        /\ UNCHANGED <<running, ahead, addedFiles>>
    BY DEF ReceiveFileHeader, GoTo
  <1> HIDE DEF name, header
  <1>5. /\ DOMAIN files' = DOMAIN files \cup {name}
        /\ files' \in [DOMAIN files' -> Seq(Blocks)]
    <2>1. \A n \in DOMAIN files : files[n] \in Seq(Blocks)
      BY DEF Typed, ServerTyped
    <2>2. <<>> \in Seq(Blocks)
      OBVIOUS
    <2> QED
      BY <1>4, <2>1, <2>2
  <1>6. ServerTyped'
    BY <1>2, <1>3, <1>4, <1>5, ReceptionTyped DEF Typed
  <1>7. Moves(toServer, toServer', ServerBound) /\ Moves(toClient, toClient', ClientBound)
    BY Receives DEF ReceiveFileHeader, Moves
  <1>8. NetTyped'
    BY <1>7, StreamsTyped DEF ReceiveFileHeader, Typed
  <1> QED
    BY <1>6, <1>8, ServerOthers DEF ReceiveFileHeader

LEMMA ReceiveBlockTyped ==
  ASSUME Typed, ReceiveBlock
  PROVE  Typed'
  <1> DEFINE block == Head(toServer).block
             name == incoming.name
  <1>1. Head(toServer) \in ServerBound /\ Head(toServer).type = "block"
    BY Received DEF ReceiveBlock, Arrived, Typed, NetTyped
  <1>2. block \in Blocks
    BY <1>1, ServerMessage
  <1>3. name \in FileNames /\ name \in DOMAIN files
    BY DEF ReceiveBlock, Typed, ServerTyped
  <1>4. /\ incoming' = [incoming EXCEPT !.got = @ + 1]
        /\ files' = [files EXCEPT ![name] = Append(@, block)]
        /\ handler' \in {"confirm_file", "file_data"}
        /\ UNCHANGED <<running, ahead, addedFiles>>
    BY DEF ReceiveBlock, GoTo
  <1>5. incoming \in [name : FileNames \cup {Root}, size : Int, got : Nat]
    BY DEF Typed, ServerTyped
  <1>6. /\ incoming' = [name |-> name, size |-> incoming.size, got |-> incoming.got + 1]
        /\ incoming.size \in Int /\ incoming.got + 1 \in Nat
    BY <1>4, <1>5
  <1> HIDE DEF block, name
  <1>7. /\ DOMAIN files' = DOMAIN files \cup {name}
        /\ files' \in [DOMAIN files' -> Seq(Blocks)]
    <2>1. files \in [DOMAIN files -> Seq(Blocks)] /\ files[name] \in Seq(Blocks)
      BY <1>3 DEF Typed, ServerTyped
    <2>2. Append(files[name], block) \in Seq(Blocks)
      BY <1>2, <2>1, AppendProperties
    <2> QED
      BY <1>3, <1>4, <2>1, <2>2
  <1>8. ServerTyped'
    BY <1>3, <1>4, <1>6, <1>7, ReceptionTyped DEF Typed
  <1>9. Moves(toServer, toServer', ServerBound) /\ Moves(toClient, toClient', ClientBound)
    BY Receives DEF ReceiveBlock, Moves
  <1>10. NetTyped'
    BY <1>9, StreamsTyped DEF ReceiveBlock, Typed
  <1> QED
    BY <1>8, <1>10, ServerOthers DEF ReceiveBlock

LEMMA NextFileTyped ==
  ASSUME Typed, NextFile, UNCHANGED <<running, ahead, addedFiles, incoming, files>>
  PROVE  ServerTyped'
  <1>1. running' \in BOOLEAN
    BY DEF Typed, ServerTyped
  <1>2. "rehash" \in Holding \cup {"poll", "closed"} /\ "request" \in Holding \cup {"poll", "closed"}
    BY DEF Holding
  <1>3. CASE addedFiles = <<>>
    BY <1>1, <1>2, <1>3, ServerMoves DEF NextFile, GoTo, Typed
  <1>4. CASE addedFiles # <<>>
    BY <1>1, <1>2, <1>4, ServerMoves DEF NextFile, GoTo, Typed
  <1> QED
    BY <1>3, <1>4

LEMMA NextFileStepsTyped ==
  ASSUME Typed, ReceiveTornFile \/ ConfirmFile \/ SkipFile
  PROVE  Typed'
  <1>1. ServerTyped'
    BY NextFileTyped DEF ReceiveTornFile, ConfirmFile, SkipFile
  <1>2. Moves(toClient, toClient', ClientBound)
    <2>1. CASE ConfirmFile
      BY <2>1, Replies, Answers DEF ConfirmFile
    <2>2. CASE ReceiveTornFile \/ SkipFile
      BY <2>2 DEF ReceiveTornFile, SkipFile, netVars, Moves
    <2> QED
      BY <2>1, <2>2
  <1>3. Moves(toServer, toServer', ServerBound)
    BY Receives DEF ReceiveTornFile, ConfirmFile, SkipFile, netVars, Moves
  <1>4. NetTyped'
    BY <1>2, <1>3, StreamsTyped DEF ReceiveTornFile, ConfirmFile, SkipFile, netVars, Typed
  <1> QED
    BY <1>1, <1>4, ServerOthers DEF ReceiveTornFile, ConfirmFile, SkipFile

LEMMA ServerRestTyped ==
  ASSUME Typed, UpdateHash \/ CloseConnection \/ Terminate
  PROVE  Typed'
  <1>1. "poll" \in Holding \cup {"poll", "closed"} /\ "closed" \in Holding \cup {"poll", "closed"}
    OBVIOUS
  <1>2. running' \in BOOLEAN
    <2>1. CASE running' = running
      BY <2>1 DEF Typed, ServerTyped
    <2>2. CASE running' = FALSE
      BY <2>2
    <2> QED
      BY <2>1, <2>2 DEF UpdateHash, CloseConnection, Terminate
  <1>3. ServerTyped'
    BY <1>1, <1>2, ServerMoves DEF UpdateHash, CloseConnection, Terminate, GoTo, Typed
  <1>4. Moves(toServer, toServer', ServerBound) /\ Moves(toClient, toClient', ClientBound)
    BY DEF UpdateHash, CloseConnection, Terminate, netVars, Moves
  <1>5. NetTyped'
    BY <1>4, StreamsTyped DEF UpdateHash, CloseConnection, Terminate, netVars, Typed
  <1> QED
    BY <1>3, <1>5, ServerOthers DEF UpdateHash, CloseConnection, Terminate

LEMMA ServerStepTyped ==
  ASSUME Typed, ServerStep
  PROVE  Typed'
  BY CheckVersionTyped, TreeReceptionTyped, NoSyncTyped, RequestTyped,
     ReceiveFileHeaderTyped, ReceiveBlockTyped, NextFileStepsTyped, ServerRestTyped
     DEF ServerStep, ParseError, BuildTreeThrows

-----------------------------------------------------------------------------
LEMMA ClientConstants ==
  Trees' = Trees /\ OpenFiles' = OpenFiles /\ Nothing \in OpenFiles
  <1>1. Trees' = Trees /\ OpenFiles' = OpenFiles
    BY DEF Trees, OpenFiles
  <1>2. Nothing \in OpenFiles
    BY DEF Nothing, OpenFiles
  <1> QED
    BY <1>1, <1>2

LEMMA ClientMoves ==
  ASSUME ClientTyped, client' \in Awaiting \cup {"idle", "sending", "dead"},
         sentTree' \in Trees, opened' \in OpenFiles, remaining' \in Nat \ {0},
         watching' \in BOOLEAN
  PROVE  ClientTyped'
  BY ClientConstants DEF ClientTyped

LEMMA FinishedTyped ==
  ASSUME ClientTyped, Finished, UNCHANGED <<sentTree, remaining>>
  PROVE  ClientTyped'
  <1>1. /\ client' = "idle" /\ watching' = TRUE /\ opened' = Nothing
        /\ UNCHANGED <<sentTree, remaining>>
    BY DEF Finished
  <1>2. sentTree' \in Trees /\ remaining' \in Nat \ {0}
    BY <1>1 DEF ClientTyped
  <1>3. watching' \in BOOLEAN /\ opened' \in OpenFiles
    BY <1>1, ClientConstants
  <1> QED
    BY <1>1, <1>2, <1>3, ClientMoves

LEMMA DiesTyped ==
  ASSUME ClientTyped, Dies, UNCHANGED <<sentTree, remaining, watching>>
  PROVE  ClientTyped'
  <1>1. client' = "dead" /\ opened' \in OpenFiles
    BY ClientConstants DEF Dies
  <1>2. sentTree' \in Trees /\ remaining' \in Nat \ {0}
    BY DEF ClientTyped
  <1>3. watching' \in BOOLEAN
    BY DEF ClientTyped
  <1> QED
    BY <1>1, <1>2, <1>3, ClientMoves

LEMMA FileDoneTyped ==
  ASSUME ClientTyped, NEW i \in Nat \ {0}, FileDone(i), sentTree' = sentTree
  PROVE  ClientTyped'
  <1>1. CASE i = 1
    BY <1>1, FinishedTyped DEF FileDone
  <1>2. CASE i # 1
    <2>1. /\ client' = "await_next" /\ remaining' = i - 1 /\ opened' = Nothing
          /\ watching' = watching
      BY <1>2 DEF FileDone
    <2>2. remaining' \in Nat \ {0}
      BY <1>2, <2>1
    <2>3. client' \in Awaiting \cup {"idle", "sending", "dead"}
      BY <2>1 DEF Awaiting
    <2>4. opened' \in OpenFiles /\ sentTree' \in Trees
      BY <2>1, ClientConstants DEF ClientTyped
    <2>5. watching' \in BOOLEAN
      BY <2>1 DEF ClientTyped
    <2> QED
      BY <2>2, <2>3, <2>4, <2>5, ClientMoves
  <1> QED
    BY <1>1, <1>2

LEMMA ClientOthers ==
  ASSUME Typed, UNCHANGED serverVars, UserTyped', ClientTyped', NetTyped',
         mishaps' \subseteq Mishaps
  PROVE  Typed'
  <1>1. ServerTyped'
    BY ServerStays DEF Typed
  <1>2. Mishaps' = Mishaps
    BY DEF Mishaps
  <1> QED
    BY <1>1, <1>2 DEF Typed

LEMMA Sends ==
  ASSUME NEW m \in ServerBound, Send(<<m>>)
  PROVE  Moves(toServer, toServer', ServerBound)
  BY DEF Send, Moves

LEMMA Takes ==
  ASSUME Take, toClient # <<>>
  PROVE  Moves(toClient, toClient', ClientBound)
  BY DEF Take, Moves

LEMMA Silent ==
  /\ toServer' = toServer => Moves(toServer, toServer', ServerBound)
  /\ toClient' = toClient => Moves(toClient, toClient', ClientBound)
  /\ toClient' = <<>> => Moves(toClient, toClient', ClientBound)
  BY DEF Moves

\* Both streams move and everything but the client's state stays.
LEMMA ClientEnds ==
  ASSUME Typed, UNCHANGED <<serverVars, userVars, mishaps>>, ClientTyped',
         Moves(toServer, toServer', ServerBound),
         Moves(toClient, toClient', ClientBound), link' = link \/ link' = FALSE
  PROVE  Typed'
  <1>1. NetTyped'
    BY StreamsTyped DEF Typed
  <1>2. UserTyped'
    BY UserStays DEF Typed
  <1>3. mishaps' \subseteq Mishaps
    BY DEF Typed
  <1> QED
    BY <1>1, <1>2, <1>3, ClientOthers

LEMMA InitiateSyncTyped ==
  ASSUME Typed, InitiateSync
  PROVE  Typed'
  <1>1. ClientTyped'
    <2>1. client' = "await_latest" /\ UNCHANGED <<sentTree, opened, remaining, watching>>
      BY DEF InitiateSync
    <2>2. client' \in Awaiting \cup {"idle", "sending", "dead"}
      BY <2>1 DEF Awaiting
    <2>3. sentTree' \in Trees /\ opened' \in OpenFiles /\ remaining' \in Nat \ {0}
      BY <2>1 DEF Typed, ClientTyped
    <2>4. watching' \in BOOLEAN
      BY <2>1 DEF Typed, ClientTyped
    <2> QED
      BY <2>2, <2>3, <2>4, ClientMoves DEF Typed
  <1>2. UserTyped'
    <2>1. syncsDue' = syncsDue - 1 /\ syncsDue > 0 /\ UNCHANGED <<localDir, edits>>
      BY DEF InitiateSync
    <2>2. syncsDue' \in Nat
      BY <2>1 DEF Typed, UserTyped
    <2>3. localDir' \in Directories /\ edits' \in 0..MaxEdits
      BY <2>1 DEF Typed, UserTyped
    <2> QED
      BY <2>2, <2>3 DEF UserTyped, Directories
  <1>3. Moves(toServer, toServer', ServerBound)
    <2>1. localDir \in Directories
      BY DEF Typed, UserTyped
    <2>2. CheckLatest(getTreeHash(LocalTree)) \in ServerBound
      BY <2>1, Outgoing DEF LocalTree
    <2> QED
      BY <2>2, Sends DEF InitiateSync
  <1>4. NetTyped'
    BY <1>3, Silent, StreamsTyped DEF InitiateSync, Typed
  <1>5. mishaps' \subseteq Mishaps
    BY DEF InitiateSync, Typed
  <1> QED
    BY <1>1, <1>2, <1>4, <1>5, ClientOthers DEF InitiateSync

LEMMA EndingsTyped ==
  ASSUME Typed, OnLatest \/ OnNoSyncNeeded \/ OnClosed
  PROVE  Typed'
  <1>1. ClientTyped'
    BY FinishedTyped DEF OnLatest, OnNoSyncNeeded, OnClosed, Typed
  <1>2. Moves(toServer, toServer', ServerBound)
    BY Silent DEF OnLatest, OnNoSyncNeeded, OnClosed, netVars
  <1>3. Moves(toClient, toClient', ClientBound)
    BY Silent, Takes DEF OnLatest, OnNoSyncNeeded, OnClosed, netVars, Found
  <1> QED
    BY <1>1, <1>2, <1>3, ClientEnds DEF OnLatest, OnNoSyncNeeded, OnClosed, netVars

LEMMA DeathsTyped ==
  ASSUME Typed, LocalTreeThrows \/ ClientBrokenPipe
  PROVE  Typed'
  <1>1. ClientTyped'
    BY DiesTyped DEF LocalTreeThrows, ClientBrokenPipe, Typed
  <1>2. Moves(toServer, toServer', ServerBound) /\ Moves(toClient, toClient', ClientBound)
    BY Silent DEF LocalTreeThrows, ClientBrokenPipe, Dies
  <1> QED
    BY <1>1, <1>2, ClientEnds DEF LocalTreeThrows, ClientBrokenPipe, Dies

LEMMA OnNotLatestTyped ==
  ASSUME Typed, OnNotLatest
  PROVE  Typed'
  <1>1. LocalTree \in Trees
    BY DEF OnNotLatest, Typed, UserTyped, LocalTree, Trees
  <1>2. ClientTyped'
    <2>1. client' = "await_conf" /\ sentTree' = LocalTree /\ UNCHANGED <<opened, remaining, watching>>
      BY DEF OnNotLatest
    <2>2. client' \in Awaiting \cup {"idle", "sending", "dead"}
      BY <2>1 DEF Awaiting
    <2>3. sentTree' \in Trees /\ opened' \in OpenFiles /\ remaining' \in Nat \ {0}
      BY <1>1, <2>1 DEF Typed, ClientTyped
    <2>4. watching' \in BOOLEAN
      BY <2>1 DEF Typed, ClientTyped
    <2> QED
      BY <2>2, <2>3, <2>4, ClientMoves DEF Typed
  <1>3. Moves(toServer, toServer', ServerBound)
    <2>1. Head(toClient) \in ClientBound /\ Head(toClient).type = "not_latest"
      BY Received DEF OnNotLatest, Found, Typed, NetTyped
    <2>2. Head(toClient).ahead \in BOOLEAN
      BY <2>1, ClientMessage
    <2>3. Tree(Head(toClient).ahead, LocalTree) \in ServerBound
      BY <1>1, <2>2, Outgoing
    <2> QED
      BY <2>3, Sends DEF OnNotLatest
  <1>4. Moves(toClient, toClient', ClientBound)
    BY Takes DEF OnNotLatest, Found
  <1> QED
    BY <1>2, <1>3, <1>4, ClientEnds DEF OnNotLatest

LEMMA OnTreeConfirmationTyped ==
  ASSUME Typed, OnTreeConfirmation
  PROVE  Typed'
  <1>1. ClientTyped'
    <2>1. client' = "await_response" /\ UNCHANGED <<sentTree, opened, remaining, watching>>
      BY DEF OnTreeConfirmation
    <2>2. client' \in Awaiting \cup {"idle", "sending", "dead"}
      BY <2>1 DEF Awaiting
    <2>3. sentTree' \in Trees /\ opened' \in OpenFiles /\ remaining' \in Nat \ {0}
      BY <2>1 DEF Typed, ClientTyped
    <2>4. watching' \in BOOLEAN
      BY <2>1 DEF Typed, ClientTyped
    <2> QED
      BY <2>2, <2>3, <2>4, ClientMoves DEF Typed
  <1>2. Moves(toServer, toServer', ServerBound) /\ Moves(toClient, toClient', ClientBound)
    BY Silent, Takes DEF OnTreeConfirmation, Found
  <1> QED
    BY <1>1, <1>2, ClientEnds DEF OnTreeConfirmation

\* The number of files that are still to be sent.
LEMMA RequestCounted ==
  ASSUME Typed, Requested
  PROVE  /\ RequestCount \in Nat \ {0} /\ toClient # <<>>
         /\ Head(toClient).path \in Requestable
  <1>1. toClient # <<>> /\ Head(toClient) \in ClientBound /\ Head(toClient).type = "request_file"
    BY Received DEF Requested, Found, Typed, NetTyped
  <1>2. Head(toClient).remaining \in Nat \ {0} /\ Head(toClient).path \in Requestable
    BY <1>1, ClientMessage
  <1>3. remaining \in Nat \ {0}
    BY DEF Typed, ClientTyped
  <1> QED
    BY <1>1, <1>2, <1>3 DEF RequestCount

LEMMA Opening ==
  ASSUME UserTyped, NEW path \in DOMAIN localDir,
         NEW size \in IF localDir[path] = Dir THEN DirectorySizes ELSE {Len(localDir[path])}
  PROVE  /\ path \in Paths /\ size \in Int
         /\ [path |-> path, size |-> size, sent |-> 0, linked |-> TRUE,
             data |-> IF localDir[path] = Dir THEN <<>> ELSE localDir[path]] \in OpenFiles
  <1>1. path \in Paths /\ localDir[path] \in Versions \cup {Dir}
    BY DEF UserTyped, Directories
  <1>2. size \in Int
    <2>1. CASE localDir[path] = Dir
      BY <2>1, UploadAssumption
    <2>2. CASE localDir[path] # Dir
      <3>1. localDir[path] \in Seq(Blocks)
        BY <1>1, <2>2, UploadAssumption
      <3>2. Len(localDir[path]) \in Nat /\ size = Len(localDir[path])
        BY <2>2, <3>1, LenProperties
      <3> QED
        BY <3>2
    <2> QED
      BY <2>1, <2>2
  <1>3. (IF localDir[path] = Dir THEN <<>> ELSE localDir[path]) \in Versions \cup {<<>>}
    BY <1>1
  <1> QED
    BY <1>1, <1>2, <1>3 DEF OpenFiles

LEMMA OpenFileTyped ==
  ASSUME Typed, OpenFile
  PROVE  Typed'
  <1> DEFINE path == Head(toClient).path
  <1>1. /\ path \in DOMAIN localDir
        /\ \E size \in IF localDir[path] = Dir THEN DirectorySizes
                                               ELSE {Len(localDir[path])} :
             /\ opened' = [path |-> path, size |-> size, sent |-> 0, linked |-> TRUE,
                           data |-> IF localDir[path] = Dir THEN <<>> ELSE localDir[path]]
             /\ Send(<<FileHeader(path, size)>>)
             /\ mishaps' = IF size > Len(opened'.data) THEN mishaps \cup {"directory"}
                                                       ELSE mishaps
    BY DEF OpenFile
  <1>2. UserTyped /\ ClientTyped /\ mishaps \subseteq Mishaps
    BY DEF Typed
  <1> HIDE DEF path
  <1>3. PICK size \in IF localDir[path] = Dir THEN DirectorySizes ELSE {Len(localDir[path])} :
          /\ opened' = [path |-> path, size |-> size, sent |-> 0, linked |-> TRUE,
                        data |-> IF localDir[path] = Dir THEN <<>> ELSE localDir[path]]
          /\ Send(<<FileHeader(path, size)>>)
          /\ mishaps' = IF size > Len(opened'.data) THEN mishaps \cup {"directory"}
                                                    ELSE mishaps
    BY <1>1
  <1>4. path \in Paths /\ size \in Int /\ opened' \in OpenFiles
    BY <1>1, <1>2, <1>3, Opening
  <1>5. ClientTyped'
    <2>1. client' = "sending" /\ UNCHANGED <<sentTree, watching>> /\ remaining' = RequestCount
      BY DEF OpenFile
    <2>2. remaining' \in Nat \ {0}
      BY <2>1, RequestCounted DEF OpenFile
    <2>3. sentTree' \in Trees
      BY <1>2, <2>1 DEF ClientTyped
    <2>4. watching' \in BOOLEAN
      BY <1>2, <2>1 DEF ClientTyped
    <2> QED
      BY <1>2, <1>4, <2>1, <2>2, <2>3, <2>4, ClientMoves
  <1>6. Moves(toServer, toServer', ServerBound)
    BY <1>3, <1>4, Outgoing, Sends
  <1>7. Moves(toClient, toClient', ClientBound)
    BY Takes, RequestCounted DEF OpenFile
  <1>8. NetTyped'
    BY <1>6, <1>7, StreamsTyped DEF OpenFile, Typed
  <1>9. mishaps' \subseteq Mishaps
    BY <1>2, <1>3 DEF Mishaps
  <1>10. UserTyped'
    BY <1>2, UserStays DEF OpenFile
  <1> QED
    BY <1>5, <1>8, <1>9, <1>10, ClientOthers DEF OpenFile

LEMMA OpenFailsTyped ==
  ASSUME Typed, OpenFails
  PROVE  Typed'
  <1>1. ClientTyped'
    BY RequestCounted, FileDoneTyped DEF OpenFails, Typed
  <1>2. Moves(toServer, toServer', ServerBound) /\ Moves(toClient, toClient', ClientBound)
    BY Silent, Takes, RequestCounted DEF OpenFails
  <1>3. NetTyped'
    BY <1>2, StreamsTyped DEF OpenFails, Typed
  <1>4. mishaps' \subseteq Mishaps
    BY DEF OpenFails, Typed, Mishaps
  <1>5. UserTyped'
    BY UserStays DEF OpenFails, Typed
  <1> QED
    BY <1>1, <1>3, <1>4, <1>5, ClientOthers DEF OpenFails

\* The data of an open file is a sequence of chunks.
LEMMA OpenedData ==
  ASSUME ClientTyped
  PROVE  /\ opened.data \in Seq(Blocks) /\ Len(opened.data) \in Nat
         /\ opened.sent \in Nat /\ opened.size \in Int /\ opened.path \in Paths \cup {Root}
         /\ opened.data = <<>> <=> Len(opened.data) = 0
  <1>1. opened.data \in Versions \cup {<<>>} /\ opened.sent \in Nat /\ opened.size \in Int
        /\ opened.path \in Paths \cup {Root}
    BY DEF ClientTyped, OpenFiles
  <1>2. <<>> \in Seq(Blocks)
    OBVIOUS
  <1>3. opened.data \in Seq(Blocks)
    BY <1>1, <1>2, UploadAssumption
  <1> QED
    BY <1>1, <1>3, EmptySeq, LenProperties

LEMMA SendBlockTyped ==
  ASSUME Typed, SendBlock
  PROVE  Typed'
  <1>1. ClientTyped /\ opened \in OpenFiles
    BY DEF Typed, ClientTyped
  <1>2. opened.data[opened.sent + 1] \in Blocks
    <2>1. opened.sent + 1 \in 1..Len(opened.data)
      BY <1>1, OpenedData DEF SendBlock
    <2> QED
      BY <1>1, <2>1, OpenedData
  <1>3. ClientTyped'
    <2>1. opened' = [opened EXCEPT !.sent = @ + 1]
          /\ UNCHANGED <<client, sentTree, remaining, watching>>
      BY DEF SendBlock
    <2>2. opened' \in OpenFiles
      BY <1>1, <2>1 DEF OpenFiles
    <2>3. client' \in Awaiting \cup {"idle", "sending", "dead"} /\ sentTree' \in Trees
          /\ remaining' \in Nat \ {0}
      BY <1>1, <2>1 DEF ClientTyped
    <2>4. watching' \in BOOLEAN
      BY <1>1, <2>1 DEF ClientTyped
    <2> QED
      BY <1>1, <2>2, <2>3, <2>4, ClientMoves
  <1>4. Moves(toServer, toServer', ServerBound)
    BY <1>2, Outgoing, Sends DEF SendBlock
  <1> QED
    BY <1>3, <1>4, Silent, ClientEnds DEF SendBlock

LEMMA EndOfFileTyped ==
  ASSUME Typed, EndOfFile
  PROVE  Typed'
  <1>1. ClientTyped'
    <2>1. client' = "await_fconf" /\ UNCHANGED <<sentTree, opened, remaining, watching>>
      BY DEF EndOfFile
    <2>2. client' \in Awaiting \cup {"idle", "sending", "dead"}
      BY <2>1 DEF Awaiting
    <2>3. sentTree' \in Trees /\ opened' \in OpenFiles /\ remaining' \in Nat \ {0}
      BY <2>1 DEF Typed, ClientTyped
    <2>4. watching' \in BOOLEAN
      BY <2>1 DEF Typed, ClientTyped
    <2> QED
      BY <2>2, <2>3, <2>4, ClientMoves DEF Typed
  <1> QED
    BY <1>1, Silent, ClientEnds DEF EndOfFile, netVars

LEMMA OnFileConfirmationTyped ==
  ASSUME Typed, OnFileConfirmation
  PROVE  Typed'
  <1>1. ClientTyped'
    <2>1. remaining \in Nat \ {0} /\ ClientTyped
      BY DEF Typed, ClientTyped
    <2> QED
      BY <2>1, FileDoneTyped DEF OnFileConfirmation
  <1>2. Moves(toServer, toServer', ServerBound) /\ Moves(toClient, toClient', ClientBound)
    BY Silent, Takes DEF OnFileConfirmation
  <1> QED
    BY <1>1, <1>2, ClientEnds DEF OnFileConfirmation

LEMMA KillClientTyped ==
  ASSUME Typed, KillClient
  PROVE  Typed'
  <1>1. ClientTyped'
    BY DiesTyped DEF KillClient, Typed
  <1>2. NetTyped'
    <2>1. PICK n \in 0..Len(toServer) : toServer' = SubSeq(toServer, 1, n)
      BY DEF KillClient
    <2>2. toServer \in Seq(ServerBound)
      BY DEF Typed, NetTyped
    <2>3. toServer' \in Seq(ServerBound)
      <3>1. Len(toServer) \in Nat
        BY <2>2, LenProperties
      <3>2. \A i \in 1..n : toServer[i] \in ServerBound
        BY <2>2, <3>1
      <3> QED
        BY <2>1, <3>1, <3>2, SubSeqProperties
    <2>4. toClient' = <<>> /\ link' = FALSE
      BY DEF KillClient, Dies
    <2>5. toClient' \in Seq(ClientBound)
      BY <2>4
    <2>6. ServerBound' = ServerBound /\ ClientBound' = ClientBound
      BY DEF ServerBound, ClientBound, Trees
    <2>7. link' \in BOOLEAN
      BY <2>4
    <2> QED
      BY <2>3, <2>5, <2>6, <2>7 DEF NetTyped
  <1>3. UserTyped' /\ mishaps' \subseteq Mishaps
    BY UserStays DEF KillClient, Typed
  <1> QED
    BY <1>1, <1>2, <1>3, ClientOthers DEF KillClient

LEMMA ClientStepTyped ==
  ASSUME Typed, ClientStep \/ ClientBrokenPipe \/ KillClient
  PROVE  Typed'
  BY InitiateSyncTyped, EndingsTyped, DeathsTyped, OnNotLatestTyped,
     OnTreeConfirmationTyped, OpenFileTyped, OpenFailsTyped, SendBlockTyped,
     EndOfFileTyped, OnFileConfirmationTyped, KillClientTyped DEF ClientStep

-----------------------------------------------------------------------------
(* The user's edits.                                                       *)

LEMMA DirectoryOf ==
  ASSUME NEW dir, DOMAIN dir \subseteq Paths, dir \in [DOMAIN dir -> Versions \cup {Dir}],
         \A p \in DOMAIN dir : Len(p) > 1 => Front(p) \in DOMAIN dir /\ dir[Front(p)] = Dir
  PROVE  dir \in Directories
  BY DEF Directories

LEMMA PutTyped ==
  ASSUME UserTyped, NEW p \in Paths, NEW entry \in Versions \cup {Dir}, Room(p),
         p \in DOMAIN localDir => localDir[p] # Dir
  PROVE  Put(p, entry) \in Directories
  <1> DEFINE dir == Put(p, entry)
  <1>1. /\ DOMAIN localDir \subseteq Paths
        /\ \A q \in DOMAIN localDir : localDir[q] \in Versions \cup {Dir}
        /\ \A q \in DOMAIN localDir : Len(q) > 1 =>
               Front(q) \in DOMAIN localDir /\ localDir[Front(q)] = Dir
    BY DirectoryIs DEF UserTyped
  <1>2. /\ DOMAIN dir = DOMAIN localDir \cup {p}
        /\ dir[p] = entry
        /\ \A q \in DOMAIN localDir : q # p => dir[q] = localDir[q]
        /\ dir = [q \in DOMAIN localDir \cup {p} |-> dir[q]]
    BY DEF Put
  <1> HIDE DEF dir
  <1>3. DOMAIN dir \subseteq Paths /\ dir \in [DOMAIN dir -> Versions \cup {Dir}]
    BY <1>1, <1>2
  <1>4. ASSUME NEW q \in DOMAIN dir, Len(q) > 1
        PROVE  Front(q) \in DOMAIN dir /\ dir[Front(q)] = Dir
    <2>1. Front(q) \in DOMAIN localDir /\ localDir[Front(q)] = Dir
      <3>1. CASE q = p
        <4>1. ~ (1 > 1)
          OBVIOUS
        <4>2. Len(p) # 1
          BY <1>4, <3>1, <4>1
        <4> QED
          BY <3>1, <4>2 DEF Room
      <3>2. CASE q # p
        BY <1>1, <1>2, <1>4, <3>2
      <3> QED
        BY <3>1, <3>2
    <2>2. Front(q) # p
      BY <2>1
    <2> QED
      BY <1>2, <2>1, <2>2
  <1>5. dir \in Directories
    BY <1>3, <1>4, DirectoryOf
  <1> QED
    BY <1>5 DEF dir

LEMMA RoomOfEntry ==
  ASSUME UserTyped, NEW p \in DOMAIN localDir
  PROVE  Room(p) /\ p \in Paths
  <1>1. p \in Paths /\ (Len(p) > 1 => Front(p) \in DOMAIN localDir /\ localDir[Front(p)] = Dir)
    BY DirectoryIs DEF UserTyped
  <1>2. Len(p) = 1 \/ Len(p) > 1
    <2>1. p \in Seq(Names) /\ p # <<>>
      BY <1>1, PathAssumption
    <2>2. Len(p) \in Nat /\ Len(p) # 0
      BY <2>1, EmptySeq, LenProperties
    <2>3. \A n \in Nat : n # 0 => n = 1 \/ n > 1
      OBVIOUS
    <2> QED
      BY <2>2, <2>3
  <1> QED
    BY <1>1, <1>2 DEF Room

LEMMA DeleteTyped ==
  ASSUME UserTyped, NEW p \in DOMAIN localDir, children(DOMAIN localDir, p, NameOrder) = <<>>
  PROVE  [q \in DOMAIN localDir \ {p} |-> localDir[q]] \in Directories
  <1> DEFINE dir == [q \in DOMAIN localDir \ {p} |-> localDir[q]]
             D == DOMAIN localDir
  <1>1. /\ D \subseteq Paths /\ Paths \subseteq Seq(Names) /\ IsOrder(NameOrder)
        /\ \A q \in D : localDir[q] \in Versions \cup {Dir}
        /\ \A q \in D : Len(q) > 1 => Front(q) \in D /\ localDir[Front(q)] = Dir
    BY DirectoryIs, PathAssumption DEF UserTyped
  <1>2. DOMAIN dir = D \ {p} /\ \A q \in D \ {p} : dir[q] = localDir[q]
    OBVIOUS
  <1>3. dir \in [DOMAIN dir -> Versions \cup {Dir}]
    BY <1>1
  <1>4. children(D, p, NameOrder) = <<>>
    OBVIOUS
  <1>5. p \in Seq(Names) /\ D \subseteq Seq(Names)
    BY <1>1
  <1> HIDE DEF dir, D
  <1>6. Children(D, p) = {}
    <2>1. ToSet(children(D, p, NameOrder)) = Children(D, p)
      BY <1>1, <1>5, KidsAre DEF AreKids
    <2>2. ToSet(<<>>) = {}
      BY DEF ToSet
    <2> QED
      BY <1>4, <2>1, <2>2
  <1>7. ASSUME NEW q \in DOMAIN dir, Len(q) > 1
        PROVE  Front(q) \in DOMAIN dir /\ dir[Front(q)] = Dir
    <2>1. q \in D /\ Front(q) \in D /\ localDir[Front(q)] = Dir
      BY <1>1, <1>2, <1>7
    <2>2. q # Root
      <3>1. ~ (Len(Root) > 1)
        BY DEF Root
      <3> QED
        BY <1>7, <3>1
    <2>3. Front(q) # p
      BY <1>6, <2>1, <2>2 DEF Children
    <2> QED
      BY <1>2, <2>1, <2>3
  <1>8. DOMAIN dir \subseteq Paths
    BY <1>1, <1>2
  <1>9. dir \in Directories
    BY <1>3, <1>7, <1>8, DirectoryOf
  <1> QED
    BY <1>9 DEF dir, D

LEMMA EditTyped ==
  ASSUME Typed, NEW p, NEW dir \in Directories, Edit(p, dir), opened' \in OpenFiles,
         mishaps' \subseteq Mishaps
  PROVE  Typed'
  <1>1. UserTyped'
    <2>1. edits' \in 0..MaxEdits
      <3>1. edits \in 0..MaxEdits /\ edits < MaxEdits /\ edits' = edits + 1
        BY DEF Typed, UserTyped, Edit
      <3> QED
        BY <3>1, UploadAssumption
    <2>2. syncsDue' \in Nat
      <3>1. syncsDue \in Nat /\ (syncsDue' = syncsDue + 1 \/ syncsDue' = syncsDue)
        BY DEF Typed, UserTyped, Edit
      <3> QED
        BY <3>1
    <2>3. localDir' \in Directories /\ Directories' = Directories
      BY DEF Edit, Directories
    <2> QED
      BY <2>1, <2>2, <2>3 DEF UserTyped
  <1>2. ClientTyped'
    <2>1. UNCHANGED <<client, sentTree, remaining, watching>>
      BY DEF Edit
    <2>2. client' \in Awaiting \cup {"idle", "sending", "dead"} /\ sentTree' \in Trees
          /\ remaining' \in Nat \ {0}
      BY <2>1 DEF Typed, ClientTyped
    <2>3. watching' \in BOOLEAN
      BY <2>1 DEF Typed, ClientTyped
    <2> QED
      BY <2>2, <2>3, ClientMoves DEF Typed
  <1>3. NetTyped'
    BY Silent, StreamsTyped DEF Edit, netVars, Typed
  <1> QED
    BY <1>1, <1>2, <1>3, ClientOthers DEF Edit

LEMMA UnlinkTyped ==
  ASSUME ClientTyped, NEW p, Unlink(p)
  PROVE  opened' \in OpenFiles
  <1>1. opened \in OpenFiles
    BY DEF ClientTyped
  <1>2. opened' = opened \/ opened' = [opened EXCEPT !.linked = FALSE]
    BY DEF Unlink
  <1> QED
    BY <1>1, <1>2 DEF OpenFiles

LEMMA UserTypes ==
  ASSUME Typed, User
  PROVE  Typed'
  <1>1. UserTyped /\ ClientTyped /\ mishaps \subseteq Mishaps
    BY DEF Typed
  <1>2. CASE Replace
    <2>1. PICK p \in Paths, c \in Versions :
            /\ Room(p)
            /\ p \in DOMAIN localDir => localDir[p] \notin {Dir, c}
            /\ Edit(p, Put(p, c))
            /\ Unlink(p)
      BY <1>2 DEF Replace
    <2>2. Put(p, c) \in Directories
      BY <1>1, <2>1, PutTyped
    <2>3. opened' \in OpenFiles
      BY <1>1, <2>1, UnlinkTyped
    <2>4. mishaps' \subseteq Mishaps
      BY <1>1, <1>2 DEF Replace
    <2> QED
      BY <2>1, <2>2, <2>3, <2>4, EditTyped
  <1>3. CASE Overwrite
    <2>1. PICK p \in DOMAIN localDir, c \in Versions :
            /\ localDir[p] \notin {Dir, c}
            /\ Edit(p, Put(p, c))
            /\ IF IsOpen(p)
               THEN /\ opened' = [opened EXCEPT !.data = c]
                    /\ mishaps' = mishaps \cup {"rewritten"}
                           \cup (IF Len(c) > opened.size THEN {"grown"} ELSE {})
                           \cup (IF Len(c) < opened.size THEN {"shrunk"} ELSE {})
               ELSE UNCHANGED <<opened, mishaps>>
      BY <1>3 DEF Overwrite
    <2>2. Put(p, c) \in Directories
      BY <1>1, <2>1, RoomOfEntry, PutTyped
    <2>3. opened \in OpenFiles
      BY <1>1 DEF ClientTyped
    <2>4. opened' \in OpenFiles
      BY <2>1, <2>3 DEF OpenFiles
    <2>5. mishaps' \subseteq Mishaps
      BY <1>1, <2>1 DEF Mishaps
    <2> QED
      BY <2>1, <2>2, <2>4, <2>5, EditTyped
  <1>4. CASE Delete
    <2>1. PICK p \in DOMAIN localDir :
            /\ children(DOMAIN localDir, p, NameOrder) = <<>>
            /\ Edit(p, [q \in DOMAIN localDir \ {p} |-> localDir[q]])
            /\ Unlink(p)
      BY <1>4 DEF Delete
    <2>2. [q \in DOMAIN localDir \ {p} |-> localDir[q]] \in Directories
      BY <1>1, <2>1, DeleteTyped
    <2>3. opened' \in OpenFiles
      BY <1>1, <2>1, UnlinkTyped
    <2>4. mishaps' \subseteq Mishaps
      BY <1>1, <1>4 DEF Delete
    <2> QED
      BY <2>1, <2>2, <2>3, <2>4, EditTyped
  <1>5. CASE MakeDirectory
    <2>1. PICK p \in Paths \ DOMAIN localDir : Room(p) /\ Edit(p, Put(p, Dir))
      BY <1>5 DEF MakeDirectory
    <2>2. Put(p, Dir) \in Directories
      BY <1>1, <2>1, PutTyped
    <2>3. opened' \in OpenFiles
      BY <1>1, <1>5 DEF MakeDirectory, ClientTyped
    <2>4. mishaps' \subseteq Mishaps
      BY <1>1, <1>5 DEF MakeDirectory
    <2> QED
      BY <2>1, <2>2, <2>3, <2>4, EditTyped
  <1> QED
    BY <1>2, <1>3, <1>4, <1>5 DEF User

LEMMA StepTyped ==
  ASSUME Typed, [Next]_vars
  PROVE  Typed'
  <1>1. CASE Next
    BY <1>1, ServerStepTyped, ClientStepTyped, UserTypes, ServerRestTyped
       DEF Next, Environment, BrokenPipe
  <1>2. CASE UNCHANGED vars
    BY <1>2, ServerStays, Silent, StreamsTyped, ServerOthers
       DEF vars, serverVars, userVars, clientVars, netVars, Typed
  <1> QED
    BY <1>1, <1>2

\* Every variable and every message under way has its type.
LEMMA AlwaysTyped ==
  Spec => []Typed
  BY InitTyped, StepTyped, PTL DEF Spec

\* The server's directory is flat, the client's tree is one of a directory,
\* and what is still to be requested is a path, for every set of paths and
\* contents and whatever the user does (ClientCommunicator.cpp, HandleSync.cpp).
THEOREM TypeCorrect == Spec => []TypeOK
  <1>1. Typed => TypeOK
    BY TypedIsOK
  <1> QED
    BY <1>1, AlwaysTyped, PTL

-----------------------------------------------------------------------------
(* What treeReception does with the tree it receives.                      *)

\* The tree that has arrived, and the server's own.
Compared(tree, flag) ==
    /\ tree \in Trees /\ flag \in BOOLEAN
    /\ NodeSet(DOMAIN tree) /\ NodeSet(DOMAIN loadFromFile(tree)) /\ NodeSet(DOMAIN Own)
    /\ DOMAIN loadFromFile(tree) = DOMAIN tree /\ DOMAIN tree \subseteq Paths \cup {Root}
    /\ DOMAIN Own = DOMAIN files \cup {Root}

LEMMA ArrivedTree ==
  ASSUME Typed, Arrived("tree")
  PROVE  Compared(Head(toServer).tree, Head(toServer).ahead)
  <1>1. Head(toServer) \in ServerBound /\ Head(toServer).type = "tree"
    BY Received DEF Arrived, Typed, NetTyped
  <1>2. Head(toServer).tree \in Trees /\ Head(toServer).ahead \in BOOLEAN
    BY <1>1, ServerMessage
  <1>3. DOMAIN files \subseteq FileNames
    BY DEF Typed, ServerTyped
  <1> QED
    BY <1>2, <1>3, NodesOfClient, ComparisonTyped DEF Compared

\* The nodes below the root are all nodes.
LEMMA ReportsAll ==
  ASSUME NEW V, NodeSet(V), NEW R, R \subseteq V, NEW s, Reports(s, {Root}, R, V)
  PROVE  ToSet(s) = R
  <1>1. \A q \in R : q \in Seq(Names) /\ IsPrefix(Root, q)
    BY PrefixFacts DEF NodeSet
  <1> QED
    BY <1>1 DEF Reports

\* The sets of nodes that the comparer reports.
LEMMA ReportedSets ==
  ASSUME NEW base, NodeSet(DOMAIN base), NEW current, NodeSet(DOMAIN current),
         NEW order, IsOrder(order)
  PROVE  /\ ToSet(addedNodes(base, current, order)) = AddedSet(base, current)
         /\ ToSet(removedNodes(base, current, order)) = RemovedSet(base, current)
  <1>1. AddedSet(base, current) \subseteq DOMAIN current
        /\ RemovedSet(base, current) \subseteq DOMAIN base
    BY DEF AddedSet, RemovedSet
  <1>2. ToSet(addedNodes(base, current, order)) = AddedSet(base, current)
    BY <1>1, AddedAre, ReportsAll
  <1>3. ToSet(removedNodes(base, current, order)) = RemovedSet(base, current)
    BY <1>1, RemovedAre, ReportsAll
  <1> QED
    BY <1>2, <1>3

LEMMA TypedComparison ==
  ASSUME Typed
  PROVE  ComparisonIsExact
  <1> SUFFICES ASSUME handler = "poll", Arrived("tree")
               PROVE  LET received == loadFromFile(Head(toServer).tree)
                      IN  /\ ReportIsExact(received, Own)
                          /\ ReportIsExact(Own, received)
                          /\ DetectorMissesNothing(received, Own)
                          /\ DetectorMissesNothing(Own, received)
    BY DEF ComparisonIsExact
  <1>1. NodeSet(DOMAIN Own) /\ NodeSet(DOMAIN loadFromFile(Head(toServer).tree))
    BY ArrivedTree DEF Compared
  <1> QED
    BY <1>1, ComparerIsExact, DetectorIsComplete

\* Whatever tree a client sends and whatever the server holds, the comparison
\* that treeReception makes of them reports the differences exactly, either
\* way round, and the older detector would not have missed one
\* (MerkleTreeComparer, FileChangeDetector.cpp).
THEOREM ComparisonsAreExact == Spec => []ComparisonIsExact
  <1>1. Typed => ComparisonIsExact
    BY TypedComparison
  <1> QED
    BY <1>1, AlwaysTyped, PTL

-----------------------------------------------------------------------------
\* The directory a path goes through first.
LEMMA TopOf ==
  ASSUME NEW q \in Seq(Names), Len(q) > 1
  PROVE  /\ <<q[1]>> \in Seq(Names) /\ <<q[1]>> # Root /\ Len(<<q[1]>>) = 1
         /\ IsPrefix(<<q[1]>>, q) /\ <<q[1]>> # q
  <1>1. Len(q) \in Nat /\ 1 \in 1..Len(q)
    BY LenProperties
  <1>2. q[1] \in Names
    BY <1>1
  <1> DEFINE t == <<q[1]>>
  <1>3. t \in Seq(Names) /\ Len(t) = 1 /\ t[1] = q[1] /\ t # Root
    BY <1>2 DEF Root
  <1>4. t # q
    <2>1. ~ (1 > 1)
      OBVIOUS
    <2>2. Len(t) # Len(q)
      BY <1>3, <2>1
    <2> QED
      BY <2>2
  <1> HIDE DEF t
  <1>5. Len(t) <= Len(q) /\ \A i \in 1..Len(t) : t[i] = q[i]
    BY <1>1, <1>3
  <1>6. IsPrefix(t, q)
    BY <1>3, <1>5, PrefixIs
  <1> QED
    BY <1>3, <1>4, <1>6 DEF t

\* The hash of a directory that holds something is not that of any file.
LEMMA DirectoryHash ==
  ASSUME NEW dir \in Directories, CanBuildTree(dir),
         NEW t \in DOMAIN dir, Children(DOMAIN dir \cup {Root}, t) # {}
  PROVE  buildTree(dir, ClientOrder)[t].hash \notin Seq(Blocks)
  <1> DEFINE D == DOMAIN dir \cup {Root}
             tree == buildTree(dir, ClientOrder)
             kids == children(D, t, ClientOrder)
  <1>1. NodeSet(D) /\ D \subseteq Seq(Names) /\ t \in D /\ t \in Seq(Names)
    BY NodesOfDirectory DEF NodeSet
  <1>2. IsOrder(ClientOrder)
    BY UploadAssumption
  <1>3. AreKids(kids, D, t)
    BY <1>1, <1>2, KidsAre
  <1>4. isDirectory(dir, t)
    <2>1. PICK c \in Children(D, t) : TRUE
      OBVIOUS
    <2>2. c \in D /\ c # Root /\ Front(c) = t
      BY DEF Children
    <2>3. t # Root
      BY PathAssumption, DirectoryIs DEF Root
    <2>4. c \in DOMAIN dir /\ c \in Seq(Names)
      BY <1>1, <2>2
    <2>5. Len(t) = Len(c) - 1 /\ Len(t) \in Nat /\ Len(c) \in Nat /\ Len(t) # 0
      BY <1>1, <2>2, <2>3, <2>4, Parted, EmptySeq, LenProperties DEF Root
    <2>6. Len(c) > 1
      BY <2>5
    <2> QED
      BY <2>2, <2>4, <2>6, DirectoryIs DEF isDirectory
  <1>5. tree[t].hash = [i \in DOMAIN kids |-> tree[kids[i]].hash]
    <2>1. Hierarchy(dir)
      BY <1>1 DEF Hierarchy
    <2> QED
      BY <1>1, <1>2, <1>4, <2>1, HashIs DEF NodeIs
  <1>6. \A p \in D : tree[p].hash \notin Blocks
    BY HashAssumption
  <1> HIDE DEF tree, kids, D
  <1>7. 1 \in DOMAIN kids /\ kids[1] \in D
    <2>1. Len(kids) \in Nat /\ DOMAIN kids = 1..Len(kids) /\ ToSet(kids) # {}
      BY <1>3 DEF AreKids, D
    <2>2. DOMAIN kids # {}
      BY <2>1 DEF ToSet
    <2>3. 1 \in DOMAIN kids
      BY <2>1, <2>2
    <2> QED
      BY <1>3, <2>1, <2>3 DEF AreKids
  <1> DEFINE hash == tree[t].hash
  <1>8. 1 \in DOMAIN hash /\ hash[1] \notin Blocks
    BY <1>5, <1>6, <1>7
  <1> HIDE DEF hash
  <1>9. ASSUME hash \in Seq(Blocks) PROVE FALSE
    <2>1. DOMAIN hash = 1..Len(hash)
      BY <1>9
    <2> QED
      BY <1>8, <1>9, <2>1
  <1> QED
    BY <1>9 DEF hash, tree

\* A node of the server is a file with its content for a hash.
LEMMA OwnNode ==
  ASSUME ServerTyped, NEW n \in DOMAIN files
  PROVE  Own[n].hash = files[n] /\ files[n] \in Seq(Blocks) /\ Own[n].isFile
  <1>1. DOMAIN files \subseteq FileNames /\ files[n] \in Seq(Blocks)
    BY DEF ServerTyped
  <1>2. ~ isDirectory(files, n)
    BY <1>1, HashAssumption, FlatNames DEF isDirectory
  <1>3. Hierarchy(files) /\ IsOrder(ServerOrder)
    BY <1>1, NodesOfServer, UploadAssumption DEF Hierarchy
  <1>4. /\ ~ isDirectory(files, n) => buildTree(files, ServerOrder)[n].hash = files[n]
        /\ buildTree(files, ServerOrder)[n].isFile <=> ~ isDirectory(files, n)
    <2>1. NodeIs(buildTree(files, ServerOrder), files, ServerOrder, n)
      BY <1>3, HashIs
    <2> QED
      BY <2>1 DEF NodeIs
  <1> QED
    BY <1>1, <1>2, <1>4 DEF Own

\* A directory of the client that is a file of the server is reported.
LEMMA ReplacedFile ==
  ASSUME ServerTyped, NEW tree \in Trees, NEW t \in DOMAIN tree,
         t \in DOMAIN files, Children(DOMAIN tree, t) # {}
  PROVE  t \in RemovedSet(loadFromFile(tree), Own)
  <1>1. PICK dir \in Directories : CanBuildTree(dir) /\ tree = buildTree(dir, ClientOrder)
    BY DEF Trees
  <1>2. DOMAIN tree = DOMAIN dir \cup {Root} /\ DOMAIN Own = DOMAIN files \cup {Root}
    BY <1>1, TreeDomain DEF Own
  <1>3. t # Root /\ t \in DOMAIN dir
    BY <1>2, FlatNames DEF ServerTyped
  <1>4. tree[t].hash \notin Seq(Blocks)
    BY <1>1, <1>2, <1>3, DirectoryHash
  <1>5. loadFromFile(tree)[t].hash = tree[t].hash
    BY <1>1 DEF loadFromFile, buildTree
  <1>6. Own[t].hash \in Seq(Blocks) /\ Own[t].isFile
    BY OwnNode
  <1>7. Modified(loadFromFile(tree), Own, t)
    BY <1>4, <1>5, <1>6 DEF Modified
  <1> QED
    BY <1>2, <1>7, LoadedDomain DEF RemovedSet

LEMMA TypedRemovals ==
  ASSUME Typed
  PROVE  RemovalsDoNotThrow
  <1> DEFINE tree == Head(toServer).tree
             flag == Head(toServer).ahead
             removed == Removed(flag, tree)
             loaded == loadFromFile(tree)
  <1> SUFFICES ASSUME Arrived("tree"), NEW i \in DOMAIN removed, Len(removed[i]) > 1,
                      <<removed[i][1]>> \in DOMAIN files \ ToSet(SubSeq(removed, 1, i - 1))
               PROVE  FALSE
    BY DEF RemovalsDoNotThrow, RemoveThrows
  <1>1. Compared(tree, flag) /\ ServerTyped
    BY ArrivedTree DEF Typed
  <1>2. IsOrder(ServerOrder) /\ IsOrder(ClientOrder)
    BY UploadAssumption
  <1>3. /\ removed = IF flag THEN removedNodes(loaded, Own, ClientOrder)
                             ELSE removedNodes(Own, loaded, ServerOrder)
    BY DEF Removed
  <1> HIDE DEF tree, flag, removed
  <1>4. CASE ~ flag
    <2>1. Reports(removed, {Root}, RemovedSet(Own, loaded), DOMAIN Own)
      BY <1>1, <1>2, <1>3, <1>4, RemovedAre DEF Compared
    <2>2. removed \in Seq(DOMAIN Own) /\ DOMAIN Own = DOMAIN files \cup {Root}
      BY <1>1, <2>1 DEF Reports, Compared
    <2>3. removed[i] \in DOMAIN files \cup {Root}
      BY <2>2
    <2>4. Len(removed[i]) \in {0, 1}
      <3>1. Len(Root) = 0
        BY DEF Root
      <3> QED
        BY <1>1, <2>3, <3>1, FlatNames DEF ServerTyped
    <2>5. \A n \in {0, 1} : ~ (n > 1)
      OBVIOUS
    <2> QED
      BY <2>4, <2>5
  <1>5. CASE flag
    <2> DEFINE q == removed[i]
               t == <<q[1]>>
               R == RemovedSet(loaded, Own)
    <2>1. Reports(removed, {Root}, R, DOMAIN loaded)
      BY <1>1, <1>2, <1>3, <1>5, RemovedAre DEF Compared
    <2>2. removed \in Seq(DOMAIN loaded) /\ Ordered(removed) /\ ToSet(removed) = R
      <3>1. R \subseteq DOMAIN loaded
        BY DEF RemovedSet
      <3>2. NodeSet(DOMAIN loaded)
        BY <1>1 DEF Compared
      <3> HIDE DEF loaded, R
      <3> QED
        BY <2>1, <3>1, <3>2, ReportsAll DEF Reports
    <2>3. q \in DOMAIN loaded /\ q \in Seq(Names)
      BY <1>1, <2>2 DEF Compared, NodeSet
    <2>4. t \in Seq(Names) /\ t # Root /\ Len(t) = 1 /\ IsPrefix(t, q) /\ t # q
      BY <2>3, TopOf
    <2>5. t \in DOMAIN files /\ t \notin ToSet(SubSeq(removed, 1, i - 1))
      OBVIOUS
    <2>6. t \in DOMAIN loaded
      <3> HIDE DEF t, q
      <3> QED
        BY <1>1, <2>3, <2>4, AboveIsIn DEF Compared
    <2>7. Children(DOMAIN loaded, t) # {}
      <3> HIDE DEF t, q
      <3> QED
        BY <1>1, <2>3, <2>4, <2>6, BelowAChild DEF Compared
    <2>8. t \in R
      <3>1. tree \in Trees /\ DOMAIN loaded = DOMAIN tree
        BY <1>1 DEF Compared
      <3> HIDE DEF t, q
      <3> QED
        BY <1>1, <2>5, <2>6, <2>7, <3>1, ReplacedFile
    <2> HIDE DEF t, R, loaded
    <2>9. Len(removed) \in Nat /\ DOMAIN removed = 1..Len(removed) /\ i \in 1..Len(removed)
      BY <2>2, LenProperties
    <2>10. PICK j \in 1..Len(removed) : removed[j] = t
      BY <2>2, <2>8, <2>9 DEF ToSet
    <2>11. ~ (i < j)
      BY <2>2, <2>4, <2>9, <2>10 DEF Ordered
    <2>12. j # i
      BY <2>4, <2>10
    <2>13. j \in 1..(i - 1) /\ i - 1 \in Nat /\ i - 1 <= Len(removed)
      BY <2>9, <2>11, <2>12
    <2>14. t \in ToSet(SubSeq(removed, 1, i - 1))
      <3> DEFINE s == SubSeq(removed, 1, i - 1)
      <3>1. Len(s) = i - 1 /\ s[j] = removed[j] /\ s \in Seq(DOMAIN loaded)
        <4>1. \A k \in 1..(i - 1) : removed[k] \in DOMAIN loaded
          BY <2>2, <2>9, <2>13
        <4>2. 1 - 1 <= i - 1 /\ i - 1 \in Nat
          BY <2>9
        <4> QED
          BY <2>2, <2>9, <2>13, <4>1, <4>2, SubSeqProperties
      <3>2. DOMAIN s = 1..Len(s)
        BY <3>1
      <3> HIDE DEF s
      <3>3. j \in DOMAIN s
        BY <2>13, <3>1, <3>2
      <3>4. t \in ToSet(s)
        BY <2>10, <3>1, <3>3 DEF ToSet
      <3> QED
        BY <3>4 DEF s
    <2> QED
      BY <2>5, <2>14
  <1> QED
    BY <1>4, <1>5

\* No deletion of treeReception throws: a directory of the client that is a
\* file of the server is deleted before what is in it, whatever the contents
\* and the names (ClientCommunicator.cpp, treeReception).
THEOREM RemovalsAreSafe == Spec => []RemovalsDoNotThrow
  <1>1. Typed => RemovalsDoNotThrow
    BY TypedRemovals
  <1> QED
    BY <1>1, AlwaysTyped, PTL

-----------------------------------------------------------------------------
(* The comparison on flat directories.                                     *)

AllFiles(tree) == \A n \in DOMAIN tree \ {Root} : tree[n].isFile

SameHashes(loaded, tree) ==
    DOMAIN loaded = DOMAIN tree /\ \A n \in DOMAIN tree : loaded[n].hash = tree[n].hash

\* Where every node is a file the comparer does what Workspace says.
LEMMA FlatReports ==
  ASSUME NEW base, NodeSet(DOMAIN base), NEW current, NodeSet(DOMAIN current),
         AllFiles(current), NEW order, IsOrder(order)
  PROVE  /\ ToSet(addedNodes(base, current, order)) \ {Root}
                = Flat!AddedNodes(Hashes(base), Hashes(current))
         /\ ToSet(removedNodes(base, current, order)) \ {Root}
                = Flat!RemovedNodes(Hashes(base), Hashes(current))
  <1>1. /\ ToSet(addedNodes(base, current, order)) = AddedSet(base, current)
        /\ ToSet(removedNodes(base, current, order)) = RemovedSet(base, current)
    BY ReportedSets
  <1>2. /\ DOMAIN Hashes(base) = DOMAIN base \ {Root}
        /\ DOMAIN Hashes(current) = DOMAIN current \ {Root}
        /\ \A n \in DOMAIN base \ {Root} : Hashes(base)[n] = base[n].hash
        /\ \A n \in DOMAIN current \ {Root} : Hashes(current)[n] = current[n].hash
    BY DEF Hashes
  <1> DEFINE ModifiedOnes == Flat!ModifiedNodes(Hashes(base), Hashes(current))
  <1>3. \A n : n \in ModifiedOnes <=>
            n \in (DOMAIN base \cap DOMAIN current) \ {Root} /\ Modified(base, current, n)
    BY <1>2 DEF Flat!ModifiedNodes, Modified, AllFiles
  <1>4. /\ Flat!AddedNodes(Hashes(base), Hashes(current))
               = (DOMAIN Hashes(current) \ DOMAIN Hashes(base)) \cup ModifiedOnes
        /\ Flat!RemovedNodes(Hashes(base), Hashes(current))
               = (DOMAIN Hashes(base) \ DOMAIN Hashes(current)) \cup ModifiedOnes
    BY DEF Flat!AddedNodes, Flat!RemovedNodes
  <1> HIDE DEF ModifiedOnes
  <1>5. \A n \in DOMAIN base \ DOMAIN current : n # Root
    BY DEF NodeSet
  <1>6. \A n \in DOMAIN current \ DOMAIN base : n # Root
    BY DEF NodeSet
  <1>7. AddedSet(base, current) \ {Root}
            = (DOMAIN Hashes(current) \ DOMAIN Hashes(base)) \cup ModifiedOnes
    BY <1>2, <1>3, <1>6 DEF AddedSet
  <1>8. RemovedSet(base, current) \ {Root}
            = (DOMAIN Hashes(base) \ DOMAIN Hashes(current)) \cup ModifiedOnes
    BY <1>2, <1>3, <1>5 DEF RemovedSet
  <1> QED
    BY <1>1, <1>4, <1>7, <1>8

\* A loaded flat tree has the hashes of the one that was saved, and no node
\* below the root is taken for a directory.
LEMMA FlatLoaded ==
  ASSUME NEW tree \in Trees, DOMAIN tree \subseteq FileNames \cup {Root}
  PROVE  AllFiles(loadFromFile(tree)) /\ SameHashes(loadFromFile(tree), tree)
  <1>1. PICK dir \in Directories : tree = buildTree(dir, ClientOrder)
    BY DEF Trees
  <1>2. NodeSet(DOMAIN tree) /\ IsOrder(NameOrder)
    BY NodesOfClient, PathAssumption
  <1>3. ASSUME NEW n \in DOMAIN tree \ {Root} PROVE loadFromFile(tree)[n].isFile
    <2> DEFINE kids == children(DOMAIN tree, n, NameOrder)
    <2>1. n \in Seq(Names) /\ DOMAIN tree \subseteq Seq(Names) /\ Len(n) = 1
      BY <1>2, FlatNames DEF NodeSet
    <2>2. AreKids(kids, DOMAIN tree, n)
      BY <1>2, <2>1, KidsAre
    <2>3. Children(DOMAIN tree, n) = {}
      BY <2>1, FlatNames DEF Children, Root
    <2> HIDE DEF kids
    <2>4. kids \in Seq(DOMAIN tree) /\ ToSet(kids) = {} /\ DOMAIN kids = 1..Len(kids)
          /\ Len(kids) \in Nat
      BY <2>2, <2>3 DEF AreKids
    <2>5. kids = <<>>
      <3>1. DOMAIN kids = {}
        BY <2>4 DEF ToSet
      <3>2. Len(kids) = 0
        BY <2>4, <3>1
      <3> QED
        BY <2>4, <3>2, EmptySeq
    <2>6. loadFromFile(tree)[n] = [tree[n] EXCEPT !.isFile = (kids = <<>>)]
      BY DEF loadFromFile, kids
    <2>7. tree[n] = [hash |-> tree[n].hash, isFile |-> tree[n].isFile]
      BY <1>1 DEF buildTree
    <2> QED
      BY <2>5, <2>6, <2>7
  <1>4. ASSUME NEW n \in DOMAIN tree PROVE loadFromFile(tree)[n].hash = tree[n].hash
    BY <1>1 DEF loadFromFile, buildTree
  <1> QED
    BY <1>3, <1>4, LoadedDomain DEF AllFiles, SameHashes

LEMMA TypedAgreement ==
  ASSUME Typed
  PROVE  AgreesOnFlatTrees
  <1> DEFINE received == Head(toServer).tree
             loaded == loadFromFile(received)
  <1> SUFFICES ASSUME Arrived("tree"), DOMAIN received \subseteq FileNames \cup {Root},
                      NEW flag \in BOOLEAN
               PROVE  LET base == Hashes(IF flag THEN received ELSE Own)
                          current == Hashes(IF flag THEN Own ELSE received)
                      IN  /\ ToSet(Added(flag, received)) \ {Root} = Flat!AddedNodes(base, current)
                          /\ ToSet(Removed(flag, received)) \ {Root}
                                = Flat!RemovedNodes(base, current)
    BY DEF AgreesOnFlatTrees
  <1>1. Compared(received, Head(toServer).ahead) /\ ServerTyped
    BY ArrivedTree DEF Typed
  <1> HIDE DEF received, loaded
  <1>2. NodeSet(DOMAIN loaded) /\ NodeSet(DOMAIN Own) /\ IsOrder(ServerOrder) /\ IsOrder(ClientOrder)
    BY <1>1, UploadAssumption DEF Compared, loaded
  <1>3. AllFiles(loaded) /\ SameHashes(loaded, received)
    BY <1>1, FlatLoaded DEF Compared, loaded
  <1>4. AllFiles(Own)
    BY <1>1, OwnNode DEF Compared, AllFiles
  <1>5. Hashes(loaded) = Hashes(received)
    BY <1>3 DEF Hashes, SameHashes
  <1>6. CASE flag
    <2>1. /\ Added(flag, received) = addedNodes(loaded, Own, ServerOrder)
          /\ Removed(flag, received) = removedNodes(loaded, Own, ClientOrder)
      BY <1>6 DEF Added, Removed, loaded
    <2>2. /\ ToSet(addedNodes(loaded, Own, ServerOrder)) \ {Root}
                 = Flat!AddedNodes(Hashes(loaded), Hashes(Own))
          /\ ToSet(removedNodes(loaded, Own, ClientOrder)) \ {Root}
                 = Flat!RemovedNodes(Hashes(loaded), Hashes(Own))
      BY <1>2, <1>4, FlatReports
    <2> QED
      BY <1>5, <1>6, <2>1, <2>2
  <1>7. CASE ~ flag
    <2>1. /\ Added(flag, received) = addedNodes(Own, loaded, ClientOrder)
          /\ Removed(flag, received) = removedNodes(Own, loaded, ServerOrder)
      BY <1>7 DEF Added, Removed, loaded
    <2>2. /\ ToSet(addedNodes(Own, loaded, ClientOrder)) \ {Root}
                 = Flat!AddedNodes(Hashes(Own), Hashes(loaded))
          /\ ToSet(removedNodes(Own, loaded, ServerOrder)) \ {Root}
                 = Flat!RemovedNodes(Hashes(Own), Hashes(loaded))
      BY <1>2, <1>3, FlatReports
    <2> QED
      BY <1>5, <1>7, <2>1, <2>2
  <1> QED
    BY <1>6, <1>7

\* On flat directories the recursive comparison is the set difference that
\* Workspace, and with it Sync, has in its place.
THEOREM FlatComparison == Spec => []AgreesOnFlatTrees
  <1>1. Typed => AgreesOnFlatTrees
    BY TypedAgreement
  <1> QED
    BY <1>1, AlwaysTyped, PTL

-----------------------------------------------------------------------------
(* The exchange as an invariant.  Connected and Measured are inductive by  *)
(* themselves; Dialogue is relative to them.                               *)

\* Who is still there.
Connected ==
    /\ ~ link => client = "dead" \/ ~ running
    /\ ~ running => handler = "closed"
    /\ client = "dead" \/ handler = "closed" => ~ link

\* How the open file differs from what was announced and what was sent.
Measured ==
    /\ Len(opened.data) > opened.size => "grown" \in mishaps \/ opened.data = <<>>
    /\ Len(opened.data) < opened.size => mishaps \cap {"directory", "shrunk"} # {}
    /\ opened.sent > opened.size => "grown" \in mishaps \/ opened.sent = 0
    /\ "grown" \in mishaps => "rewritten" \in mishaps
    /\ "rewritten" \notin mishaps =>
           /\ opened.sent <= Len(opened.data)
           /\ Len(opened.data) = opened.size \/ opened.data = <<>>

LEMMA InitConnected ==
  ASSUME Init
  PROVE  Connected /\ Measured
  <1>1. Connected
    BY DEF Init, Connected
  <1>2. opened.data = <<>> /\ opened.size = 0 /\ opened.sent = 0 /\ mishaps = {} /\ Len(<<>>) = 0
    BY DEF Init, Nothing
  <1>3. Measured
    BY <1>2 DEF Measured
  <1> QED
    BY <1>1, <1>3

LEMMA StepConnected ==
  ASSUME Typed, Connected, [Next]_vars
  PROVE  Connected'
  <1>1. CASE ServerStep \/ BrokenPipe
    <2>1. CASE Terminate
      BY <2>1 DEF Terminate, Connected
    <2>2. CASE ~ Terminate
      <3>1. UNCHANGED <<running, client, link>>
        BY <1>1, <2>2 DEF ServerStep, CheckVersion, TreeReception, NoSync, Request,
           ReceiveFileHeader, ReceiveBlock, ReceiveTornFile, ConfirmFile, SkipFile,
           UpdateHash, CloseConnection, ParseError, BuildTreeThrows, BrokenPipe,
           serverVars, clientVars, netVars
      <3>2. handler # "closed"
        BY <1>1, <2>2 DEF ServerStep, CheckVersion, TreeReception, NoSync, Request,
           ReceiveFileHeader, ReceiveBlock, ReceiveTornFile, ConfirmFile, SkipFile,
           UpdateHash, CloseConnection, ParseError, BuildTreeThrows, BrokenPipe
      <3>3. handler' = "closed" => ~ link
        <4>1. CASE CloseConnection
          BY <4>1 DEF CloseConnection, Ended
        <4>2. CASE ~ CloseConnection
          BY <1>1, <2>2, <3>2, <4>2 DEF ServerStep, CheckVersion, TreeReception, NoSync,
             Request, ReceiveFileHeader, ReceiveBlock, ReceiveTornFile, ConfirmFile,
             SkipFile, UpdateHash, ParseError, BuildTreeThrows, BrokenPipe,
             NextFile, GoTo, serverVars
        <4> QED
          BY <4>1, <4>2
      <3> QED
        BY <3>1, <3>2, <3>3 DEF Connected
    <2> QED
      BY <2>1, <2>2
  <1>2. CASE ClientStep \/ ClientBrokenPipe \/ KillClient
    <2>1. UNCHANGED <<running, handler>>
      BY <1>2 DEF ClientStep, ClientBrokenPipe, KillClient, InitiateSync, OnLatest,
         OnNotLatest, LocalTreeThrows, OnTreeConfirmation, OnNoSyncNeeded, OpenFile,
         OpenFails, SendBlock, EndOfFile, OnFileConfirmation, OnClosed, serverVars
    <2>2. CASE Dies
      BY <2>1, <2>2 DEF Dies, Connected
    <2>3. CASE ~ Dies
      <3>1. link' = link
        BY <1>2, <2>3 DEF ClientStep, ClientBrokenPipe, KillClient, InitiateSync, OnLatest,
           OnNotLatest, LocalTreeThrows, OnTreeConfirmation, OnNoSyncNeeded, OpenFile,
           OpenFails, SendBlock, EndOfFile, OnFileConfirmation, OnClosed, netVars
      <3>2. client # "dead" /\ client' # "dead"
        BY <1>2, <2>3 DEF ClientStep, ClientBrokenPipe, KillClient, InitiateSync, OnLatest,
           OnNotLatest, LocalTreeThrows, OnTreeConfirmation, OnNoSyncNeeded, OpenFile,
           OpenFails, SendBlock, EndOfFile, OnFileConfirmation, OnClosed, Requested,
           Finished, FileDone, Awaiting
      <3> QED
        BY <2>1, <3>1, <3>2 DEF Connected
    <2> QED
      BY <2>2, <2>3
  <1>3. CASE User \/ UNCHANGED vars
    <2>1. UNCHANGED <<running, handler, client, link>>
      BY <1>3 DEF User, Replace, Overwrite, Delete, MakeDirectory, Edit, vars, serverVars,
         clientVars, netVars
    <2> QED
      BY <2>1 DEF Connected
  <1> QED
    BY <1>1, <1>2, <1>3 DEF Next, Environment

\* The fields a step of the client or the user leaves the open file with.
SameMeasures ==
    /\ opened'.data = opened.data /\ opened'.size = opened.size /\ opened'.sent = opened.sent
    /\ mishaps \subseteq mishaps'
    /\ "grown" \in mishaps' => "grown" \in mishaps
    /\ "rewritten" \in mishaps' => "rewritten" \in mishaps

LEMMA MeasuresStay ==
  ASSUME Measured, SameMeasures
  PROVE  Measured'
  <1>1. mishaps \cap {"directory", "shrunk"} # {} => mishaps' \cap {"directory", "shrunk"} # {}
    BY DEF SameMeasures
  <1> QED
    BY <1>1 DEF Measured, SameMeasures

LEMMA NothingMeasured ==
  ASSUME Measured, opened' = Nothing,
         "grown" \in mishaps' => "grown" \in mishaps,
         mishaps \subseteq mishaps'
  PROVE  Measured'
  <1>1. opened'.data = <<>> /\ opened'.size = 0 /\ opened'.sent = 0 /\ Len(<<>>) = 0
    BY DEF Nothing
  <1> QED
    BY <1>1 DEF Measured

LEMMA StepMeasured ==
  ASSUME Typed, Measured, [Next]_vars
  PROVE  Measured'
  <1>1. CASE ServerStep \/ BrokenPipe \/ UNCHANGED vars
    <2>1. UNCHANGED <<opened, mishaps>>
      BY <1>1 DEF ServerStep, CheckVersion, TreeReception, NoSync, Request,
         ReceiveFileHeader, ReceiveBlock, ReceiveTornFile, ConfirmFile, SkipFile,
         UpdateHash, CloseConnection, ParseError, BuildTreeThrows, BrokenPipe, Terminate,
         clientVars, vars
    <2> QED
      BY <2>1, MeasuresStay DEF SameMeasures
  <1>2. CASE \/ InitiateSync \/ OnNotLatest \/ OnTreeConfirmation \/ EndOfFile
    <2>1. UNCHANGED <<opened, mishaps>>
      BY <1>2 DEF InitiateSync, OnNotLatest, OnTreeConfirmation, EndOfFile
    <2> QED
      BY <2>1, MeasuresStay DEF SameMeasures
  <1>3. CASE \/ OnLatest \/ LocalTreeThrows \/ OnNoSyncNeeded \/ OnClosed \/ OpenFails
             \/ OnFileConfirmation \/ ClientBrokenPipe \/ KillClient
    <2>1. opened' = Nothing
      BY <1>3 DEF OnLatest, LocalTreeThrows, OnNoSyncNeeded, OnClosed, OpenFails,
         OnFileConfirmation, ClientBrokenPipe, KillClient, Finished, FileDone, Dies
    <2>2. mishaps' = mishaps \/ mishaps' = mishaps \cup {"missing"}
      BY <1>3 DEF OnLatest, LocalTreeThrows, OnNoSyncNeeded, OnClosed, OpenFails,
         OnFileConfirmation, ClientBrokenPipe, KillClient
    <2> QED
      BY <2>1, <2>2, NothingMeasured
  <1>4. CASE OpenFile
    <2> DEFINE path == Head(toClient).path
    <2>1. /\ path \in DOMAIN localDir
          /\ \E size \in IF localDir[path] = Dir THEN DirectorySizes
                                                 ELSE {Len(localDir[path])} :
               /\ opened' = [path |-> path, size |-> size, sent |-> 0, linked |-> TRUE,
                             data |-> IF localDir[path] = Dir THEN <<>> ELSE localDir[path]]
               /\ mishaps' = IF size > Len(opened'.data) THEN mishaps \cup {"directory"}
                                                         ELSE mishaps
      BY <1>4 DEF OpenFile
    <2> HIDE DEF path
    <2>2. PICK size \in IF localDir[path] = Dir THEN DirectorySizes ELSE {Len(localDir[path])} :
            /\ opened' = [path |-> path, size |-> size, sent |-> 0, linked |-> TRUE,
                          data |-> IF localDir[path] = Dir THEN <<>> ELSE localDir[path]]
            /\ mishaps' = IF size > Len(opened'.data) THEN mishaps \cup {"directory"}
                                                      ELSE mishaps
      BY <2>1
    <2>3. size \in Int
      BY <2>1, Opening DEF Typed
    <2>4. opened'.size = size /\ opened'.sent = 0
          /\ (opened'.data = <<>> \/ (opened'.data = localDir[path] /\ size = Len(localDir[path])))
      BY <2>2
    <2>5. opened'.data = <<>> \/ Len(opened'.data) = size
      BY <2>4
    <2>6. Len(opened'.data) \in Nat
      <3>1. ClientTyped'
        BY <1>4, OpenFileTyped DEF Typed
      <3>2. opened' \in OpenFiles
        BY <3>1, ClientConstants DEF ClientTyped
      <3>3. opened'.data \in Versions \cup {<<>>}
        BY <3>2 DEF OpenFiles
      <3>4. <<>> \in Seq(Blocks)
        OBVIOUS
      <3>5. opened'.data \in Seq(Blocks)
        BY <3>3, <3>4, UploadAssumption
      <3> QED
        BY <3>5, LenProperties
    <2>7. size > Len(opened'.data) => "directory" \in mishaps'
      BY <2>2
    <2>8. /\ "grown" \in mishaps' => "grown" \in mishaps
          /\ "rewritten" \in mishaps' <=> "rewritten" \in mishaps
          /\ "grown" \in mishaps' => "rewritten" \in mishaps'
      BY <2>2 DEF Measured
    <2>9. Len(opened'.data) < size => "directory" \in mishaps'
      BY <2>3, <2>6, <2>7
    <2>10. ~ (Len(opened'.data) > size) \/ opened'.data = <<>>
      BY <2>3, <2>5
    <2>11. opened'.sent <= Len(opened'.data)
      BY <2>4, <2>6
    <2> QED
      BY <2>4, <2>5, <2>8, <2>9, <2>10, <2>11 DEF Measured
  <1>5. CASE SendBlock
    <2>1. /\ opened' = [opened EXCEPT !.sent = @ + 1] /\ opened.sent < Len(opened.data)
          /\ mishaps' = mishaps
      BY <1>5 DEF SendBlock
    <2>2. opened \in OpenFiles /\ ClientTyped
      BY DEF Typed, ClientTyped
    <2>3. /\ opened'.data = opened.data /\ opened'.size = opened.size
          /\ opened'.sent = opened.sent + 1
      BY <2>1, <2>2 DEF OpenFiles
    <2>4. /\ opened.sent \in Nat /\ opened.size \in Int /\ Len(opened.data) \in Nat
          /\ opened.data = <<>> <=> Len(opened.data) = 0
      BY <2>2, OpenedData
    <2>5. opened.sent + 1 > opened.size => Len(opened.data) > opened.size
      BY <2>1, <2>4
    <2>6. opened.data # <<>> /\ opened.sent + 1 <= Len(opened.data)
      BY <2>1, <2>4
    <2> QED
      BY <2>1, <2>3, <2>5, <2>6 DEF Measured
  <1>6. CASE User
    <2>1. opened \in OpenFiles
      BY DEF Typed, ClientTyped
    <2>2. CASE Replace \/ Delete \/ MakeDirectory
      <3>1. mishaps' = mishaps /\ (opened' = opened \/ opened' = [opened EXCEPT !.linked = FALSE])
        BY <2>2 DEF Replace, Delete, MakeDirectory, Unlink
      <3>2. SameMeasures
        BY <2>1, <3>1 DEF SameMeasures, OpenFiles
      <3> QED
        BY <3>2, MeasuresStay
    <2>3. CASE Overwrite
      <3>1. CASE UNCHANGED <<opened, mishaps>>
        BY <3>1, MeasuresStay DEF SameMeasures
      <3>2. CASE ~ UNCHANGED <<opened, mishaps>>
        <4>1. PICK c \in Versions :
                /\ opened' = [opened EXCEPT !.data = c]
                /\ mishaps' = mishaps \cup {"rewritten"}
                       \cup (IF Len(c) > opened.size THEN {"grown"} ELSE {})
                       \cup (IF Len(c) < opened.size THEN {"shrunk"} ELSE {})
          BY <2>3, <3>2 DEF Overwrite
        <4>2. /\ opened'.data = c /\ opened'.size = opened.size /\ opened'.sent = opened.sent
          BY <2>1, <4>1 DEF OpenFiles
        <4>3. /\ Len(c) > opened.size => "grown" \in mishaps'
              /\ Len(c) < opened.size => "shrunk" \in mishaps'
              /\ "rewritten" \in mishaps' /\ mishaps \subseteq mishaps'
          BY <4>1
        <4> QED
          BY <4>2, <4>3 DEF Measured
      <3> QED
        BY <3>1, <3>2
    <2> QED
      BY <1>6, <2>2, <2>3 DEF User
  <1> QED
    BY <1>1, <1>2, <1>3, <1>4, <1>5, <1>6 DEF Next, ClientStep, Environment

-----------------------------------------------------------------------------
\* Bytes of a file where the server is to receive a message.
Doomed ==
    /\ "grown" \in mishaps
    /\ Arrived("block")
    /\ \/ handler = "confirm_file" /\ toClient = <<>>
       \/ handler = "rehash" /\ toClient \in {<<>>, <<Answer("confirmation")>>}
       \/ handler \in {"request", "await_file", "poll"}

ToCome == Len(addedFiles)

\* The server waits for a file that the client could not open.
Stuck == handler = "await_file" /\ "missing" \in mishaps

Free == handler \in {"poll", "rehash"} \/ (Stuck /\ ToCome = 0)

Idle == toServer = <<>> /\ toClient = <<>> /\ Free

Checking ==
    \/ (\E hash : toServer = <<CheckLatest(hash)>>) /\ toClient = <<>> /\ Free
    \/ /\ toServer = <<>> /\ handler = "poll"
       /\ toClient = <<Answer("latest")>> \/ \E flag : toClient = <<NotLatest(flag)>>
    \/ /\ toServer = <<>> /\ toClient = <<>>
       /\ handler \in {"poll", "rehash"} /\ "missing" \in mishaps

\* The server, at this point with n nodes left, has answered so much, and k
\* files are to be sent after that.
Goes(answers, k, point, n) ==
    \/ answers = <<>> /\ point = "request" /\ n = k
    \/ (\E path : answers = <<RequestFile(path, k)>>) /\ point = "await_file" /\ n = k - 1

Answered(answers, point, n) ==
    \/ answers = <<>> /\ point = "no_sync"
    \/ answers = <<Answer("no_sync_needed")>> /\ point = "poll"
    \/ \E k \in Nat \ {0} : Goes(answers, k, point, n)

Confirmed == toClient # <<>> /\ Head(toClient) = Answer("confirmation")

TreeSent ==
    \/ (\E flag : toServer = <<Tree(flag, sentTree)>>) /\ toClient = <<>> /\ handler = "poll"
    \/ toServer = <<>> /\ Confirmed /\ Answered(Tail(toClient), handler, ToCome)

NextDue ==
    /\ toServer = <<>>
    /\ \/ Goes(toClient, remaining, handler, ToCome)
       \/ toClient = <<>> /\ Stuck /\ ToCome = remaining

\* What is under way of a file of which so much has been stored.
Underway(blocks, got, file, exact) ==
    /\ Len(blocks) = file.sent - got
    /\ \A i \in 1..Len(blocks) :
           /\ blocks[i].type = "block"
           /\ exact => blocks[i].block = file.data[got + i]

Exact == "rewritten" \notin mishaps

Arriving ==
    /\ incoming.name = <<Last(opened.path)>>
    /\ incoming.size = opened.size
    /\ incoming.got <= opened.sent
    /\ Exact => files[incoming.name] = SubSeq(opened.data, 1, incoming.got)

\* The metadata, the chunks, and all there is of the file have to be received.
HeaderDue ==
    /\ handler = "await_file" /\ toClient = <<>> /\ ToCome = remaining - 1
    /\ toServer # <<>> /\ Head(toServer) = FileHeader(opened.path, opened.size)
    /\ Underway(Tail(toServer), 0, opened, Exact)

DataDue ==
    /\ handler = "file_data" /\ toClient = <<>> /\ ToCome = remaining - 1
    /\ Arriving /\ incoming.got < opened.size
    /\ Underway(toServer, incoming.got, opened, Exact)

Stored ==
    /\ handler = "confirm_file" /\ toClient = <<>> /\ ToCome = remaining - 1
    /\ toServer = <<>>
    /\ Arriving /\ incoming.got = opened.sent /\ opened.sent >= opened.size

\* The file is confirmed, and the server may be ahead by the next request.
Over ==
    /\ toServer = <<>> /\ Confirmed /\ opened.sent >= opened.size
    /\ \/ remaining > 1 /\ Goes(Tail(toClient), remaining - 1, handler, ToCome)
       \/ remaining = 1 /\ Tail(toClient) = <<>> /\ handler \in {"poll", "rehash"}

Sending == opened.path # Root /\ (HeaderDue \/ DataDue \/ Stored \/ Over)

Exchange ==
    /\ client = "idle" => Idle
    /\ client = "await_latest" => Checking
    /\ client = "await_conf" => TreeSent
    /\ client = "await_response" => toServer = <<>> /\ Answered(toClient, handler, ToCome)
    /\ client = "await_next" => NextDue
    /\ client = "sending" => Sending
    /\ client = "await_fconf" => Sending /\ opened.sent >= Len(opened.data)

Dialogue == link => Doomed \/ Exchange

LEMMA OneMessage ==
  \A m : <<m>> # <<>> /\ Head(<<m>>) = m /\ Tail(<<m>>) = <<>> /\ <<>> \o <<m>> = <<m>>
         /\ Len(<<m>>) = 1
  OBVIOUS

LEMMA HeadStays ==
  ASSUME NEW S, NEW s \in Seq(S), s # <<>>, NEW m \in S
  PROVE  /\ s \o <<m>> # <<>> /\ Head(s \o <<m>>) = Head(s)
         /\ Tail(s \o <<m>>) = Tail(s) \o <<m>>
  <1>1. Len(s) \in Nat /\ Len(s) # 0
    BY EmptySeq, LenProperties
  <1> DEFINE t == s \o <<m>>
  <1>2. /\ t \in Seq(S) /\ Len(t) = Len(s) + 1
        /\ \A i \in 1..Len(s) : t[i] = s[i]
        /\ t[Len(s) + 1] = m
    BY Sent
  <1>3. /\ Tail(s) \in Seq(S) /\ Len(Tail(s)) = Len(s) - 1
        /\ \A i \in 1..Len(s) - 1 : Tail(s)[i] = s[i + 1]
    BY HeadTailProperties
  <1> DEFINE u == Tail(s) \o <<m>>
  <1>4. /\ u \in Seq(S) /\ Len(u) = Len(s)
        /\ \A i \in 1..Len(s) - 1 : u[i] = s[i + 1]
        /\ u[Len(s)] = m
    <2>1. /\ u \in Seq(S) /\ Len(u) = Len(Tail(s)) + 1
          /\ \A i \in 1..Len(Tail(s)) : u[i] = Tail(s)[i]
          /\ u[Len(Tail(s)) + 1] = m
      BY <1>3, Sent
    <2> HIDE DEF u
    <2>2. Len(Tail(s)) + 1 = Len(s)
      BY <1>1, <1>3
    <2> QED
      BY <1>3, <2>1, <2>2
  <1> HIDE DEF t, u
  <1>5. t # <<>>
    BY <1>1, <1>2, EmptySeq
  <1>6. /\ Head(t) = t[1] /\ Tail(t) \in Seq(S) /\ Len(Tail(t)) = Len(s)
        /\ \A i \in 1..Len(s) : Tail(t)[i] = t[i + 1]
    <2>1. Tail(t) \in Seq(S) /\ Len(Tail(t)) = Len(t) - 1
          /\ \A i \in 1..Len(t) - 1 : Tail(t)[i] = t[i + 1]
      BY <1>2, <1>5, HeadTailProperties
    <2>2. Len(t) - 1 = Len(s)
      BY <1>1, <1>2
    <2>3. Head(t) = t[1]
      OBVIOUS
    <2> QED
      BY <2>1, <2>2, <2>3
  <1>7. Head(s) = s[1] /\ 1 \in 1..Len(s)
    BY <1>1
  <1>8. \A i \in 1..Len(s) : Tail(t)[i] = u[i]
    <2> SUFFICES ASSUME NEW i \in 1..Len(s) PROVE Tail(t)[i] = u[i]
      OBVIOUS
    <2>1. CASE i = Len(s)
      BY <1>2, <1>4, <1>6, <2>1
    <2>2. CASE i # Len(s)
      <3>1. i \in 1..Len(s) - 1 /\ i + 1 \in 1..Len(s)
        BY <1>1, <2>2
      <3> QED
        BY <1>2, <1>4, <1>6, <3>1
    <2> QED
      BY <2>1, <2>2
  <1>9. Tail(t) = u
    BY <1>4, <1>6, <1>8, SeqEqual
  <1> QED
    BY <1>2, <1>5, <1>6, <1>7, <1>9 DEF t, u

LEMMA MessageTypes ==
  /\ \A hash : CheckLatest(hash).type = "check_latest"
  /\ \A flag, tree : Tree(flag, tree).type = "tree" /\ Tree(flag, tree).tree = tree
                     /\ Tree(flag, tree).ahead = flag
  /\ \A name, size : FileHeader(name, size).type = "file_transfer"
                     /\ FileHeader(name, size).name = name /\ FileHeader(name, size).size = size
  /\ \A block : Block(block).type = "block" /\ Block(block).block = block
  /\ \A type : Answer(type).type = type
  /\ \A flag : NotLatest(flag).type = "not_latest" /\ NotLatest(flag).ahead = flag
  /\ \A path, n : RequestFile(path, n).type = "request_file"
                  /\ RequestFile(path, n).remaining = n /\ RequestFile(path, n).path = path
  BY DEF CheckLatest, Tree, FileHeader, Block, Answer, NotLatest, RequestFile

\* Where the thread is determines what it does while the connection is up.
LEMMA HandlerStep ==
  ASSUME ServerStep, link, link'
  PROVE  /\ handler = "poll" => CheckVersion \/ TreeReception
         /\ handler = "no_sync" => NoSync
         /\ handler = "request" => Request
         /\ handler = "await_file" => ReceiveFileHeader \/ (SkipFile /\ Arrived("check_latest"))
         /\ handler = "file_data" => ReceiveBlock
         /\ handler = "confirm_file" => ConfirmFile
         /\ handler = "rehash" => UpdateHash
         /\ handler # "closed"
  BY DEF ServerStep, CheckVersion, TreeReception, NoSync, Request, ReceiveFileHeader,
     ReceiveBlock, ReceiveTornFile, ConfirmFile, SkipFile, UpdateHash, CloseConnection,
     ParseError, BuildTreeThrows, Terminate, Ended

LEMMA ServerLeaves ==
  ASSUME ServerStep
  PROVE  UNCHANGED <<client, sentTree, opened, remaining, mishaps>>
  BY DEF ServerStep, CheckVersion, TreeReception, NoSync, Request, ReceiveFileHeader,
     ReceiveBlock, ReceiveTornFile, ConfirmFile, SkipFile, UpdateHash, CloseConnection,
     ParseError, BuildTreeThrows, Terminate, clientVars

LEMMA ToComeTyped ==
  ASSUME ServerTyped
  PROVE  ToCome \in Nat /\ (ToCome = 0 <=> addedFiles = <<>>)
  BY EmptySeq, LenProperties DEF ServerTyped, ToCome

LEMMA DoomedServer ==
  ASSUME ServerStep, link, link', Doomed
  PROVE  Doomed'
  <1>1. "grown" \in mishaps' /\ toServer # <<>> /\ Head(toServer).type = "block"
    BY ServerLeaves DEF Doomed, Arrived
  <1>2. CASE handler = "confirm_file"
    <2>1. ConfirmFile /\ toClient = <<>>
      BY <1>2, HandlerStep DEF Doomed
    <2>2. toServer' = toServer /\ handler' \in {"rehash", "request"}
      BY <2>1 DEF ConfirmFile, NextFile, GoTo
    <2>3. toClient' = <<Answer("confirmation")>>
      BY <2>1, OneMessage DEF ConfirmFile, Reply
    <2> QED
      BY <1>1, <2>2, <2>3 DEF Doomed, Arrived
  <1>3. CASE handler = "rehash"
    <2>1. UpdateHash
      BY <1>3, HandlerStep
    <2> QED
      BY <1>1, <2>1 DEF UpdateHash, GoTo, Doomed, Arrived, netVars
  <1>4. CASE handler = "request"
    <2>1. Request
      BY <1>4, HandlerStep
    <2> QED
      BY <1>1, <2>1 DEF Request, GoTo, Doomed, Arrived
  <1>5. CASE handler \in {"await_file", "poll"}
    BY <1>1, <1>5, HandlerStep DEF ReceiveFileHeader, SkipFile, CheckVersion,
       TreeReception, Arrived
  <1> QED
    BY <1>2, <1>3, <1>4, <1>5 DEF Doomed

LEMMA IdleServer ==
  ASSUME ServerStep, link, link', Idle
  PROVE  Idle'
  <1>1. handler = "rehash"
    BY HandlerStep DEF Idle, Free, Stuck, CheckVersion, TreeReception, ReceiveFileHeader, Arrived
  <1>2. UpdateHash
    BY <1>1, HandlerStep
  <1> QED
    BY <1>2 DEF UpdateHash, GoTo, netVars, Idle, Free

LEMMA CheckingServer ==
  ASSUME ServerTyped, ServerStep, link, link', Checking
  PROVE  Checking'
  <1>1. CASE (\E hash : toServer = <<CheckLatest(hash)>>) /\ toClient = <<>> /\ Free
    <2>1. Head(toServer).type = "check_latest" /\ Tail(toServer) = <<>>
      BY <1>1, OneMessage, MessageTypes
    <2>2. CASE handler = "poll"
      <3>1. CheckVersion
        BY <2>1, <2>2, HandlerStep DEF TreeReception, Arrived
      <3>2. toServer' = <<>> /\ handler' = "poll"
        BY <2>1, <2>2, <3>1 DEF CheckVersion, Receive, serverVars
      <3>3. \/ toClient' = <<>> \o <<Answer("latest")>>
            \/ \E flag : toClient' = <<>> \o <<NotLatest(flag)>>
        BY <1>1, <3>1 DEF CheckVersion, Reply
      <3>4. toClient' = <<Answer("latest")>> \/ \E flag : toClient' = <<NotLatest(flag)>>
        BY <3>3, OneMessage
      <3> QED
        BY <3>2, <3>4 DEF Checking
    <2>3. CASE handler = "rehash"
      <3>1. UpdateHash
        BY <2>3, HandlerStep
      <3>2. handler' = "poll" /\ UNCHANGED <<toServer, toClient>>
        BY <3>1 DEF UpdateHash, GoTo, netVars
      <3> QED
        BY <1>1, <3>2 DEF Checking, Free
    <2>4. CASE Stuck /\ ToCome = 0
      <3>1. SkipFile
        BY <2>1, <2>4, HandlerStep DEF Stuck, ReceiveFileHeader, Arrived
      <3>2. addedFiles = <<>>
        BY <2>4, ToComeTyped
      <3>3. handler' = "rehash" /\ toServer' = <<>> /\ toClient' = <<>> /\ "missing" \in mishaps'
        BY <1>1, <2>1, <2>4, <3>1, <3>2 DEF SkipFile, NextFile, GoTo, Receive, Ended, Stuck
      <3> QED
        BY <3>3 DEF Checking
    <2> QED
      BY <1>1, <2>2, <2>3, <2>4 DEF Free
  <1>2. CASE toServer = <<>>
    <2>1. handler = "rehash"
      BY <1>1, <1>2, HandlerStep, OneMessage
         DEF Checking, CheckVersion, TreeReception, Arrived
    <2>2. UpdateHash
      BY <2>1, HandlerStep
    <2>3. handler' = "poll" /\ UNCHANGED <<toServer, toClient, mishaps>>
      BY <2>2 DEF UpdateHash, GoTo, netVars
    <2>4. toClient = <<>> /\ "missing" \in mishaps
      BY <1>1, <1>2, <2>1, OneMessage DEF Checking
    <2> QED
      BY <1>2, <2>3, <2>4 DEF Checking
  <1> QED
    BY <1>1, <1>2 DEF Checking

\* What remains to be sent goes on.
LEMMA GoesServer ==
  ASSUME Typed, ServerStep, link, link', toServer = <<>>, NEW answers, NEW k \in Nat \ {0},
         Goes(answers, k, handler, ToCome)
  PROVE  \E m \in ClientBound :
             /\ toServer' = <<>> /\ toClient' = toClient \o <<m>>
             /\ answers = <<>> /\ Goes(<<m>>, k, handler', ToCome')
  <1>1. handler = "request"
    BY HandlerStep DEF Goes, ReceiveFileHeader, Arrived
  <1>2. Request /\ answers = <<>> /\ ToCome = k
    BY <1>1, HandlerStep DEF Goes
  <1> DEFINE m == RequestFile(Head(addedFiles), Len(addedFiles))
  <1>3. addedFiles \in Seq(Requestable) /\ addedFiles # <<>>
    BY <1>1 DEF Typed, ServerTyped
  <1>4. m \in ClientBound
    <2>1. Head(addedFiles) \in Requestable
      BY <1>3, Received
    <2>2. Len(addedFiles) \in Nat \ {0}
      BY <1>2 DEF ToCome
    <2> QED
      BY <2>1, <2>2, Answers
  <1>5. Len(Tail(addedFiles)) = k - 1
    BY <1>2, <1>3, Received DEF ToCome
  <1>6. /\ toServer' = <<>> /\ toClient' = toClient \o <<m>>
        /\ handler' = "await_file" /\ ToCome' = k - 1
    BY <1>2, <1>5 DEF Request, Reply, GoTo, ToCome
  <1>7. \E path : <<m>> = <<RequestFile(path, k)>>
    BY <1>2 DEF ToCome
  <1>8. Goes(<<m>>, k, handler', ToCome')
    BY <1>6, <1>7 DEF Goes
  <1> QED
    BY <1>2, <1>4, <1>6, <1>8

LEMMA AnsweredServer ==
  ASSUME Typed, ServerStep, link, link', toServer = <<>>, NEW answers,
         Answered(answers, handler, ToCome)
  PROVE  \E m \in ClientBound :
             /\ toServer' = <<>> /\ toClient' = toClient \o <<m>>
             /\ answers = <<>> /\ Answered(<<m>>, handler', ToCome')
  <1>1. CASE handler = "no_sync"
    <2>1. NoSync /\ answers = <<>>
      BY <1>1, HandlerStep DEF Answered, Goes
    <2>2. /\ toServer' = <<>> /\ toClient' = toClient \o <<Answer("no_sync_needed")>>
          /\ handler' = "poll"
      BY <2>1 DEF NoSync, Reply, GoTo
    <2>3. Answer("no_sync_needed") \in ClientBound
      BY Answers
    <2> QED
      BY <2>1, <2>2, <2>3 DEF Answered
  <1>2. CASE handler # "no_sync"
    <2>1. handler # "poll"
      BY HandlerStep DEF CheckVersion, TreeReception, Arrived
    <2>2. PICK k \in Nat \ {0} : Goes(answers, k, handler, ToCome)
      BY <1>2, <2>1 DEF Answered
    <2>3. PICK m \in ClientBound :
             /\ toServer' = <<>> /\ toClient' = toClient \o <<m>>
             /\ answers = <<>> /\ Goes(<<m>>, k, handler', ToCome')
      BY <2>2, GoesServer
    <2>4. Answered(<<m>>, handler', ToCome')
      BY <2>2, <2>3 DEF Answered
    <2> QED
      BY <2>3, <2>4
  <1> QED
    BY <1>1, <1>2

\* A message is appended to what follows the confirmation.
LEMMA AfterConfirmation ==
  ASSUME Typed, Confirmed, Tail(toClient) = <<>>, NEW m \in ClientBound,
         toClient' = toClient \o <<m>>
  PROVE  Confirmed' /\ Tail(toClient') = <<m>>
  <1>1. toClient \in Seq(ClientBound) /\ toClient # <<>>
    BY DEF Typed, NetTyped, Confirmed
  <1>2. /\ toClient' # <<>> /\ Head(toClient') = Head(toClient)
        /\ Tail(toClient') = Tail(toClient) \o <<m>>
    BY <1>1, HeadStays
  <1>3. Tail(toClient') = <<m>>
    BY <1>2, OneMessage
  <1> QED
    BY <1>2, <1>3 DEF Confirmed

LEMMA TreeSentServer ==
  ASSUME Typed, ServerStep, link, link', TreeSent
  PROVE  TreeSent'
  <1>1. CASE (\E flag : toServer = <<Tree(flag, sentTree)>>) /\ toClient = <<>> /\ handler = "poll"
    <2>1. Head(toServer).type = "tree" /\ Tail(toServer) = <<>>
      BY <1>1, OneMessage, MessageTypes
    <2>2. TreeReception
      BY <1>1, <2>1, HandlerStep DEF CheckVersion, Arrived
    <2>3. /\ toServer' = <<>> /\ toClient' = <<Answer("confirmation")>>
          /\ handler' = IF addedFiles' = <<>> THEN "no_sync" ELSE "request"
      BY <1>1, <2>1, <2>2, OneMessage DEF TreeReception, Receive, Reply, GoTo
    <2>4. Confirmed' /\ Tail(toClient') = <<>>
      BY <2>3, OneMessage DEF Confirmed
    <2>5. ToCome' \in Nat /\ (ToCome' = 0 <=> addedFiles' = <<>>)
      <3>1. ServerTyped'
        BY <2>2, TreeReceptionTyped DEF Typed
      <3>2. addedFiles' \in Seq(Requestable)
        BY <3>1 DEF ServerTyped, Requestable
      <3> QED
        BY <3>2, EmptySeq, LenProperties DEF ToCome
    <2>6. Answered(<<>>, handler', ToCome')
      <3>1. CASE addedFiles' = <<>>
        BY <2>3, <3>1 DEF Answered
      <3>2. CASE addedFiles' # <<>>
        <4>1. ToCome' \in Nat \ {0} /\ handler' = "request"
          BY <2>3, <2>5, <3>2
        <4>2. Goes(<<>>, ToCome', handler', ToCome')
          BY <4>1 DEF Goes
        <4> QED
          BY <4>1, <4>2 DEF Answered
      <3> QED
        BY <3>1, <3>2
    <2> QED
      BY <2>3, <2>4, <2>6 DEF TreeSent
  <1>2. CASE toServer = <<>> /\ Confirmed /\ Answered(Tail(toClient), handler, ToCome)
    <2>1. PICK m \in ClientBound :
             /\ toServer' = <<>> /\ toClient' = toClient \o <<m>>
             /\ Tail(toClient) = <<>> /\ Answered(<<m>>, handler', ToCome')
      BY <1>2, AnsweredServer
    <2>2. Confirmed' /\ Tail(toClient') = <<m>>
      BY <1>2, <2>1, AfterConfirmation
    <2> QED
      BY <2>1, <2>2 DEF TreeSent
  <1> QED
    BY <1>1, <1>2 DEF TreeSent

LEMMA NextDueServer ==
  ASSUME Typed, ServerStep, link, link', NextDue
  PROVE  NextDue'
  <1>1. remaining \in Nat \ {0} /\ remaining' = remaining
    BY ServerLeaves DEF Typed, ClientTyped
  <1>2. ~ Stuck
    BY HandlerStep DEF NextDue, Stuck, ReceiveFileHeader, Arrived
  <1>3. Goes(toClient, remaining, handler, ToCome) /\ toServer = <<>>
    BY <1>2 DEF NextDue
  <1>4. PICK m \in ClientBound :
             /\ toServer' = <<>> /\ toClient' = toClient \o <<m>>
             /\ toClient = <<>> /\ Goes(<<m>>, remaining, handler', ToCome')
    BY <1>1, <1>3, GoesServer
  <1>5. toClient' = <<m>>
    BY <1>4, OneMessage
  <1> QED
    BY <1>1, <1>4, <1>5 DEF NextDue

\* The first chunks of a file.
LEMMA Parts0 ==
  ASSUME NEW S, NEW s \in Seq(S)
  PROVE  SubSeq(s, 1, 0) = <<>>
  <1>1. SubSeq(s, 1, 0) \in Seq(S) /\ Len(SubSeq(s, 1, 0)) = 0
    BY LenProperties, SubSeqProperties
  <1> QED
    BY <1>1, EmptySeq

LEMMA NextPart ==
  ASSUME NEW S, NEW s \in Seq(S), NEW n \in Nat, n + 1 <= Len(s)
  PROVE  Append(SubSeq(s, 1, n), s[n + 1]) = SubSeq(s, 1, n + 1)
  <1>1. Len(s) \in Nat /\ \A i \in 1..Len(s) : s[i] \in S
    BY LenProperties
  <1> DEFINE a == SubSeq(s, 1, n)
             b == SubSeq(s, 1, n + 1)
  <1>2. a \in Seq(S) /\ Len(a) = n /\ \A i \in 1..n : a[i] = s[i]
    <2>1. n <= Len(s)
      BY <1>1
    <2> QED
      BY <1>1, <2>1, SubSeqProperties
  <1>3. b \in Seq(S) /\ Len(b) = n + 1 /\ \A i \in 1..(n + 1) : b[i] = s[i]
    BY <1>1, SubSeqProperties
  <1> HIDE DEF a, b
  <1>4. s[n + 1] \in S
    BY <1>1
  <1> DEFINE c == Append(a, s[n + 1])
  <1>5. c \in Seq(S) /\ Len(c) = n + 1 /\ (\A i \in 1..n : c[i] = a[i]) /\ c[n + 1] = s[n + 1]
    BY <1>2, <1>4, AppendProperties
  <1> HIDE DEF c
  <1>6. \A i \in 1..(n + 1) : c[i] = b[i]
    <2> SUFFICES ASSUME NEW i \in 1..(n + 1) PROVE c[i] = b[i]
      OBVIOUS
    <2>1. CASE i = n + 1
      BY <1>3, <1>5, <2>1
    <2>2. CASE i # n + 1
      <3>1. i \in 1..n
        BY <2>2
      <3> QED
        BY <1>2, <1>3, <1>5, <3>1
    <2> QED
      BY <2>1, <2>2
  <1>7. c = b
    BY <1>3, <1>5, <1>6, SeqEqual
  <1> QED
    BY <1>7 DEF a, b, c

LEMMA WholePart ==
  ASSUME NEW S, NEW s \in Seq(S)
  PROVE  SubSeq(s, 1, Len(s)) = s
  <1>1. Len(s) \in Nat /\ \A i \in 1..Len(s) : s[i] \in S
    BY LenProperties
  <1> DEFINE a == SubSeq(s, 1, Len(s))
  <1>2. a \in Seq(S) /\ Len(a) = Len(s) /\ \A i \in 1..Len(s) : a[i] = s[i]
    BY <1>1, SubSeqProperties
  <1> HIDE DEF a
  <1>3. a = s
    BY <1>2, SeqEqual
  <1> QED
    BY <1>3 DEF a

\* After the metadata or a chunk there is more to come, or everything has been
\* stored, or the bytes that follow are taken for a message.
LEMMA Reception ==
  ASSUME Typed, Measured, UNCHANGED <<opened, remaining, mishaps>>,
         Arriving', toClient' = <<>>, ToCome' = remaining - 1,
         incoming'.got \in Nat, toServer' \in Seq(ServerBound),
         Underway(toServer', incoming'.got, opened, Exact),
         handler' = IF FileIsComplete(incoming') THEN "confirm_file" ELSE "file_data"
  PROVE  Doomed' \/ DataDue' \/ Stored'
  <1>1. opened.sent \in Nat /\ opened.size \in Int
    BY OpenedData DEF Typed
  <1>2. incoming'.size = opened.size
    BY DEF Arriving
  <1>3. Len(toServer') = opened.sent - incoming'.got /\ Len(toServer') \in Nat
    BY LenProperties DEF Underway
  <1>4. CASE ~ FileIsComplete(incoming')
    <2>1. incoming'.got < opened.size /\ handler' = "file_data"
      BY <1>1, <1>2, <1>4 DEF FileIsComplete
    <2>2. Underway(toServer', incoming'.got, opened', Exact')
      BY DEF Underway, Exact
    <2> QED
      BY <2>1, <2>2 DEF DataDue
  <1>5. CASE FileIsComplete(incoming')
    <2>1. incoming'.got >= opened.size /\ handler' = "confirm_file"
      BY <1>2, <1>5 DEF FileIsComplete
    <2>2. CASE toServer' = <<>>
      <3>1. Len(toServer') = 0
        BY <2>2
      <3>2. incoming'.got = opened.sent
        BY <1>1, <1>3, <3>1
      <3> QED
        BY <2>1, <2>2, <3>2 DEF Stored
    <2>3. CASE toServer' # <<>>
      <3>1. Len(toServer') # 0
        BY <2>3, EmptySeq
      <3>2. opened.sent > opened.size /\ opened.sent # 0
        BY <1>1, <1>3, <2>1, <3>1
      <3>3. "grown" \in mishaps'
        BY <3>2 DEF Measured
      <3>4. 1 \in 1..Len(toServer')
        BY <1>3, <3>1
      <3>5. Head(toServer').type = "block"
        BY <2>3, <3>4 DEF Underway
      <3> QED
        BY <2>1, <2>3, <3>3, <3>5 DEF Doomed, Arrived
    <2> QED
      BY <2>2, <2>3
  <1> QED
    BY <1>4, <1>5

LEMMA HeaderDueServer ==
  ASSUME Typed, Measured, ServerStep, link, link', opened.path # Root, HeaderDue
  PROVE  Doomed' \/ DataDue' \/ Stored'
  <1>1. opened.path \in Paths /\ opened.data \in Seq(Blocks) /\ opened.sent \in Nat
    BY OpenedData DEF Typed
  <1>2. /\ handler = "await_file" /\ toClient = <<>> /\ ToCome = remaining - 1
        /\ Head(toServer) = FileHeader(opened.path, opened.size)
        /\ Underway(Tail(toServer), 0, opened, Exact)
    BY DEF HeaderDue
  <1>3. /\ Head(toServer).type = "file_transfer" /\ Head(toServer).name = opened.path
        /\ Head(toServer).size = opened.size
    BY <1>2, MessageTypes
  <1>4. ReceiveFileHeader
    BY <1>2, <1>3, HandlerStep DEF Arrived
  <1> DEFINE name == Target(opened.path)
  <1>5. /\ incoming' = [name |-> name, size |-> opened.size, got |-> 0]
        /\ files' = [n \in DOMAIN files \cup {name} |-> IF n = name THEN <<>> ELSE files[n]]
        /\ handler' = IF FileIsComplete(incoming') THEN "confirm_file" ELSE "file_data"
        /\ toServer' = Tail(toServer) /\ toClient' = toClient /\ addedFiles' = addedFiles
    BY <1>3, <1>4 DEF ReceiveFileHeader, GoTo, Receive
  <1>6. name = <<Last(opened.path)>>
    BY <1>1, Flattened
  <1>7. UNCHANGED <<opened, remaining, mishaps>>
    BY ServerLeaves
  <1> HIDE DEF name
  <1>8. incoming'.name = name /\ incoming'.size = opened.size /\ incoming'.got = 0
    BY <1>5
  <1>9. files'[incoming'.name] = SubSeq(opened.data, 1, 0)
    BY <1>1, <1>5, <1>8, Parts0
  <1>10. Arriving'
    BY <1>1, <1>6, <1>7, <1>8, <1>9 DEF Arriving
  <1>11. toServer' \in Seq(ServerBound)
    BY <1>4, <1>5, Received DEF Typed, NetTyped, ReceiveFileHeader, Arrived
  <1>12. Underway(toServer', incoming'.got, opened, Exact)
    BY <1>2, <1>5, <1>8
  <1>13. ToCome' = remaining - 1 /\ toClient' = <<>> /\ incoming'.got \in Nat
    BY <1>2, <1>5, <1>8 DEF ToCome
  <1> QED
    BY <1>5, <1>7, <1>10, <1>11, <1>12, <1>13, Reception

LEMMA DataDueServer ==
  ASSUME Typed, Measured, ServerStep, link, link', DataDue
  PROVE  Doomed' \/ DataDue' \/ Stored'
  <1>1. /\ opened.data \in Seq(Blocks) /\ opened.sent \in Nat /\ Len(opened.data) \in Nat
        /\ opened.size \in Int
    BY OpenedData DEF Typed
  <1>2. /\ handler = "file_data" /\ toClient = <<>> /\ ToCome = remaining - 1
        /\ Arriving /\ Underway(toServer, incoming.got, opened, Exact)
    BY DEF DataDue
  <1>3. ReceiveBlock
    BY <1>2, HandlerStep
  <1>4. /\ incoming \in [name : FileNames \cup {Root}, size : Int, got : Nat]
        /\ incoming.name \in DOMAIN files /\ files \in [DOMAIN files -> Seq(Blocks)]
    BY <1>2 DEF Typed, ServerTyped
  <1>5. /\ toServer \in Seq(ServerBound) /\ toServer # <<>>
    BY <1>3 DEF Typed, NetTyped, ReceiveBlock, Arrived
  <1>6. /\ incoming' = [incoming EXCEPT !.got = @ + 1]
        /\ files' = [files EXCEPT ![incoming.name] = Append(@, Head(toServer).block)]
        /\ handler' = IF FileIsComplete(incoming') THEN "confirm_file" ELSE "file_data"
        /\ toServer' = Tail(toServer) /\ toClient' = toClient /\ addedFiles' = addedFiles
    BY <1>3 DEF ReceiveBlock, GoTo, Receive
  <1>7. UNCHANGED <<opened, remaining, mishaps>>
    BY ServerLeaves
  <1> DEFINE got == incoming.got
  <1>8. got \in Nat /\ incoming'.got = got + 1 /\ incoming'.name = incoming.name
        /\ incoming'.size = incoming.size
    BY <1>4, <1>6
  <1>9. files'[incoming'.name] = Append(files[incoming.name], Head(toServer).block)
    BY <1>4, <1>6, <1>8
  <1>10. /\ Len(toServer) \in Nat /\ Len(toServer) # 0 /\ Len(toServer) = opened.sent - got
         /\ Len(Tail(toServer)) = Len(toServer) - 1 /\ Tail(toServer) \in Seq(ServerBound)
         /\ \A i \in 1..Len(toServer) - 1 : Tail(toServer)[i] = toServer[i + 1]
    BY <1>2, <1>5, EmptySeq, LenProperties, HeadTailProperties DEF Underway
  <1>11. 1 \in 1..Len(toServer) /\ Head(toServer) = toServer[1] /\ got + 1 <= opened.sent
    BY <1>1, <1>5, <1>8, <1>10
  <1>12. Exact => files'[incoming'.name] = SubSeq(opened.data, 1, got + 1)
    <2> SUFFICES ASSUME Exact PROVE files'[incoming'.name] = SubSeq(opened.data, 1, got + 1)
      OBVIOUS
    <2>1. Head(toServer).block = opened.data[got + 1]
      BY <1>2, <1>11 DEF Underway
    <2>2. files[incoming.name] = SubSeq(opened.data, 1, got)
      BY <1>2 DEF Arriving
    <2>3. got + 1 <= Len(opened.data)
      <3>1. opened.sent <= Len(opened.data)
        BY DEF Measured, Exact
      <3> HIDE DEF got
      <3> QED
        BY <1>1, <1>8, <1>11, <3>1
    <2> HIDE DEF got
    <2> QED
      BY <1>1, <1>8, <1>9, <2>1, <2>2, <2>3, NextPart
  <1> HIDE DEF got
  <1>13. Arriving'
    BY <1>2, <1>7, <1>8, <1>11, <1>12 DEF Arriving, Exact
  <1>14. Underway(toServer', incoming'.got, opened, Exact)
    <2>1. Len(toServer') = opened.sent - (got + 1)
      BY <1>1, <1>6, <1>8, <1>10
    <2>2. ASSUME NEW i \in 1..Len(toServer')
          PROVE  /\ toServer'[i].type = "block"
                 /\ Exact => toServer'[i].block = opened.data[(got + 1) + i]
      <3> DEFINE n == Len(toServer)
      <3>1. Len(toServer') = n - 1 /\ n \in Nat
        BY <1>6, <1>10
      <3> HIDE DEF n
      <3>2. i \in 1..n - 1 /\ i \in Nat
        BY <2>2, <3>1
      <3>3. i + 1 \in 1..n
        BY <3>1, <3>2
      <3>4. got + (i + 1) = (got + 1) + i
        BY <1>8, <3>2
      <3>5. i \in 1..Len(toServer) - 1 /\ i + 1 \in 1..Len(toServer) /\ got + (i + 1) = (got + 1) + i
        BY <3>2, <3>3, <3>4 DEF n
      <3>6. toServer'[i] = toServer[i + 1]
        BY <1>6, <1>10, <3>5
      <3>7. /\ toServer[i + 1].type = "block"
            /\ Exact => toServer[i + 1].block = opened.data[got + (i + 1)]
        BY <1>2, <3>5 DEF Underway, got
      <3> QED
        BY <3>5, <3>6, <3>7
    <2> QED
      BY <1>8, <2>1, <2>2 DEF Underway
  <1>15. ToCome' = remaining - 1 /\ toClient' = <<>> /\ incoming'.got \in Nat
    BY <1>2, <1>6, <1>8 DEF ToCome
  <1> QED
    BY <1>6, <1>7, <1>10, <1>13, <1>14, <1>15, Reception

LEMMA StoredServer ==
  ASSUME Typed, ServerStep, link, link', Stored
  PROVE  Over'
  <1>1. /\ ConfirmFile /\ toClient = <<>> /\ toServer = <<>> /\ ToCome = remaining - 1
        /\ opened.sent >= opened.size
    BY HandlerStep DEF Stored
  <1>2. UNCHANGED <<opened, remaining, addedFiles, toServer>>
    BY <1>1, ServerLeaves DEF ConfirmFile
  <1>3. toClient' = <<Answer("confirmation")>>
    BY <1>1, OneMessage DEF ConfirmFile, Reply
  <1>4. Confirmed' /\ Tail(toClient') = <<>>
    BY <1>3, OneMessage DEF Confirmed
  <1>5. handler' = IF addedFiles = <<>> THEN "rehash" ELSE "request"
    BY <1>1 DEF ConfirmFile, NextFile, GoTo
  <1>6. ToCome' = ToCome /\ ToCome \in Nat /\ (ToCome = 0 <=> addedFiles = <<>>)
        /\ remaining \in Nat \ {0}
    BY <1>2, ToComeTyped DEF ToCome, Typed, ClientTyped
  <1>7. CASE addedFiles = <<>>
    <2>1. remaining = 1
      BY <1>1, <1>6, <1>7
    <2> QED
      BY <1>1, <1>2, <1>4, <1>5, <1>7, <2>1 DEF Over
  <1>8. CASE addedFiles # <<>>
    <2>1. remaining > 1 /\ ToCome' = remaining - 1
      BY <1>1, <1>6, <1>8
    <2>2. Goes(<<>>, remaining - 1, handler', ToCome')
      BY <1>5, <1>8, <2>1 DEF Goes
    <2> QED
      BY <1>1, <1>2, <1>4, <2>1, <2>2 DEF Over
  <1> QED
    BY <1>7, <1>8

LEMMA OverServer ==
  ASSUME Typed, ServerStep, link, link', Over
  PROVE  Over'
  <1>1. toServer = <<>> /\ Confirmed /\ opened.sent >= opened.size /\ remaining \in Nat \ {0}
    BY DEF Over, Typed, ClientTyped
  <1>2. UNCHANGED <<opened, remaining>>
    BY ServerLeaves
  <1>3. CASE remaining > 1 /\ Goes(Tail(toClient), remaining - 1, handler, ToCome)
    <2>1. remaining - 1 \in Nat \ {0}
      BY <1>1, <1>3
    <2>2. PICK m \in ClientBound :
             /\ toServer' = <<>> /\ toClient' = toClient \o <<m>>
             /\ Tail(toClient) = <<>> /\ Goes(<<m>>, remaining - 1, handler', ToCome')
      BY <1>1, <1>3, <2>1, GoesServer
    <2>3. Confirmed' /\ Tail(toClient') = <<m>>
      BY <1>1, <2>2, AfterConfirmation
    <2> QED
      BY <1>1, <1>2, <1>3, <2>2, <2>3 DEF Over
  <1>4. CASE remaining = 1 /\ Tail(toClient) = <<>> /\ handler \in {"poll", "rehash"}
    <2>1. handler = "rehash"
      BY <1>1, <1>4, HandlerStep DEF CheckVersion, TreeReception, Arrived
    <2>2. UpdateHash
      BY <2>1, HandlerStep
    <2>3. handler' = "poll" /\ UNCHANGED <<toServer, toClient>>
      BY <2>2 DEF UpdateHash, GoTo, netVars
    <2> QED
      BY <1>1, <1>2, <1>4, <2>3 DEF Over, Confirmed
  <1> QED
    BY <1>3, <1>4 DEF Over

LEMMA SendingServer ==
  ASSUME Typed, Measured, ServerStep, link, link', Sending
  PROVE  Doomed' \/ Sending'
  <1>1. UNCHANGED opened
    BY ServerLeaves
  <1> QED
    BY <1>1, HeaderDueServer, DataDueServer, StoredServer, OverServer DEF Sending

LEMMA ServerDialogue ==
  ASSUME Typed, Measured, ServerStep, link, link', Doomed \/ Exchange
  PROVE  Doomed' \/ Exchange'
  <1>1. CASE Doomed
    BY <1>1, DoomedServer
  <1>2. CASE Exchange
    <2>1. UNCHANGED <<client, opened>>
      BY ServerLeaves
    <2>2. client = "idle" => Idle'
      BY <1>2, IdleServer DEF Exchange
    <2>3. client = "await_latest" => Checking'
      BY <1>2, CheckingServer DEF Exchange, Typed
    <2>4. client = "await_conf" => TreeSent'
      BY <1>2, TreeSentServer DEF Exchange
    <2>5. client = "await_response" => toServer' = <<>> /\ Answered(toClient', handler', ToCome')
      <3> SUFFICES ASSUME client = "await_response"
                   PROVE  toServer' = <<>> /\ Answered(toClient', handler', ToCome')
        OBVIOUS
      <3>1. PICK m \in ClientBound :
               /\ toServer' = <<>> /\ toClient' = toClient \o <<m>>
               /\ toClient = <<>> /\ Answered(<<m>>, handler', ToCome')
        BY <1>2, AnsweredServer DEF Exchange
      <3> QED
        BY <3>1, OneMessage
    <2>6. client = "await_next" => NextDue'
      BY <1>2, NextDueServer DEF Exchange
    <2>7. client = "sending" => Doomed' \/ Sending'
      BY <1>2, SendingServer DEF Exchange
    <2>8. client = "await_fconf" => Doomed' \/ (Sending' /\ opened.sent >= Len(opened.data))
      BY <1>2, SendingServer DEF Exchange
    <2> QED
      BY <2>1, <2>2, <2>3, <2>4, <2>5, <2>6, <2>7, <2>8 DEF Exchange
  <1> QED
    BY <1>1, <1>2

-----------------------------------------------------------------------------
\* What the client's steps do to the streams while the connection is up.
LEMMA ClientLeaves ==
  ASSUME ClientStep
  PROVE  UNCHANGED <<handler, addedFiles, incoming, files>> /\ mishaps \subseteq mishaps'
  <1>1. UNCHANGED serverVars
    BY DEF ClientStep, InitiateSync, OnLatest, OnNotLatest, LocalTreeThrows,
       OnTreeConfirmation, OnNoSyncNeeded, OpenFile, OpenFails, SendBlock, EndOfFile,
       OnFileConfirmation, OnClosed
  <1>2. mishaps \subseteq mishaps'
    BY DEF ClientStep, InitiateSync, OnLatest, OnNotLatest, LocalTreeThrows,
       OnTreeConfirmation, OnNoSyncNeeded, OpenFile, OpenFails, SendBlock, EndOfFile,
       OnFileConfirmation, OnClosed
  <1> QED
    BY <1>1, <1>2 DEF serverVars

LEMMA ClientStreams ==
  ASSUME ClientStep, link, link'
  PROVE  /\ toServer' = toServer \/ \E m : toServer' = toServer \o <<m>>
         /\ toClient' = toClient \/ (toClient # <<>> /\ toClient' = Tail(toClient))
  <1>1. CASE OpenFile
    <2>1. toServer' = toServer \/ \E m : toServer' = toServer \o <<m>>
      BY <1>1 DEF OpenFile, Send
    <2>2. toClient # <<>> /\ toClient' = Tail(toClient)
      BY <1>1 DEF OpenFile, Requested, Found, Take
    <2> QED
      BY <2>1, <2>2
  <1>2. CASE InitiateSync \/ OnNotLatest \/ SendBlock
    <2>1. \E m : toServer' = toServer \o <<m>>
      BY <1>2 DEF InitiateSync, OnNotLatest, SendBlock, Send
    <2>2. toClient' = toClient \/ (toClient # <<>> /\ toClient' = Tail(toClient))
      BY <1>2 DEF InitiateSync, OnNotLatest, SendBlock, Found, Take
    <2> QED
      BY <2>1, <2>2
  <1>3. CASE \/ OnLatest \/ OnTreeConfirmation \/ OnNoSyncNeeded \/ OpenFails \/ EndOfFile
             \/ OnFileConfirmation \/ OnClosed
    BY <1>3 DEF OnLatest, OnTreeConfirmation, OnNoSyncNeeded, OpenFails, EndOfFile,
       OnFileConfirmation, OnClosed, Requested, Found, Take, netVars
  <1>4. ~ LocalTreeThrows
    BY DEF LocalTreeThrows, Dies
  <1> QED
    BY <1>1, <1>2, <1>3, <1>4 DEF ClientStep

LEMMA HeadKept ==
  ASSUME NEW S, NEW s \in Seq(S), s # <<>>, NEW m
  PROVE  s \o <<m>> # <<>> /\ Head(s \o <<m>>) = Head(s)
  <1> DEFINE T == S \cup {m}
  <1>1. S \subseteq T /\ m \in T
    OBVIOUS
  <1> HIDE DEF T
  <1>2. s \in Seq(T)
    BY <1>1, SeqMonotonic
  <1> QED
    BY <1>1, <1>2, HeadStays

\* The bytes stay where they are.
LEMMA DoomedClient ==
  ASSUME Typed, ClientStep, link, link', Doomed
  PROVE  Doomed'
  <1>1. UNCHANGED handler /\ "grown" \in mishaps' /\ toServer # <<>>
        /\ Head(toServer).type = "block"
    BY ClientLeaves DEF Doomed, Arrived
  <1>2. Arrived("block")'
    <2>1. toServer \in Seq(ServerBound)
      BY DEF Typed, NetTyped
    <2>2. toServer' # <<>> /\ Head(toServer') = Head(toServer)
      BY <1>1, <2>1, ClientStreams, HeadKept
    <2> QED
      BY <1>1, <2>2 DEF Arrived
  <1>3. toClient' = toClient \/ (toClient # <<>> /\ toClient' = Tail(toClient))
    BY ClientStreams
  <1> QED
    BY <1>1, <1>2, <1>3, OneMessage DEF Doomed

\* What the server waits for does not depend on the client's step.
LEMMA FreeStays ==
  ASSUME ClientStep
  PROVE  /\ UNCHANGED <<handler, ToCome>>
         /\ Free => Free' /\ (Stuck => Stuck')
         /\ "missing" \in mishaps => "missing" \in mishaps'
  <1>1. UNCHANGED <<handler, addedFiles>> /\ mishaps \subseteq mishaps'
    BY ClientLeaves
  <1> QED
    BY <1>1 DEF Free, Stuck, ToCome

LEMMA SyncClient ==
  ASSUME Typed, link, link', Exchange,
         InitiateSync \/ OnLatest \/ OnNotLatest \/ OnTreeConfirmation \/ OnNoSyncNeeded
  PROVE  Exchange'
  <1>1. /\ UNCHANGED <<handler, ToCome>>
        /\ Free => Free'
    BY FreeStays DEF ClientStep
  <1>2. CASE InitiateSync
    <2>1. toServer = <<>> /\ toClient = <<>> /\ Free
      BY <1>2 DEF InitiateSync, Exchange, Idle
    <2>2. toServer' = <<CheckLatest(getTreeHash(LocalTree))>> /\ toClient' = <<>>
          /\ client' = "await_latest"
      BY <1>2, <2>1, OneMessage DEF InitiateSync, Send
    <2>3. \E hash : toServer' = <<CheckLatest(hash)>>
      BY <2>2
    <2>4. Checking'
      BY <1>1, <2>1, <2>2, <2>3 DEF Checking
    <2> QED
      BY <2>2, <2>4 DEF Exchange
  <1>3. CASE OnLatest
    <2>1. toServer = <<>> /\ handler = "poll" /\ Tail(toClient) = <<>>
      BY <1>3, OneMessage DEF OnLatest, Exchange, Checking
    <2>2. toServer' = <<>> /\ toClient' = <<>> /\ client' = "idle"
      BY <1>3, <2>1 DEF OnLatest, Take, Finished
    <2>3. Idle'
      BY <1>1, <2>1, <2>2 DEF Idle, Free
    <2> QED
      BY <2>2, <2>3 DEF Exchange
  <1>4. CASE OnNotLatest
    <2>1. toServer = <<>> /\ handler = "poll" /\ Tail(toClient) = <<>>
      BY <1>4, OneMessage DEF OnNotLatest, Found, Exchange, Checking
    <2>2. /\ sentTree' = LocalTree /\ toClient' = <<>> /\ client' = "await_conf"
          /\ toServer' = <<Tree(Head(toClient).ahead, LocalTree)>>
      BY <1>4, <2>1, OneMessage DEF OnNotLatest, Take, Send
    <2>3. \E flag : toServer' = <<Tree(flag, sentTree')>>
      BY <2>2
    <2>4. TreeSent'
      BY <1>1, <2>1, <2>2, <2>3 DEF TreeSent
    <2> QED
      BY <2>2, <2>4 DEF Exchange
  <1>5. CASE OnTreeConfirmation
    <2>1. toServer = <<>> /\ Answered(Tail(toClient), handler, ToCome)
      BY <1>5, OneMessage DEF OnTreeConfirmation, Found, Exchange, TreeSent
    <2>2. toServer' = <<>> /\ toClient' = Tail(toClient) /\ client' = "await_response"
      BY <1>5, <2>1 DEF OnTreeConfirmation, Take
    <2> QED
      BY <1>1, <2>1, <2>2 DEF Exchange
  <1>6. CASE OnNoSyncNeeded
    <2>1. toServer = <<>> /\ Answered(toClient, handler, ToCome)
          /\ toClient # <<>> /\ Head(toClient).type = "no_sync_needed"
      BY <1>6 DEF OnNoSyncNeeded, Found, Exchange
    <2>2. handler = "poll" /\ Tail(toClient) = <<>>
      <3>1. ASSUME NEW k, NEW path PROVE toClient # <<RequestFile(path, k)>>
        <4>1. Head(<<RequestFile(path, k)>>).type = "request_file"
          BY OneMessage, MessageTypes
        <4> QED
          BY <2>1, <4>1
      <3>2. toClient = <<Answer("no_sync_needed")>> /\ handler = "poll"
        BY <2>1, <3>1 DEF Answered, Goes
      <3> QED
        BY <3>2, OneMessage
    <2>3. toServer' = <<>> /\ toClient' = <<>> /\ client' = "idle"
      BY <1>6, <2>1, <2>2 DEF OnNoSyncNeeded, Take, Finished
    <2>4. Idle'
      BY <1>1, <2>2, <2>3 DEF Idle, Free
    <2> QED
      BY <2>3, <2>4 DEF Exchange
  <1> QED
    BY <1>2, <1>3, <1>4, <1>5, <1>6

\* The request that is answered next, and how many files remain after it.
LEMMA RequestIs ==
  ASSUME Typed, Exchange, Requested
  PROVE  /\ toServer = <<>> /\ Tail(toClient) = <<>> /\ handler = "await_file"
         /\ ToCome = RequestCount - 1
  <1>1. CASE client = "await_response"
    <2>1. toServer = <<>> /\ Answered(toClient, handler, ToCome)
          /\ toClient # <<>> /\ Head(toClient).type = "request_file"
      BY <1>1 DEF Requested, Found, Exchange
    <2>2. PICK k \in Nat \ {0} : Goes(toClient, k, handler, ToCome)
      BY <2>1, OneMessage, MessageTypes DEF Answered
    <2>3. PICK path : toClient = <<RequestFile(path, k)>>
      BY <2>1, <2>2 DEF Goes
    <2>4. handler = "await_file" /\ ToCome = k - 1
      BY <2>1, <2>2 DEF Goes
    <2>5. Tail(toClient) = <<>> /\ Head(toClient).remaining = k
      BY <2>3, OneMessage, MessageTypes
    <2> QED
      BY <1>1, <2>1, <2>4, <2>5 DEF RequestCount
  <1>2. CASE client = "await_next"
    <2>1. /\ toServer = <<>> /\ toClient # <<>>
          /\ Goes(toClient, remaining, handler, ToCome)
      BY <1>2 DEF Requested, Found, Exchange, NextDue
    <2>2. PICK path : toClient = <<RequestFile(path, remaining)>>
      BY <2>1 DEF Goes
    <2>3. handler = "await_file" /\ ToCome = remaining - 1
      BY <2>1 DEF Goes
    <2>4. Tail(toClient) = <<>>
      BY <2>2, OneMessage
    <2> QED
      BY <1>2, <2>1, <2>3, <2>4 DEF RequestCount
  <1> QED
    BY <1>1, <1>2 DEF Requested

\* What is left of the exchange when a file is done with.
LEMMA FileDoneClient ==
  ASSUME NEW i \in Nat \ {0}, FileDone(i), toServer' = <<>>,
         i = 1 => toClient' = <<>> /\ Free',
         i # 1 => \/ Goes(toClient', i - 1, handler', ToCome')
                  \/ toClient' = <<>> /\ Stuck' /\ ToCome' = i - 1
  PROVE  Exchange'
  <1>1. CASE i = 1
    <2>1. client' = "idle"
      BY <1>1 DEF FileDone, Finished
    <2>2. Idle'
      BY <1>1 DEF Idle
    <2> QED
      BY <2>1, <2>2 DEF Exchange
  <1>2. CASE i # 1
    <2>1. client' = "await_next" /\ remaining' = i - 1
      BY <1>2 DEF FileDone
    <2>2. NextDue'
      BY <1>2, <2>1 DEF NextDue
    <2> QED
      BY <2>1, <2>2 DEF Exchange
  <1> QED
    BY <1>1, <1>2

LEMMA OpenFileClient ==
  ASSUME Typed, link, link', Exchange, OpenFile
  PROVE  Exchange'
  <1> DEFINE path == Head(toClient).path
  <1>1. /\ toServer = <<>> /\ Tail(toClient) = <<>> /\ handler = "await_file"
        /\ ToCome = RequestCount - 1
    BY RequestIs DEF OpenFile
  <1>2. path \in Paths /\ path # Root
    BY DirectoryIs, Flattened DEF OpenFile, Typed, UserTyped
  <1>3. \E size :
          /\ opened' = [path |-> path, size |-> size, sent |-> 0, linked |-> TRUE,
                        data |-> IF localDir[path] = Dir THEN <<>> ELSE localDir[path]]
          /\ Send(<<FileHeader(path, size)>>)
    BY DEF OpenFile
  <1>4. /\ remaining' = RequestCount /\ toClient' = <<>> /\ client' = "sending"
        /\ UNCHANGED <<handler, addedFiles>>
    BY <1>1 DEF OpenFile, Take, serverVars
  <1> HIDE DEF path
  <1>5. PICK size :
          /\ opened' = [path |-> path, size |-> size, sent |-> 0, linked |-> TRUE,
                        data |-> IF localDir[path] = Dir THEN <<>> ELSE localDir[path]]
          /\ Send(<<FileHeader(path, size)>>)
    BY <1>3
  <1>6. opened'.path = path /\ opened'.size = size /\ opened'.sent = 0
    BY <1>5
  <1>7. toServer' = <<FileHeader(path, size)>>
    BY <1>1, <1>5, OneMessage DEF Send
  <1>8. /\ toServer' # <<>> /\ Head(toServer') = FileHeader(opened'.path, opened'.size)
        /\ Tail(toServer') = <<>>
    BY <1>6, <1>7, OneMessage
  <1>9. Underway(<<>>, 0, opened', Exact')
    <2>1. Len(<<>>) = 0 - 0 /\ 1..Len(<<>>) = {}
      OBVIOUS
    <2> QED
      BY <1>6, <2>1 DEF Underway
  <1>10. ToCome' = remaining' - 1 /\ handler' = "await_file"
    BY <1>1, <1>4 DEF ToCome
  <1>11. HeaderDue'
    BY <1>4, <1>8, <1>9, <1>10 DEF HeaderDue
  <1>12. Sending'
    BY <1>2, <1>6, <1>11 DEF Sending
  <1> QED
    BY <1>4, <1>12 DEF Exchange

LEMMA OpenFailsClient ==
  ASSUME Typed, link, link', Exchange, OpenFails
  PROVE  Exchange'
  <1>1. /\ toServer = <<>> /\ Tail(toClient) = <<>> /\ handler = "await_file"
        /\ ToCome = RequestCount - 1 /\ RequestCount \in Nat \ {0}
    BY RequestIs, RequestCounted DEF OpenFails
  <1>2. /\ FileDone(RequestCount) /\ toServer' = <<>> /\ toClient' = <<>>
        /\ "missing" \in mishaps' /\ UNCHANGED <<handler, addedFiles>>
    BY <1>1 DEF OpenFails, Take, serverVars
  <1>3. Stuck' /\ ToCome' = RequestCount - 1
    BY <1>1, <1>2 DEF Stuck, ToCome
  <1>4. RequestCount = 1 => Free'
    BY <1>3 DEF Free
  <1> QED
    BY <1>1, <1>2, <1>3, <1>4, FileDoneClient

LEMMA OnFileConfirmationClient ==
  ASSUME Typed, link, link', Exchange, OnFileConfirmation
  PROVE  Exchange'
  <1>1. Over /\ remaining \in Nat \ {0}
    BY DEF OnFileConfirmation, Exchange, Sending, HeaderDue, DataDue, Stored, Typed, ClientTyped
  <1>2. /\ FileDone(remaining) /\ toServer' = <<>> /\ toClient' = Tail(toClient)
        /\ UNCHANGED <<handler, addedFiles>>
    BY <1>1 DEF OnFileConfirmation, Take, Over, serverVars
  <1>3. ToCome' = ToCome
    BY <1>2 DEF ToCome
  <1>4. CASE remaining = 1
    <2>1. toClient' = <<>> /\ Free'
      BY <1>1, <1>2, <1>4 DEF Over, Free
    <2> QED
      BY <1>1, <1>2, <1>4, <2>1, FileDoneClient
  <1>5. CASE remaining # 1
    <2>1. Goes(toClient', remaining - 1, handler', ToCome')
      BY <1>1, <1>2, <1>3, <1>5 DEF Over
    <2> QED
      BY <1>1, <1>2, <1>5, <2>1, FileDoneClient
  <1> QED
    BY <1>4, <1>5

\* One more chunk is under way.
LEMMA UnderwayGrows ==
  ASSUME NEW S, NEW blocks \in Seq(S), NEW got \in Nat, NEW m \in S,
         NEW file, NEW more, NEW exact, file.sent \in Nat,
         Underway(blocks, got, file, exact),
         more.sent = file.sent + 1, more.data = file.data,
         m.type = "block", m.block = file.data[file.sent + 1]
  PROVE  Underway(blocks \o <<m>>, got, more, exact)
  <1> DEFINE t == blocks \o <<m>>
  <1>1. /\ t \in Seq(S) /\ Len(t) = Len(blocks) + 1
        /\ \A i \in 1..Len(blocks) : t[i] = blocks[i]
        /\ t[Len(blocks) + 1] = m
    BY Sent
  <1>2. Len(blocks) \in Nat /\ Len(blocks) = file.sent - got
    BY LenProperties DEF Underway
  <1> HIDE DEF t
  <1>3. Len(t) = more.sent - got
    BY <1>1, <1>2
  <1>4. ASSUME NEW i \in 1..Len(t)
        PROVE  t[i].type = "block" /\ (exact => t[i].block = more.data[got + i])
    <2>1. CASE i = Len(blocks) + 1
      <3>1. t[i] = m
        BY <1>1, <2>1
      <3>2. got + i = file.sent + 1
        BY <1>2, <2>1
      <3> QED
        BY <3>1, <3>2
    <2>2. CASE i # Len(blocks) + 1
      <3>1. i \in 1..Len(blocks)
        BY <1>1, <1>2, <2>2
      <3> QED
        BY <1>1, <3>1 DEF Underway
    <2> QED
      BY <2>1, <2>2
  <1>5. Underway(t, got, more, exact)
    BY <1>3, <1>4 DEF Underway
  <1> QED
    BY <1>5 DEF t

LEMMA SendBlockClient ==
  ASSUME Typed, Measured, link, link', Exchange, SendBlock
  PROVE  Doomed' \/ Exchange'
  <1>1. Sending /\ client' = "sending" /\ opened.sent < Len(opened.data)
    BY DEF SendBlock, Exchange
  <1>2. /\ opened \in OpenFiles /\ opened.data \in Seq(Blocks) /\ Len(opened.data) \in Nat
        /\ opened.sent \in Nat /\ opened.size \in Int
        /\ opened.data = <<>> <=> Len(opened.data) = 0
    BY OpenedData DEF Typed, ClientTyped
  <1> DEFINE m == Block(opened.data[opened.sent + 1])
  <1>3. m.type = "block" /\ m.block = opened.data[opened.sent + 1]
    BY MessageTypes
  <1>4. m \in ServerBound
    <2>1. opened.sent + 1 \in 1..Len(opened.data)
      BY <1>1, <1>2
    <2> QED
      BY <1>2, <2>1, Outgoing
  <1>5. /\ toServer' = toServer \o <<m>>
        /\ opened' = [opened EXCEPT !.sent = @ + 1]
        /\ UNCHANGED <<handler, addedFiles, incoming, files, remaining, toClient, mishaps>>
    BY DEF SendBlock, Send, serverVars
  <1>6. /\ opened'.path = opened.path /\ opened'.size = opened.size
        /\ opened'.data = opened.data /\ opened'.sent = opened.sent + 1
    BY <1>2, <1>5 DEF OpenFiles
  <1>7. toServer \in Seq(ServerBound)
    BY DEF Typed, NetTyped
  <1> HIDE DEF m
  <1>8. ToCome' = ToCome /\ (Exact' <=> Exact)
    BY <1>5 DEF ToCome, Exact
  <1>9. CASE HeaderDue
    <2>1. /\ toServer' # <<>> /\ Head(toServer') = Head(toServer)
          /\ Tail(toServer') = Tail(toServer) \o <<m>>
      BY <1>4, <1>5, <1>7, <1>9, HeadStays DEF HeaderDue
    <2>2. Tail(toServer) \in Seq(ServerBound)
      BY <1>7, <1>9, Received DEF HeaderDue
    <2>3. Underway(Tail(toServer) \o <<m>>, 0, opened', Exact)
      BY <1>2, <1>3, <1>4, <1>6, <1>9, <2>2, UnderwayGrows DEF HeaderDue
    <2>4. Underway(Tail(toServer'), 0, opened', Exact')
      BY <1>8, <2>1, <2>3 DEF Underway
    <2>5. HeaderDue'
      BY <1>5, <1>6, <1>8, <1>9, <2>1, <2>4 DEF HeaderDue
    <2>6. Sending'
      BY <1>1, <1>6, <2>5 DEF Sending
    <2> QED
      BY <1>1, <2>6 DEF Exchange
  <1>10. CASE DataDue
    <2>1. incoming.got \in Nat /\ incoming.got <= opened.sent
      BY <1>10 DEF DataDue, Arriving, Typed, ServerTyped
    <2>2. Underway(toServer \o <<m>>, incoming.got, opened', Exact)
      BY <1>2, <1>3, <1>4, <1>6, <1>7, <1>10, <2>1, UnderwayGrows DEF DataDue
    <2>3. Underway(toServer', incoming'.got, opened', Exact')
      BY <1>5, <1>8, <2>2 DEF Underway
    <2>4. incoming'.got <= opened'.sent
      BY <1>2, <1>5, <1>6, <2>1
    <2>5. Arriving'
      BY <1>5, <1>6, <1>8, <1>10, <2>4 DEF Arriving, DataDue
    <2>6. DataDue'
      BY <1>5, <1>6, <1>8, <1>10, <2>3, <2>5 DEF DataDue
    <2>7. Sending'
      BY <1>1, <1>6, <2>6 DEF Sending
    <2> QED
      BY <1>1, <2>7 DEF Exchange
  <1>11. CASE Stored \/ Over
    <2>1. opened.sent >= opened.size /\ toServer = <<>>
      BY <1>11 DEF Stored, Over
    <2>2. Len(opened.data) > opened.size /\ opened.data # <<>>
      BY <1>1, <1>2, <2>1
    <2>3. "grown" \in mishaps'
      BY <1>5, <2>2 DEF Measured
    <2>4. toServer' # <<>> /\ Head(toServer').type = "block"
      BY <1>3, <1>5, <2>1, OneMessage
    <2>5. CASE Stored
      BY <1>5, <2>3, <2>4, <2>5 DEF Stored, Doomed, Arrived
    <2>6. CASE Over
      <3>1. \/ handler \in {"request", "await_file", "poll"}
            \/ handler = "rehash" /\ Tail(toClient) = <<>>
        BY <2>6 DEF Over, Goes
      <3>2. Tail(toClient) = <<>> => toClient = <<Answer("confirmation")>>
        <4>1. toClient \in Seq(ClientBound) /\ toClient # <<>>
              /\ Head(toClient) = Answer("confirmation")
          BY <2>6 DEF Over, Confirmed, Typed, NetTyped
        <4>2. ASSUME Tail(toClient) = <<>> PROVE toClient = <<Head(toClient)>>
          <5>1. Len(toClient) = 1
            <6>1. Len(Tail(toClient)) = Len(toClient) - 1 /\ Len(toClient) \in Nat
              BY <4>1, Received, LenProperties
            <6>2. Len(<<>>) = 0
              OBVIOUS
            <6>3. Len(Tail(toClient)) = 0
              BY <4>2, <6>2
            <6> QED
              BY <6>1, <6>3
          <5> QED
            BY <4>1, <5>1
        <4> QED
          BY <4>1, <4>2
      <3> QED
        BY <1>5, <2>3, <2>4, <3>1, <3>2 DEF Doomed, Arrived
    <2> QED
      BY <1>11, <2>5, <2>6
  <1> QED
    BY <1>1, <1>9, <1>10, <1>11 DEF Sending

LEMMA EndOfFileClient ==
  ASSUME Exchange, EndOfFile
  PROVE  Exchange'
  <1>1. /\ Sending /\ opened.sent >= Len(opened.data) /\ client' = "await_fconf"
        /\ UNCHANGED <<handler, addedFiles, incoming, files, opened, remaining, toServer,
                       toClient, mishaps>>
    BY DEF EndOfFile, Exchange, serverVars, netVars
  <1>2. Sending'
    BY <1>1 DEF Sending, HeaderDue, DataDue, Stored, Over, Confirmed, Arriving, Exact, ToCome
  <1> QED
    BY <1>1, <1>2 DEF Exchange

LEMMA ClientDialogue ==
  ASSUME Typed, Measured, ClientStep, link, link', Doomed \/ Exchange
  PROVE  Doomed' \/ Exchange'
  <1>1. CASE Doomed
    BY <1>1, DoomedClient
  <1>2. CASE Exchange
    <2>1. ~ LocalTreeThrows /\ ~ OnClosed
      BY DEF LocalTreeThrows, OnClosed, Dies
    <2> QED
      BY <1>2, <2>1, SyncClient, OpenFileClient, OpenFailsClient, SendBlockClient,
         EndOfFileClient, OnFileConfirmationClient DEF ClientStep
  <1> QED
    BY <1>1, <1>2

-----------------------------------------------------------------------------
\* What a step of the user may change.
Framed ==
    /\ UNCHANGED <<handler, addedFiles, incoming, files, client, sentTree, remaining,
                   toServer, toClient>>
    /\ mishaps \subseteq mishaps'
    /\ opened'.path = opened.path /\ opened'.size = opened.size /\ opened'.sent = opened.sent
    /\ \/ opened'.data = opened.data /\ (Exact' <=> Exact)
       \/ client = "sending" /\ ~ Exact'

LEMMA UserFrames ==
  ASSUME Typed, User \/ UNCHANGED vars
  PROVE  Framed /\ link' = link
  <1>1. opened \in OpenFiles
    BY DEF Typed, ClientTyped
  <1>2. CASE UNCHANGED vars
    BY <1>2 DEF vars, serverVars, clientVars, netVars, Framed, Exact
  <1>3. CASE Replace \/ Delete \/ MakeDirectory
    <2>1. /\ mishaps' = mishaps /\ (opened' = opened \/ opened' = [opened EXCEPT !.linked = FALSE])
          /\ UNCHANGED <<handler, addedFiles, incoming, files, client, sentTree, remaining,
                         toServer, toClient, link>>
      BY <1>3 DEF Replace, Delete, MakeDirectory, Unlink, Edit, serverVars, netVars
    <2> QED
      BY <1>1, <2>1 DEF Framed, OpenFiles, Exact
  <1>4. CASE Overwrite
    <2>1. UNCHANGED <<handler, addedFiles, incoming, files, client, sentTree, remaining,
                      toServer, toClient, link>>
      BY <1>4 DEF Overwrite, Edit, serverVars, netVars
    <2>2. CASE UNCHANGED <<opened, mishaps>>
      BY <2>1, <2>2 DEF Framed, Exact
    <2>3. CASE ~ UNCHANGED <<opened, mishaps>>
      <3>1. /\ client = "sending"
            /\ \E c : opened' = [opened EXCEPT !.data = c]
            /\ "rewritten" \in mishaps' /\ mishaps \subseteq mishaps'
        BY <1>4, <2>3 DEF Overwrite, IsOpen
      <3> QED
        BY <1>1, <2>1, <3>1 DEF Framed, OpenFiles, Exact
    <2> QED
      BY <2>2, <2>3
  <1> QED
    BY <1>2, <1>3, <1>4 DEF User

LEMMA UnderwayStays ==
  ASSUME NEW blocks, NEW got, NEW file, NEW other, NEW exact, NEW exactly,
         Underway(blocks, got, file, exact), other.sent = file.sent,
         exactly => exact /\ other.data = file.data
  PROVE  Underway(blocks, got, other, exactly)
  BY DEF Underway

LEMMA UserDialogue ==
  ASSUME Framed, Doomed \/ Exchange
  PROVE  Doomed' \/ Exchange'
  <1>1. CASE Doomed
    BY <1>1 DEF Doomed, Framed, Arrived
  <1>2. CASE Exchange
    <2>1. /\ UNCHANGED <<ToCome, Confirmed>>
          /\ Stuck => Stuck'
          /\ Free => Free'
      BY DEF Framed, ToCome, Confirmed, Stuck, Free
    <2>2. Idle => Idle'
      BY <2>1 DEF Idle, Framed
    <2>3. Checking => Checking'
      BY <2>1 DEF Checking, Framed
    <2>4. TreeSent => TreeSent'
      BY <2>1 DEF TreeSent, Framed
    <2>5. NextDue => NextDue'
      BY <2>1 DEF NextDue, Framed
    <2>6. Exact' => Exact /\ opened'.data = opened.data
      BY DEF Framed
    <2>7. /\ Underway(Tail(toServer), 0, opened, Exact) => Underway(Tail(toServer'), 0, opened', Exact')
          /\ Underway(toServer, incoming.got, opened, Exact)
                => Underway(toServer', incoming'.got, opened', Exact')
      BY <2>6, UnderwayStays DEF Framed
    <2>8. Arriving => Arriving'
      BY <2>6 DEF Arriving, Framed
    <2>9. Sending => Sending'
      BY <2>1, <2>7, <2>8 DEF Sending, HeaderDue, DataDue, Stored, Over, Framed
    <2>10. client = "await_fconf" => opened'.data = opened.data
      BY DEF Framed
    <2> QED
      BY <1>2, <2>1, <2>2, <2>3, <2>4, <2>5, <2>9, <2>10 DEF Exchange, Framed
  <1> QED
    BY <1>1, <1>2

-----------------------------------------------------------------------------
Conversation == Typed /\ Connected /\ Measured /\ Dialogue

LEMMA InitConversation ==
  ASSUME Init
  PROVE  Conversation
  <1>1. Idle
    BY DEF Init, Idle, Free
  <1>2. client = "idle"
    BY DEF Init
  <1>3. Exchange
    BY <1>1, <1>2 DEF Exchange
  <1> QED
    BY <1>3, InitTyped, InitConnected DEF Conversation, Dialogue

\* A connection that has gone does not come back.
LEMMA LinkFalls ==
  ASSUME [Next]_vars, link'
  PROVE  link /\ (ServerStep \/ ClientStep \/ User \/ UNCHANGED vars)
  <1>1. CASE ServerStep
    BY <1>1 DEF ServerStep, CheckVersion, TreeReception, NoSync, Request,
       ReceiveFileHeader, ReceiveBlock, ReceiveTornFile, ConfirmFile, SkipFile,
       UpdateHash, CloseConnection, ParseError, BuildTreeThrows, Terminate, netVars
  <1>2. CASE ClientStep
    BY <1>2 DEF ClientStep, InitiateSync, OnLatest, OnNotLatest, LocalTreeThrows,
       OnTreeConfirmation, OnNoSyncNeeded, OpenFile, OpenFails, SendBlock, EndOfFile,
       OnFileConfirmation, OnClosed, Dies, netVars
  <1>3. CASE User \/ UNCHANGED vars
    BY <1>3 DEF User, Replace, Overwrite, Delete, MakeDirectory, Edit, vars, netVars
  <1>4. ~ Environment
    BY DEF Environment, BrokenPipe, ClientBrokenPipe, KillClient, Terminate, Dies
  <1> QED
    BY <1>1, <1>2, <1>3, <1>4 DEF Next

LEMMA StepConversation ==
  ASSUME Conversation, [Next]_vars
  PROVE  Conversation'
  <1>1. Typed /\ Connected /\ Measured /\ Dialogue
    BY DEF Conversation
  <1>2. Typed' /\ Connected' /\ Measured'
    BY <1>1, StepTyped, StepConnected, StepMeasured
  <1>3. ASSUME link' PROVE Doomed' \/ Exchange'
    <2>1. link /\ (ServerStep \/ ClientStep \/ User \/ UNCHANGED vars)
      BY <1>3, LinkFalls
    <2>2. Doomed \/ Exchange
      BY <1>1, <2>1 DEF Dialogue
    <2>3. CASE ServerStep
      BY <1>1, <1>3, <2>1, <2>2, <2>3, ServerDialogue
    <2>4. CASE ClientStep
      BY <1>1, <1>3, <2>1, <2>2, <2>4, ClientDialogue
    <2>5. CASE User \/ UNCHANGED vars
      BY <1>1, <2>2, <2>5, UserFrames, UserDialogue
    <2> QED
      BY <2>1, <2>3, <2>4, <2>5
  <1> QED
    BY <1>2, <1>3 DEF Conversation, Dialogue

LEMMA AlwaysConversing ==
  Spec => []Conversation
  BY InitConversation, StepConversation, PTL DEF Spec

\* Client and server, both waiting with nothing in transit, have lost a file
\* on its way.
LEMMA ConversationWaits ==
  ASSUME Conversation
  PROVE  WaitsHaveCause
  <1> SUFFICES ASSUME link, toServer = <<>>, toClient = <<>>, client \in Awaiting,
                      handler \in {"poll", "await_file", "file_data"}
               PROVE  mishaps \cap {"missing", "directory", "shrunk"} # {}
    BY DEF WaitsHaveCause
  <1>1. Exchange /\ Typed /\ Measured
    BY DEF Conversation, Dialogue, Doomed, Arrived
  <1>2. CASE client = "await_latest"
    BY <1>1, <1>2, OneMessage DEF Exchange, Checking
  <1>3. CASE client = "await_conf"
    BY <1>1, <1>3, OneMessage DEF Exchange, TreeSent, Confirmed
  <1>4. CASE client = "await_response"
    BY <1>1, <1>4, OneMessage DEF Exchange, Answered, Goes
  <1>5. CASE client = "await_next"
    BY <1>1, <1>5, OneMessage DEF Exchange, NextDue, Goes, Stuck
  <1>6. CASE client = "await_fconf"
    <2>1. DataDue /\ opened.sent >= Len(opened.data)
      BY <1>1, <1>6 DEF Exchange, Sending, HeaderDue, Stored, Over, Confirmed
    <2>2. /\ Len(opened.data) \in Nat /\ opened.sent \in Nat /\ opened.size \in Int
          /\ incoming.got \in Nat
      BY <1>1, OpenedData DEF Typed, ServerTyped
    <2>3. Len(<<>>) = opened.sent - incoming.got /\ incoming.got < opened.size
      BY <2>1 DEF DataDue, Underway
    <2>4. Len(opened.data) < opened.size
      <3>1. Len(<<>>) = 0
        OBVIOUS
      <3> QED
        BY <2>1, <2>2, <2>3, <3>1
    <2> QED
      BY <1>1, <2>4 DEF Measured
  <1> QED
    BY <1>2, <1>3, <1>4, <1>5, <1>6 DEF Awaiting

LEMMA ConversationStores ==
  ASSUME Conversation
  PROVE  StoresWhatWasOpened
  <1> SUFFICES ASSUME handler = "confirm_file", link, "rewritten" \notin mishaps
               PROVE  files[incoming.name] = opened.data /\ incoming.name = <<Last(opened.path)>>
    BY DEF StoresWhatWasOpened
  <1>1. Exchange /\ Typed /\ Measured /\ client # "dead"
    BY DEF Conversation, Dialogue, Doomed, Measured, Connected
  <1>2. Stored
    <2>1. client \in Awaiting \cup {"idle", "sending"}
      BY <1>1 DEF Typed, ClientTyped
    <2> QED
      BY <1>1, <2>1 DEF Exchange, Idle, Free, Stuck, Checking, TreeSent, NextDue, Answered,
         Goes, Sending, HeaderDue, DataDue, Over, Awaiting
  <1>3. /\ files[incoming.name] = SubSeq(opened.data, 1, opened.sent)
        /\ incoming.name = <<Last(opened.path)>> /\ opened.sent >= opened.size
    BY <1>2 DEF Stored, Arriving, Exact
  <1>4. /\ opened.sent <= Len(opened.data)
        /\ Len(opened.data) = opened.size \/ opened.data = <<>>
    BY <1>1 DEF Measured
  <1>5. /\ opened.data \in Seq(Blocks) /\ Len(opened.data) \in Nat /\ opened.sent \in Nat
        /\ opened.size \in Int /\ (opened.data = <<>> <=> Len(opened.data) = 0)
    BY <1>1, OpenedData DEF Typed
  <1>6. opened.sent = Len(opened.data)
    BY <1>3, <1>4, <1>5
  <1> QED
    BY <1>3, <1>5, <1>6, WholePart

LEMMA ConversationEnds ==
  ASSUME Conversation, EndHasCause, [Next]_vars
  PROVE  EndHasCause'
  <1>1. Typed /\ Connected
    BY DEF Conversation
  <1>2. CASE Terminate /\ (ServerStep \/ BrokenPipe)
    <2>1. UNCHANGED <<files, client, mishaps>>
      BY <1>2 DEF Terminate, clientVars
    <2>2. CASE ParseError
      <3>1. CASE link
        <4>1. Doomed \/ Exchange
          BY <3>1 DEF Conversation, Dialogue
        <4>2. toServer # <<>> /\ Head(toServer).type = "block" /\ handler \in {"poll", "await_file"}
          BY <2>2 DEF ParseError, Arrived
        <4>3. client = "dead" \/ ~ Exchange
          <5>1. \A m : Head(<<m>>) = m
            BY OneMessage
          <5>2. /\ \A hash : toServer # <<CheckLatest(hash)>>
                /\ \A flag : toServer # <<Tree(flag, sentTree)>>
                /\ Head(toServer) # FileHeader(opened.path, opened.size)
            BY <4>2, <5>1, MessageTypes
          <5>3. client \in Awaiting \cup {"idle", "sending", "dead"}
            BY <1>1 DEF Typed, ClientTyped
          <5> QED
            BY <4>2, <5>2, <5>3 DEF Exchange, Idle, Checking, TreeSent, NextDue, Sending,
               HeaderDue, DataDue, Stored, Over, Awaiting
        <4>4. "grown" \in mishaps \/ client = "dead"
          BY <4>1, <4>3 DEF Doomed
        <4> QED
          BY <2>1, <4>4 DEF EndHasCause
      <3>2. CASE ~ link
        <4>1. client = "dead" \/ ~ running
          BY <1>1, <3>2 DEF Connected
        <4>2. running
          BY <1>1, <2>2 DEF Connected, ParseError
        <4> QED
          BY <2>1, <4>1, <4>2 DEF EndHasCause
      <3> QED
        BY <3>1, <3>2
    <2>3. CASE BuildTreeThrows
      <3>1. ~ CanBuildTree(files)
        BY <2>3 DEF BuildTreeThrows
      <3> QED
        BY <2>1, <3>1 DEF EndHasCause
    <2>4. CASE BrokenPipe
      <3>1. handler # "closed" /\ ~ link
        BY <2>4 DEF BrokenPipe
      <3>2. client = "dead"
        BY <1>1, <3>1 DEF Connected
      <3> QED
        BY <2>1, <3>2 DEF EndHasCause
    <2>5. ASSUME running' = running PROVE EndHasCause'
      BY <2>1, <2>5 DEF EndHasCause
    <2> QED
      BY <1>2, <2>2, <2>3, <2>4, <2>5 DEF ServerStep, CheckVersion, TreeReception, NoSync,
         Request, ReceiveFileHeader, ReceiveBlock, ReceiveTornFile, ConfirmFile, SkipFile,
         UpdateHash, CloseConnection, serverVars
  <1>3. CASE ~ (Terminate /\ (ServerStep \/ BrokenPipe))
    <2>1. running' = running
      BY <1>3 DEF Next, vars, serverVars, ServerStep, CheckVersion, TreeReception, NoSync,
         Request, ReceiveFileHeader, ReceiveBlock, ReceiveTornFile, ConfirmFile, SkipFile,
         UpdateHash, CloseConnection, ParseError, BuildTreeThrows, ClientStep, InitiateSync,
         OnLatest, OnNotLatest, LocalTreeThrows, OnTreeConfirmation, OnNoSyncNeeded, OpenFile,
         OpenFails, SendBlock, EndOfFile, OnFileConfirmation, OnClosed, Environment,
         BrokenPipe, ClientBrokenPipe, KillClient, User, Replace, Overwrite, Delete,
         MakeDirectory, Edit
    <2>2. CASE running
      BY <2>1, <2>2 DEF EndHasCause
    <2>3. CASE ~ running
      <3>1. handler = "closed"
        BY <1>1, <2>3 DEF Connected
      <3>2. files' = files /\ ~ ServerStep /\ ~ BrokenPipe
        BY <1>3, <3>1 DEF Next, vars, serverVars, ServerStep, CheckVersion, TreeReception,
           NoSync, Request, ReceiveFileHeader, ReceiveBlock, ReceiveTornFile, ConfirmFile,
           SkipFile, UpdateHash, CloseConnection, ParseError, BuildTreeThrows, ClientStep,
           InitiateSync, OnLatest, OnNotLatest, LocalTreeThrows, OnTreeConfirmation,
           OnNoSyncNeeded, OpenFile, OpenFails, SendBlock, EndOfFile, OnFileConfirmation,
           OnClosed, Environment, BrokenPipe, ClientBrokenPipe, KillClient, User, Replace,
           Overwrite, Delete, MakeDirectory, Edit
      <3>3. client = "dead" => client' = "dead"
        BY <3>2 DEF Next, vars, clientVars, ClientStep, InitiateSync, OnLatest, OnNotLatest,
           LocalTreeThrows, OnTreeConfirmation, OnNoSyncNeeded, OpenFile, OpenFails,
           SendBlock, EndOfFile, OnFileConfirmation, OnClosed, Requested, Awaiting,
           Environment, ClientBrokenPipe, KillClient, Dies, User, Replace, Overwrite,
           Delete, MakeDirectory, Edit
      <3>4. mishaps \subseteq mishaps'
        <4>1. CASE ClientStep
          BY <4>1, ClientLeaves
        <4>2. CASE User \/ UNCHANGED vars
          BY <1>1, <4>2, UserFrames DEF Framed
        <4>3. CASE ClientBrokenPipe \/ KillClient
          BY <4>3 DEF ClientBrokenPipe, KillClient
        <4>4. Next \/ UNCHANGED vars
          OBVIOUS
        <4>5. ServerStep \/ ClientStep \/ Environment \/ User \/ UNCHANGED vars
          BY <4>4 DEF Next
        <4>6. Environment => BrokenPipe \/ ClientBrokenPipe \/ KillClient
          BY DEF Environment
        <4> QED
          BY <3>2, <4>1, <4>2, <4>3, <4>5, <4>6
      <3> QED
        BY <2>3, <3>2, <3>3, <3>4 DEF EndHasCause
    <2> QED
      BY <2>2, <2>3
  <1> QED
    BY <1>2, <1>3

\* Neither side has a time limit, and still they never wait for each other but
\* after a requested node could not be opened, announced more than could be
\* read of it, or lost chunks after it was measured (ServerCommunicator.cpp).
THEOREM WaitingHasCause == Spec => []WaitsHaveCause
  <1>1. Conversation => WaitsHaveCause
    BY ConversationWaits
  <1> QED
    BY <1>1, AlwaysConversing, PTL

\* Bytes are taken for a message, and end the server, only when a file grew
\* after it was measured; a killed client and a directory that cannot be
\* hashed are the other causes there are.
THEOREM EndingHasCause == Spec => []EndHasCause
  <1>1. Init => EndHasCause
    BY DEF Init, EndHasCause
  <1>2. Conversation /\ EndHasCause /\ [Next]_vars => EndHasCause'
    BY ConversationEnds
  <1> QED
    BY <1>1, <1>2, AlwaysConversing, PTL DEF Spec

\* What the server confirms is what the client opened, every chunk of it and
\* under the last component of its path, unless the file was written in place
\* while it was open (ClientCommunicator.cpp, handleFileReception).
THEOREM StoredIsOpened == Spec => []StoresWhatWasOpened
  <1>1. Conversation => StoresWhatWasOpened
    BY ConversationStores
  <1> QED
    BY <1>1, AlwaysConversing, PTL

-----------------------------------------------------------------------------
(* The names that are to come, from the comparison to the last file.       *)

Targets(paths) == {Target(p) : p \in paths \ {Root}}

Announced(stream) ==
    IF stream # <<>> /\ Head(stream).type = "file_transfer" THEN {Head(stream).name} ELSE {}

Asked(answers) == {m.path : m \in {a \in answers : a.type = "request_file"}}

\* The nodes that the server has not yet begun to store.
Pending(added, stream, answers) ==
    ToSet(added) \cup Announced(stream) \cup Asked(ToSet(answers))

\* The next node will be given up, for the server reads bytes as its metadata.
Lost == Doomed /\ handler \in {"request", "await_file"}

Following ==
    /\ link /\ ~ ahead /\ "missing" \notin mishaps
    /\ handler \in Holding \ {"no_sync"} /\ ~ Lost

Mirrored ==
    Targets(DOMAIN sentTree) =
        DOMAIN files \cup Targets(Pending(addedFiles, toServer, toClient))

Mirrors ==
    /\ handler = "rehash" => addedFiles = <<>>
    /\ Following => Mirrored

LEMMA Elements ==
  ASSUME NEW S, NEW s \in Seq(S)
  PROVE  /\ s # <<>> => ToSet(s) = {Head(s)} \cup ToSet(Tail(s))
         /\ \A m \in S : ToSet(s \o <<m>>) = ToSet(s) \cup {m}
  <1>1. Len(s) \in Nat /\ DOMAIN s = 1..Len(s)
    BY LenProperties
  <1>2. ASSUME s # <<>> PROVE ToSet(s) = {Head(s)} \cup ToSet(Tail(s))
    <2>1. Len(s) # 0 /\ Head(s) = s[1]
      BY <1>2, EmptySeq
    <2> DEFINE t == Tail(s)
    <2>2. /\ t \in Seq(S) /\ Len(t) = Len(s) - 1
          /\ \A i \in 1..Len(s) - 1 : t[i] = s[i + 1]
      BY <1>2, HeadTailProperties
    <2>3. DOMAIN t = 1..Len(s) - 1
      BY <2>2, LenProperties
    <2> HIDE DEF t
    <2>4. ASSUME NEW i \in 1..Len(s) PROVE s[i] \in {s[1]} \cup ToSet(t)
      <3>1. CASE i = 1
        BY <3>1
      <3>2. CASE i # 1
        <4>1. i - 1 \in 1..Len(s) - 1 /\ (i - 1) + 1 = i
          BY <1>1, <3>2
        <4>2. t[i - 1] = s[i]
          BY <2>2, <4>1
        <4> QED
          BY <2>3, <4>1, <4>2 DEF ToSet
      <3> QED
        BY <3>1, <3>2
    <2>5. ASSUME NEW i \in 1..Len(s) - 1 PROVE t[i] \in ToSet(s)
      <3>1. i + 1 \in 1..Len(s)
        BY <1>1
      <3> QED
        BY <1>1, <2>2, <3>1 DEF ToSet
    <2>6. s[1] \in ToSet(s)
      <3>1. 1 \in 1..Len(s)
        BY <1>1, <2>1
      <3> QED
        BY <1>1, <3>1 DEF ToSet
    <2>7. ToSet(s) \subseteq {s[1]} \cup ToSet(t)
      <3>1. ToSet(s) = {s[i] : i \in 1..Len(s)}
        BY <1>1 DEF ToSet
      <3> QED
        BY <2>4, <3>1
    <2>8. ToSet(t) \subseteq ToSet(s)
      <3>1. ToSet(t) = {t[i] : i \in 1..Len(s) - 1}
        BY <2>3 DEF ToSet
      <3> QED
        BY <2>5, <3>1
    <2> QED
      BY <2>1, <2>6, <2>7, <2>8 DEF t
  <1>3. ASSUME NEW m \in S PROVE ToSet(s \o <<m>>) = ToSet(s) \cup {m}
    <2> DEFINE t == s \o <<m>>
    <2>1. /\ t \in Seq(S) /\ Len(t) = Len(s) + 1
          /\ \A i \in 1..Len(s) : t[i] = s[i]
          /\ t[Len(s) + 1] = m
      BY Sent
    <2>2. DOMAIN t = 1..Len(s) + 1
      BY <2>1, LenProperties
    <2> HIDE DEF t
    <2>3. \A i \in 1..Len(s) + 1 : i \in 1..Len(s) \/ i = Len(s) + 1
      BY <1>1
    <2>4. 1..Len(s) \subseteq 1..Len(s) + 1 /\ Len(s) + 1 \in 1..Len(s) + 1
      BY <1>1
    <2>5. ToSet(t) = {t[i] : i \in 1..Len(s) + 1} /\ ToSet(s) = {s[i] : i \in 1..Len(s)}
      BY <1>1, <2>2 DEF ToSet
    <2> QED
      BY <2>1, <2>3, <2>4, <2>5 DEF t
  <1> QED
    BY <1>2, <1>3

\* What appended and taken messages change.
LEMMA PendingMoves ==
  ASSUME NEW added, NEW stream \in Seq(ServerBound), NEW answers \in Seq(ClientBound)
  PROVE  /\ \A m : m.type # "file_transfer" =>
                Pending(added, stream \o <<m>>, answers) = Pending(added, stream, answers)
         /\ \A m \in ClientBound : m.type # "request_file" =>
                Pending(added, stream, answers \o <<m>>) = Pending(added, stream, answers)
         /\ answers # <<>> /\ Head(answers).type # "request_file" =>
                Pending(added, stream, Tail(answers)) = Pending(added, stream, answers)
  <1>1. ASSUME NEW m, m.type # "file_transfer"
        PROVE  Announced(stream \o <<m>>) = Announced(stream)
    <2>1. CASE stream = <<>>
      BY <1>1, <2>1, OneMessage DEF Announced
    <2>2. CASE stream # <<>>
      BY <2>2, HeadKept DEF Announced
    <2> QED
      BY <2>1, <2>2
  <1>2. ASSUME NEW m \in ClientBound, m.type # "request_file"
        PROVE  Asked(ToSet(answers \o <<m>>)) = Asked(ToSet(answers))
    BY <1>2, Elements DEF Asked
  <1>3. ASSUME answers # <<>>, Head(answers).type # "request_file"
        PROVE  Asked(ToSet(Tail(answers))) = Asked(ToSet(answers))
    BY <1>3, Elements DEF Asked
  <1> QED
    BY <1>1, <1>2, <1>3 DEF Pending

\* The tree as it arrives is the one the client sent last, and nothing else is
\* under way.
LEMMA TreeArrives ==
  ASSUME Typed, Doomed \/ Exchange, client # "dead", handler = "poll", Arrived("tree")
  PROVE  /\ Head(toServer).tree = sentTree /\ Tail(toServer) = <<>> /\ toClient = <<>>
  <1>1. Exchange
    BY DEF Doomed, Arrived
  <1>2. client \in Awaiting \cup {"idle", "sending"}
    BY DEF Typed, ClientTyped
  <1>3. toServer # <<>> /\ Head(toServer).type = "tree"
    BY DEF Arrived
  <1>4. client = "await_conf" \/ (client = "await_latest" /\ Checking)
    BY <1>1, <1>2, <1>3 DEF Exchange, Idle, NextDue, Sending, HeaderDue, DataDue, Stored,
       Over, Awaiting
  <1>5. ~ Checking
    BY <1>3, OneMessage, MessageTypes DEF Checking
  <1>6. TreeSent
    BY <1>1, <1>4, <1>5 DEF Exchange
  <1>7. PICK flag : toServer = <<Tree(flag, sentTree)>> /\ toClient = <<>>
    BY <1>3, <1>6 DEF TreeSent
  <1>8. Head(toServer) = Tree(flag, sentTree) /\ Tail(toServer) = <<>>
    BY <1>7, OneMessage
  <1> QED
    BY <1>7, <1>8, MessageTypes

\* The comparison: what stays and what is requested has the names of the tree.
LEMMA MirrorsCompared ==
  ASSUME Typed, Doomed \/ Exchange, client # "dead", link, TreeReception, Following'
  PROVE  Mirrored'
  <1> DEFINE received == loadFromFile(Head(toServer).tree)
             added == addedNodes(Own, received, ClientOrder)
             removed == removedNodes(Own, received, ServerOrder)
  <1>1. handler = "poll" /\ Arrived("tree")
    BY DEF TreeReception
  <1>2. Compared(Head(toServer).tree, Head(toServer).ahead) /\ ServerTyped
    BY <1>1, ArrivedTree DEF Typed
  <1>3. Head(toServer).tree = sentTree /\ Tail(toServer) = <<>> /\ toClient = <<>>
    BY <1>1, TreeArrives
  <1>4. ~ Head(toServer).ahead
    <2>1. ~ ahead' /\ ahead' = Head(toServer).ahead
      BY DEF Following, TreeReception
    <2> QED
      BY <2>1
  <1>5. addedFiles' = added /\ DOMAIN files' = DOMAIN files \ ToSet(removed)
        /\ sentTree' = sentTree /\ toServer' = <<>> /\ toClient' = <<Answer("confirmation")>>
    BY <1>3, <1>4, OneMessage DEF TreeReception, Added, Removed, Receive, Reply, clientVars
  <1>6. /\ NodeSet(DOMAIN Own) /\ NodeSet(DOMAIN received)
        /\ DOMAIN received = DOMAIN sentTree /\ DOMAIN Own = DOMAIN files \cup {Root}
    BY <1>2, <1>3 DEF Compared
  <1>7. DOMAIN files \subseteq FileNames
    BY <1>2 DEF ServerTyped
  <1>8. (DOMAIN Own \ ToSet(removed)) \cup ToSet(added) = DOMAIN received
    <2> DEFINE added0 == addedNodes(Own, received, NameOrder)
               removed0 == removedNodes(Own, received, NameOrder)
    <2>1. (DOMAIN Own \ ToSet(removed0)) \cup ToSet(added0) = DOMAIN received
      <3>1. ReportIsExact(Own, received)
        BY <1>6, ComparerIsExact
      <3> QED
        BY <3>1 DEF ReportIsExact
    <2>2. ToSet(added0) = ToSet(added) /\ ToSet(removed0) = ToSet(removed)
      <3>1. IsOrder(NameOrder) /\ IsOrder(ServerOrder) /\ IsOrder(ClientOrder)
        BY PathAssumption, UploadAssumption
      <3> HIDE DEF received
      <3> QED
        BY <1>6, <3>1, ReportedSets
    <2> QED
      BY <2>1, <2>2
  <1> HIDE DEF received, added, removed
  <1>9. Pending(addedFiles', toServer', toClient') = ToSet(added)
    <2>1. Announced(<<>>) = {}
      BY DEF Announced
    <2>2. ToSet(<<Answer("confirmation")>>) = {Answer("confirmation")}
      BY Singleton
    <2>3. Asked(ToSet(<<Answer("confirmation")>>)) = {}
      BY <2>2, MessageTypes DEF Asked
    <2> QED
      BY <1>5, <2>1, <2>3 DEF Pending
  <1>10. \A n \in DOMAIN files : Target(n) = n /\ n # Root
    <2>1. \A n \in FileNames : Target(n) = n /\ n # Root
      BY FlatNames DEF Target, Last
    <2> QED
      BY <1>7, <2>1
  <1>11. Targets(DOMAIN sentTree) = (DOMAIN files \ ToSet(removed)) \cup Targets(ToSet(added))
    BY <1>6, <1>8, <1>10 DEF Targets
  <1> QED
    BY <1>5, <1>9, <1>11 DEF Mirrored

\* A request takes over a node from those that are to be requested.
LEMMA MirrorsRequested ==
  ASSUME Typed, link, Request, Mirrored
  PROVE  Mirrored'
  <1> DEFINE m == RequestFile(Head(addedFiles), Len(addedFiles))
  <1>1. addedFiles \in Seq(Requestable) /\ addedFiles # <<>>
    BY DEF Request, Typed, ServerTyped
  <1>2. ToSet(addedFiles) = {Head(addedFiles)} \cup ToSet(Tail(addedFiles))
    BY <1>1, Elements
  <1>3. m \in ClientBound
    <2>1. Head(addedFiles) \in Requestable
      BY <1>1, Received
    <2>2. Len(addedFiles) \in Nat \ {0}
      BY <1>1, EmptySeq, LenProperties
    <2> QED
      BY <2>1, <2>2, Answers
  <1>4. m.type = "request_file" /\ m.path = Head(addedFiles)
    BY MessageTypes
  <1>5. addedFiles' = Tail(addedFiles) /\ toClient' = toClient \o <<m>>
        /\ UNCHANGED <<files, toServer, sentTree>>
    BY DEF Request, Reply, clientVars
  <1> HIDE DEF m
  <1>6. ToSet(toClient') = ToSet(toClient) \cup {m}
    BY <1>3, <1>5, Elements DEF Typed, NetTyped
  <1>7. Asked(ToSet(toClient')) = Asked(ToSet(toClient)) \cup {Head(addedFiles)}
    BY <1>4, <1>6 DEF Asked
  <1>8. Pending(addedFiles', toServer', toClient') = Pending(addedFiles, toServer, toClient)
    BY <1>2, <1>5, <1>7 DEF Pending
  <1> QED
    BY <1>5, <1>8 DEF Mirrored

\* What follows the metadata of a file are its chunks.
LEMMA ChunksFollow ==
  ASSUME NEW stream \in Seq(ServerBound), NEW got, NEW file, NEW exact,
         Underway(stream, got, file, exact)
  PROVE  /\ Announced(stream) = {}
         /\ stream # <<>> => Announced(Tail(stream)) = {}
  <1>1. Len(stream) \in Nat /\ \A i \in 1..Len(stream) : stream[i].type = "block"
    BY LenProperties DEF Underway
  <1>2. ASSUME stream # <<>> PROVE Head(stream).type = "block"
    <2>1. Len(stream) # 0 /\ Head(stream) = stream[1]
      BY <1>2, EmptySeq
    <2> QED
      BY <1>1, <2>1
  <1>3. ASSUME stream # <<>>, Tail(stream) # <<>> PROVE Head(Tail(stream)).type = "block"
    <2> DEFINE t == Tail(stream)
    <2>1. /\ t \in Seq(ServerBound) /\ Len(t) = Len(stream) - 1
          /\ \A i \in 1..Len(stream) - 1 : t[i] = stream[i + 1]
      BY <1>3, HeadTailProperties
    <2> HIDE DEF t
    <2>2. t # <<>>
      BY <1>3 DEF t
    <2>3. Len(t) # 0 /\ Head(t) = t[1]
      BY <2>1, <2>2, EmptySeq
    <2>4. 1 \in 1..Len(stream) - 1 /\ 1 + 1 \in 1..Len(stream)
      BY <1>1, <2>1, <2>3
    <2> QED
      BY <1>1, <2>1, <2>3, <2>4 DEF t
  <1> QED
    BY <1>2, <1>3 DEF Announced

\* A header that arrives makes a name of the directory of what was to come.
LEMMA MirrorsStored ==
  ASSUME Typed, Exchange, client # "dead", link, ReceiveFileHeader, Mirrored
  PROVE  Mirrored'
  <1>1. handler = "await_file" /\ toServer # <<>> /\ Head(toServer).type = "file_transfer"
    BY DEF ReceiveFileHeader, Arrived
  <1>2. client \in Awaiting \cup {"idle", "sending"}
    BY DEF Typed, ClientTyped
  <1>3. ~ Checking /\ ~ TreeSent
    BY <1>1, OneMessage, MessageTypes DEF Checking, TreeSent
  <1>4. opened.path # Root /\ HeaderDue
    BY <1>1, <1>2, <1>3 DEF Exchange, Idle, NextDue, Sending, DataDue, Stored, Over, Awaiting
  <1>5. Head(toServer) = FileHeader(opened.path, opened.size)
        /\ Underway(Tail(toServer), 0, opened, Exact)
    BY <1>4 DEF HeaderDue
  <1>6. Head(toServer).name = opened.path /\ opened.path # Root
    BY <1>4, <1>5, MessageTypes
  <1>7. /\ addedFiles' = addedFiles /\ toClient' = toClient /\ toServer' = Tail(toServer)
        /\ DOMAIN files' = DOMAIN files \cup {Target(opened.path)} /\ sentTree' = sentTree
    BY <1>6 DEF ReceiveFileHeader, Receive, clientVars
  <1>8. Announced(toServer) = {opened.path}
    BY <1>1, <1>6 DEF Announced
  <1>9. Tail(toServer) \in Seq(ServerBound)
    BY <1>1, Received DEF Typed, NetTyped
  <1>10. Announced(toServer') = {}
    BY <1>1, <1>5, <1>7, <1>9, ChunksFollow
  <1>11. /\ Pending(addedFiles, toServer, toClient)
              = Pending(addedFiles', toServer', toClient') \cup {opened.path}
    BY <1>7, <1>8, <1>10 DEF Pending
  <1>12. Targets(Pending(addedFiles, toServer, toClient))
              = Targets(Pending(addedFiles', toServer', toClient')) \cup {Target(opened.path)}
    BY <1>6, <1>11 DEF Targets
  <1> QED
    BY <1>7, <1>12 DEF Mirrored

\* Where the thread goes to the last step, nothing is left to request.
LEMMA NothingLeft ==
  ASSUME Mirrors, [Next]_vars
  PROVE  (handler = "rehash" => addedFiles = <<>>)'
  <1>1. handler = "rehash" => addedFiles = <<>>
    BY DEF Mirrors
  <1>2. CASE ServerStep
    BY <1>1, <1>2 DEF ServerStep, CheckVersion, TreeReception, NoSync, Request,
       ReceiveFileHeader, ReceiveBlock, ReceiveTornFile, ConfirmFile, SkipFile, NextFile,
       UpdateHash, CloseConnection, ParseError, BuildTreeThrows, Terminate, GoTo, serverVars
  <1>3. CASE ClientStep
    BY <1>1, <1>3, ClientLeaves
  <1>4. CASE User \/ UNCHANGED vars
    BY <1>1, <1>4 DEF User, Replace, Overwrite, Delete, MakeDirectory, Edit, vars, serverVars
  <1>5. CASE Environment
    BY <1>1, <1>5 DEF Environment, BrokenPipe, ClientBrokenPipe, KillClient, Terminate,
       serverVars
  <1>6. ServerStep \/ ClientStep \/ Environment \/ User \/ UNCHANGED vars
    BY DEF Next
  <1> QED
    BY <1>2, <1>3, <1>4, <1>5, <1>6

\* While data is received there is no metadata under way.
LEMMA NoHeaderInData ==
  ASSUME Typed, Doomed \/ Exchange, client # "dead", handler = "file_data"
  PROVE  /\ toServer \in Seq(ServerBound) /\ Announced(toServer) = {}
         /\ toServer # <<>> => Announced(Tail(toServer)) = {}
  <1>1. Exchange
    BY DEF Doomed
  <1>2. client \in Awaiting \cup {"idle", "sending"}
    BY DEF Typed, ClientTyped
  <1>3. DataDue
    BY <1>1, <1>2 DEF Exchange, Idle, Free, Stuck, Checking, TreeSent, NextDue, Answered,
       Goes, Sending, HeaderDue, Stored, Over, Awaiting
  <1>4. toServer \in Seq(ServerBound)
    BY DEF Typed, NetTyped
  <1> QED
    BY <1>3, <1>4, ChunksFollow DEF DataDue

LEMMA MirrorsServer ==
  ASSUME Typed, Doomed \/ Exchange, client # "dead", Mirrors, ServerStep, link, link',
         Following'
  PROVE  Mirrored'
  <1>1. UNCHANGED <<client, sentTree, opened, remaining, mishaps>>
    BY ServerLeaves
  <1>2. handler' \in Holding \ {"no_sync"} /\ ~ ahead' /\ "missing" \notin mishaps /\ ~ Lost'
    BY <1>1 DEF Following
  <1>3. Doomed => Doomed'
    BY DoomedServer
  <1>4. ASSUME handler \in Holding \ {"no_sync"}, ahead' = ahead, ~ Lost PROVE Mirrored
    BY <1>1, <1>2, <1>4 DEF Mirrors, Following
  <1>5. CASE handler = "poll"
    BY <1>2, <1>5, HandlerStep, MirrorsCompared DEF CheckVersion, serverVars, Holding
  <1>6. CASE handler = "no_sync"
    BY <1>2, <1>6, HandlerStep DEF NoSync, GoTo, Holding
  <1>7. CASE handler = "request"
    <2>1. Request /\ handler' = "await_file" /\ ahead' = ahead
      BY <1>7, HandlerStep DEF Request, GoTo
    <2>2. ~ Lost
      BY <1>2, <1>3, <2>1 DEF Lost
    <2> QED
      BY <1>4, <1>7, <2>1, <2>2, MirrorsRequested DEF Holding
  <1>8. CASE handler = "await_file"
    <2>1. CASE ReceiveFileHeader
      <3>1. ahead' = ahead /\ ~ Doomed
        BY <2>1 DEF ReceiveFileHeader, Doomed, Arrived
      <3>2. Exchange /\ ~ Lost
        BY <3>1 DEF Lost
      <3> QED
        BY <1>4, <1>8, <2>1, <3>1, <3>2, MirrorsStored DEF Holding
    <2>2. CASE Arrived("check_latest")
      <3>1. Exchange
        BY <2>2 DEF Doomed, Arrived
      <3>2. client \in Awaiting \cup {"idle", "sending"}
        BY DEF Typed, ClientTyped
      <3>3. toServer # <<>> /\ Head(toServer).type = "check_latest"
        BY <2>2 DEF Arrived
      <3>4. ~ HeaderDue /\ ~ TreeSent
        BY <3>3, OneMessage, MessageTypes DEF HeaderDue, TreeSent
      <3>5. Checking
        BY <1>8, <3>1, <3>2, <3>3, <3>4 DEF Exchange, Idle, NextDue, Sending, DataDue,
           Stored, Over, Awaiting
      <3> QED
        BY <1>2, <1>8, <3>3, <3>5 DEF Checking, Free, Stuck
    <2> QED
      BY <1>8, <2>1, <2>2, HandlerStep
  <1>9. CASE handler = "file_data"
    <2>1. ReceiveBlock
      BY <1>9, HandlerStep
    <2>2. /\ ahead' = ahead /\ addedFiles' = addedFiles /\ toClient' = toClient
          /\ toServer # <<>> /\ toServer' = Tail(toServer) /\ DOMAIN files' = DOMAIN files
      BY <2>1 DEF ReceiveBlock, Receive, Arrived
    <2>3. Mirrored
      BY <1>4, <1>9, <2>2 DEF Lost, Holding
    <2>4. Announced(toServer) = {} /\ Announced(toServer') = {}
      BY <1>9, <2>2, NoHeaderInData
    <2>5. Pending(addedFiles', toServer', toClient') = Pending(addedFiles, toServer, toClient)
      BY <2>2, <2>4 DEF Pending
    <2> QED
      BY <1>1, <2>2, <2>3, <2>5 DEF Mirrored
  <1>10. CASE handler = "confirm_file"
    <2>1. ConfirmFile
      BY <1>10, HandlerStep
    <2>2. /\ UNCHANGED <<ahead, addedFiles, toServer, files>>
          /\ toClient' = toClient \o <<Answer("confirmation")>>
      BY <2>1 DEF ConfirmFile, Reply
    <2>3. Mirrored
      BY <1>4, <1>10, <2>2 DEF Lost, Holding
    <2>4. Pending(addedFiles, toServer, toClient') = Pending(addedFiles, toServer, toClient)
      <3>1. Answer("confirmation") \in ClientBound
            /\ Answer("confirmation").type # "request_file"
        BY Answers, MessageTypes
      <3>2. toServer \in Seq(ServerBound) /\ toClient \in Seq(ClientBound)
        BY DEF Typed, NetTyped
      <3> QED
        BY <2>2, <3>1, <3>2, PendingMoves
    <2> QED
      BY <1>1, <2>2, <2>3, <2>4 DEF Mirrored
  <1>11. CASE handler = "rehash"
    BY <1>2, <1>11, HandlerStep DEF UpdateHash, GoTo, Holding
  <1>12. handler # "closed"
    BY HandlerStep
  <1> QED
    BY <1>5, <1>6, <1>7, <1>8, <1>9, <1>10, <1>11, <1>12 DEF Typed, ServerTyped, Holding

\* What the client sends and takes are no names of their own: it takes a
\* request and sends the metadata for it.
LEMMA PendingOpened ==
  ASSUME Typed, link, Exchange, OpenFile
  PROVE  Pending(addedFiles', toServer', toClient') = Pending(addedFiles, toServer, toClient)
  <1>1. toServer = <<>> /\ Tail(toClient) = <<>>
    BY RequestIs DEF OpenFile
  <1>2. toClient \in Seq(ClientBound) /\ toClient # <<>> /\ Head(toClient).type = "request_file"
    BY DEF OpenFile, Requested, Found, Typed, NetTyped
  <1>3. PICK size : Send(<<FileHeader(Head(toClient).path, size)>>)
    BY DEF OpenFile
  <1>4. toServer' = <<FileHeader(Head(toClient).path, size)>> /\ toClient' = Tail(toClient)
        /\ addedFiles' = addedFiles
    BY <1>1, <1>3, OneMessage DEF OpenFile, Send, Take, serverVars
  <1>5. Announced(toServer) = {} /\ Announced(toServer') = {Head(toClient).path}
    BY <1>1, <1>4, OneMessage, MessageTypes DEF Announced
  <1>6. ToSet(toClient) = {Head(toClient)} \cup ToSet(toClient')
    BY <1>2, <1>4, Elements
  <1>7. Asked(ToSet(toClient)) = Asked(ToSet(toClient')) \cup {Head(toClient).path}
    BY <1>2, <1>6 DEF Asked
  <1> QED
    BY <1>4, <1>5, <1>7 DEF Pending

LEMMA PendingClient ==
  ASSUME Typed, Doomed \/ Exchange, link, link', ClientStep, Following, Following'
  PROVE  /\ Pending(addedFiles', toServer', toClient') = Pending(addedFiles, toServer, toClient)
         /\ sentTree' = sentTree
  <1>1. UNCHANGED <<handler, addedFiles>>
    BY ClientLeaves
  <1>2. toServer \in Seq(ServerBound) /\ toClient \in Seq(ClientBound)
    BY DEF Typed, NetTyped
  <1>3. handler \in Holding \ {"no_sync"} /\ "missing" \notin mishaps' /\ ~ Lost
    BY DEF Following
  <1>4. handler # "poll" /\ handler # "no_sync"
    BY <1>3 DEF Holding
  <1>5. ASSUME toClient # <<>>, Doomed
        PROVE  Head(toClient) = Answer("confirmation")
    <2>1. toClient = <<Answer("confirmation")>>
      BY <1>3, <1>4, <1>5 DEF Doomed, Lost
    <2> QED
      BY <2>1, OneMessage
  <1>6. CASE InitiateSync
    <2>1. toServer' = toServer \o <<CheckLatest(getTreeHash(LocalTree))>>
          /\ UNCHANGED <<sentTree, toClient>>
      BY <1>6 DEF InitiateSync, Send
    <2>2. CheckLatest(getTreeHash(LocalTree)).type # "file_transfer"
      BY MessageTypes
    <2> QED
      BY <1>1, <1>2, <2>1, <2>2, PendingMoves
  <1>7. CASE OnLatest \/ OnNotLatest
    <2>1. client = "await_latest" /\ toClient # <<>>
      BY <1>7 DEF OnLatest, OnNotLatest, Found
    <2>2. ~ Exchange
      BY <1>4, <2>1 DEF Exchange, Checking
    <2>3. Head(toClient) = Answer("confirmation")
      BY <1>5, <2>1, <2>2
    <2>4. Head(toClient).type = "confirmation"
      BY <2>3, MessageTypes
    <2>5. OnLatest
      BY <1>7, <2>4 DEF OnNotLatest, Found
    <2>6. toClient' = Tail(toClient) /\ UNCHANGED <<sentTree, toServer>>
      BY <2>5 DEF OnLatest, Take
    <2> QED
      BY <1>1, <1>2, <2>1, <2>4, <2>6, PendingMoves
  <1>8. CASE OnTreeConfirmation \/ OnNoSyncNeeded
    <2>1. /\ toClient # <<>> /\ Head(toClient).type \in {"confirmation", "no_sync_needed"}
          /\ toClient' = Tail(toClient) /\ UNCHANGED <<sentTree, toServer>>
      BY <1>8 DEF OnTreeConfirmation, OnNoSyncNeeded, Found, Take
    <2> QED
      BY <1>1, <1>2, <2>1, PendingMoves
  <1>9. CASE OnFileConfirmation
    <2>1. /\ toClient # <<>> /\ toClient' = Tail(toClient) /\ UNCHANGED <<sentTree, toServer>>
          /\ client = "await_fconf"
      BY <1>9 DEF OnFileConfirmation, Take
    <2>2. Exchange => Head(toClient) = Answer("confirmation")
      BY <2>1 DEF Exchange, Sending, HeaderDue, DataDue, Stored, Over, Confirmed
    <2>3. Head(toClient).type # "request_file"
      BY <1>5, <2>1, <2>2, MessageTypes
    <2> QED
      BY <1>1, <1>2, <2>1, <2>3, PendingMoves
  <1>10. CASE OpenFile
    <2>1. toClient # <<>> /\ Head(toClient).type = "request_file"
      BY <1>10 DEF OpenFile, Requested, Found
    <2>2. Exchange
      BY <1>5, <2>1, MessageTypes
    <2>3. sentTree' = sentTree
      BY <1>10 DEF OpenFile
    <2> QED
      BY <1>10, <2>2, <2>3, PendingOpened
  <1>11. CASE SendBlock
    <2>1. /\ toServer' = toServer \o <<Block(opened.data[opened.sent + 1])>>
          /\ UNCHANGED <<sentTree, toClient>>
      BY <1>11 DEF SendBlock, Send
    <2>2. Block(opened.data[opened.sent + 1]).type # "file_transfer"
      BY MessageTypes
    <2> QED
      BY <1>1, <1>2, <2>1, <2>2, PendingMoves
  <1>12. CASE EndOfFile \/ OnClosed
    BY <1>1, <1>12 DEF EndOfFile, OnClosed, netVars
  <1>13. ~ OpenFails /\ ~ LocalTreeThrows
    BY <1>3 DEF OpenFails, LocalTreeThrows, Dies
  <1> QED
    BY <1>6, <1>7, <1>8, <1>9, <1>10, <1>11, <1>12, <1>13 DEF ClientStep

LEMMA InitMirrors ==
  ASSUME Init
  PROVE  Mirrors
  BY DEF Init, Mirrors, Following, Holding

LEMMA StepMirrors ==
  ASSUME Conversation, Mirrors, [Next]_vars
  PROVE  Mirrors'
  <1>1. Typed /\ Connected /\ Dialogue
    BY DEF Conversation
  <1>2. (handler = "rehash" => addedFiles = <<>>)'
    BY NothingLeft
  <1>3. ASSUME Following' PROVE Mirrored'
    <2>1. link' /\ "missing" \notin mishaps' /\ ~ ahead' /\ ~ Lost'
          /\ handler' \in Holding \ {"no_sync"}
      BY <1>3 DEF Following
    <2>2. link /\ (ServerStep \/ ClientStep \/ User \/ UNCHANGED vars)
      BY <2>1, LinkFalls
    <2>3. (Doomed \/ Exchange) /\ client # "dead"
      BY <1>1, <2>2 DEF Dialogue, Connected
    <2>4. CASE ServerStep
      BY <1>1, <1>3, <2>1, <2>2, <2>3, <2>4, MirrorsServer
    <2>5. CASE ClientStep
      <3>1. UNCHANGED <<handler, addedFiles, files>> /\ mishaps \subseteq mishaps'
        BY <2>5, ClientLeaves
      <3>2. ahead' = ahead
        BY <2>5 DEF ClientStep, InitiateSync, OnLatest, OnNotLatest, LocalTreeThrows,
           OnTreeConfirmation, OnNoSyncNeeded, OpenFile, OpenFails, SendBlock, EndOfFile,
           OnFileConfirmation, OnClosed, serverVars
      <3>3. ~ Lost
        BY <1>1, <2>1, <2>2, <2>5, <3>1, DoomedClient DEF Lost
      <3>4. Following
        BY <2>1, <2>2, <3>1, <3>2, <3>3 DEF Following
      <3>5. Mirrored
        BY <3>4 DEF Mirrors
      <3>6. /\ Pending(addedFiles', toServer', toClient')
                  = Pending(addedFiles, toServer, toClient)
            /\ sentTree' = sentTree
        BY <1>1, <1>3, <2>1, <2>2, <2>3, <2>5, <3>4, PendingClient
      <3> QED
        BY <3>1, <3>5, <3>6 DEF Mirrored
    <2>6. CASE User \/ UNCHANGED vars
      <3>1. /\ UNCHANGED <<handler, addedFiles, files, sentTree, toServer, toClient>>
            /\ mishaps \subseteq mishaps'
        BY <1>1, <2>6, UserFrames DEF Framed
      <3>2. ahead' = ahead
        BY <2>6 DEF User, Replace, Overwrite, Delete, MakeDirectory, Edit, vars, serverVars
      <3>3. ~ Lost
        BY <2>1, <3>1 DEF Lost, Doomed, Arrived
      <3>4. Following
        BY <2>1, <2>2, <3>1, <3>2, <3>3 DEF Following
      <3>5. Mirrored
        BY <3>4 DEF Mirrors
      <3> QED
        BY <3>1, <3>5 DEF Mirrored
    <2> QED
      BY <2>2, <2>4, <2>5, <2>6
  <1> QED
    BY <1>2, <1>3 DEF Mirrors

\* When the last file is in, nothing is to come.
LEMMA NothingPending ==
  ASSUME Conversation, Mirrors, link, client # "dead", handler = "rehash"
  PROVE  Pending(addedFiles, toServer, toClient) = {}
  <1>1. Typed /\ (Doomed \/ Exchange) /\ addedFiles = <<>>
    BY DEF Conversation, Dialogue, Mirrors
  <1>2. ToSet(<<>>) = {} /\ Announced(<<>>) = {} /\ Asked(ToSet(<<>>)) = {}
    <2>1. ToSet(<<>>) = {}
      BY DEF ToSet
    <2> QED
      BY <2>1 DEF Announced, Asked
  <1>3. Asked(ToSet(<<Answer("confirmation")>>)) = {}
    BY Singleton, MessageTypes DEF Asked
  <1>4. CASE Doomed
    <2>1. Announced(toServer) = {}
      BY <1>4 DEF Doomed, Arrived, Announced
    <2>2. toClient \in {<<>>, <<Answer("confirmation")>>}
      BY <1>4 DEF Doomed
    <2> QED
      BY <1>1, <1>2, <1>3, <2>1, <2>2 DEF Pending
  <1>5. CASE Exchange
    <2>1. client \in Awaiting \cup {"idle", "sending"}
      BY <1>1 DEF Typed, ClientTyped
    <2>2. (client = "idle" /\ Idle) \/ (client = "await_latest" /\ Checking) \/ Over
      BY <1>5, <2>1 DEF Exchange, TreeSent, NextDue, Answered, Goes, Stuck, Sending,
         HeaderDue, DataDue, Stored, Awaiting
    <2>3. CASE Idle
      BY <1>1, <1>2, <2>3 DEF Idle, Pending
    <2>4. CASE Checking
      <3>1. toClient = <<>>
        BY <2>4 DEF Checking
      <3>2. toServer = <<>> \/ \E hash : toServer = <<CheckLatest(hash)>>
        BY <2>4 DEF Checking
      <3>3. Announced(toServer) = {}
        BY <3>2, OneMessage, MessageTypes DEF Announced
      <3> QED
        BY <1>1, <1>2, <3>1, <3>3 DEF Pending
    <2>5. CASE Over
      <3>1. toServer = <<>> /\ toClient # <<>> /\ Head(toClient) = Answer("confirmation")
            /\ Tail(toClient) = <<>>
        BY <2>5 DEF Over, Confirmed, Goes
      <3>2. ToSet(toClient) = {Answer("confirmation")} \cup ToSet(<<>>)
        BY <1>1, <3>1, Elements DEF Typed, NetTyped
      <3>3. Asked(ToSet(toClient)) = {}
        BY <1>2, <3>2, MessageTypes DEF Asked
      <3> QED
        BY <1>1, <1>2, <3>1, <3>3 DEF Pending
    <2> QED
      BY <2>2, <2>3, <2>4, <2>5
  <1> QED
    BY <1>1, <1>4, <1>5

LEMMA MirrorsAtLast ==
  ASSUME Conversation, Mirrors
  PROVE  MirrorsLastComponents
  <1> SUFFICES ASSUME handler = "rehash", ~ ahead, "missing" \notin mishaps,
                      client \in Awaiting \cup {"idle", "sending"}
               PROVE  DOMAIN files = {<<Last(p)>> : p \in DOMAIN sentTree \ {Root}}
    BY DEF MirrorsLastComponents
  <1>1. client # "dead"
    BY DEF Awaiting
  <1>2. link
    BY <1>1 DEF Conversation, Connected
  <1>3. Following
    BY <1>2 DEF Following, Lost, Holding
  <1>4. Targets(DOMAIN sentTree) = DOMAIN files \cup Targets({})
    BY <1>1, <1>2, <1>3, NothingPending DEF Mirrors, Mirrored
  <1>5. Targets(DOMAIN sentTree) = {<<Last(p)>> : p \in DOMAIN sentTree \ {Root}}
    BY DEF Targets, Target, Last
  <1>6. Targets({}) = {}
    BY DEF Targets
  <1> QED
    BY <1>4, <1>5, <1>6

\* An exchange that compared the right way round, and in which every requested
\* node could be opened, ends with exactly the last components of the client's
\* tree in the server's directory: no file is left out, and none that was
\* removed comes back (ClientCommunicator.cpp, handleFileReception).
THEOREM LastComponentsMirrored == Spec => []MirrorsLastComponents
  <1>1. Init => Mirrors
    BY InitMirrors
  <1>2. Conversation /\ Mirrors /\ [Next]_vars => Mirrors'
    BY StepMirrors
  <1>3. Conversation /\ Mirrors => MirrorsLastComponents
    BY MirrorsAtLast
  <1> QED
    BY <1>1, <1>2, <1>3, AlwaysConversing, PTL DEF Spec
=============================================================================
