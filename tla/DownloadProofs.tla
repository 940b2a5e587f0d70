--------------------------- MODULE DownloadProofs ---------------------------
(***************************************************************************)
(* Proofs about Download, for all names, contents, directories, numbers of *)
(* files, buffer sizes and faults: its types, and that a download sends    *)
(* the directory of one moment.                                            *)
(*                                                                         *)
(* The inductive invariant says who holds the semaphore, that the download *)
(* works on files that exist, and that the client counts down to zero.     *)
(*                                                                         *)
(* That a download leaves no half file behind, wherever the client or the  *)
(* server is cut off, takes following the bytes: a file that is announced, *)
(* or that the client is in the middle of, comes in the messages behind,   *)
(* block by block as it is in the snapshot; what is missing of it is what  *)
(* the server is just about to send, or the server is gone.                *)
(*                                                                         *)
(* The last part counts the files, and shows that nothing of them is left  *)
(* in the stream when the client has counted them all.                     *)
(***************************************************************************)
EXTENDS Download, SequenceTheorems, FiniteSetTheorems, TLAPS

\* Whoever is between sem_wait and sem_post is alone there.
Exclusive ==
    /\ handler \in Sending => semaphore = 0 /\ ~ exchange
    /\ exchange => semaphore = 0

\* FindAllFiles works on files that are there.
ListsFiles ==
    /\ handler \in Sending => listing \subseteq DOMAIN files
    /\ handler = "send_data" => reading.name \in DOMAIN files

\* receiveFile writes to a file it has created, and has one left to receive.
CountsDown ==
    /\ client \in Receiving \cup {"prompt"} => wanted > 0
    /\ client = "receive" => incoming.left > 0 /\ incoming.name \in DOMAIN localDir

IInv == TypeOK /\ Exclusive /\ SendsOneMoment /\ ListsFiles /\ CountsDown

-----------------------------------------------------------------------------
\* A function from some names to contents is a directory.
LEMMA IsDirectory ==
    ASSUME NEW held \in SUBSET Names, NEW f \in [held -> Contents]
    PROVE  f \in Directories
BY DEF Directories

\* A directory holds contents under names.
LEMMA DirectoryHolds ==
    ASSUME NEW f \in Directories
    PROVE  /\ f \in [DOMAIN f -> Contents]
           /\ DOMAIN f \subseteq Names
           /\ \A n \in DOMAIN f : f[n] \in Contents /\ f[n] \in Seq(Blocks)
BY DownloadAssumption DEF Directories

LEMMA Initially == Init => IInv
<1> SUFFICES ASSUME Init PROVE IInv
  OBVIOUS
<1> USE DownloadAssumption
<1>1. (CHOOSE n \in Names : TRUE) \in Names
  OBVIOUS
<1>2. StoreOK
  <2>1. files \in Directories /\ snapshot \in Directories
    BY DEF Init
  <2>2. semaphore = 1 /\ exchange = FALSE /\ exchanges \in 0..MaxExchanges
    BY DEF Init
  <2> QED
    BY <2>1, <2>2 DEF StoreOK
<1>3. ThreadOK
  BY <1>1 DEF Init, ThreadOK
<1>4. ClientOK
  BY <1>1, DirectoryHolds DEF Init, ClientOK
<1>5. NetOK
  BY DEF Init, NetOK
<1> QED
  BY <1>2, <1>3, <1>4, <1>5
  DEF Init, IInv, TypeOK, Exclusive, SendsOneMoment, ListsFiles, CountsDown, Sending,
      Receiving

-----------------------------------------------------------------------------
(* What a step leaves alone keeps its part of the invariant.               *)

LEMMA KeepsStore ==
    ASSUME IInv, UNCHANGED storeVars
    PROVE  StoreOK'
BY DEF IInv, TypeOK, StoreOK, storeVars

LEMMA KeepsThread ==
    ASSUME IInv, UNCHANGED <<files, threadVars>>
    PROVE  ThreadOK' /\ ListsFiles'
BY DEF IInv, TypeOK, ThreadOK, ListsFiles, threadVars, Sending

LEMMA KeepsSection ==
    ASSUME IInv, UNCHANGED <<storeVars, threadVars>>
    PROVE  Exclusive' /\ SendsOneMoment'
BY DEF IInv, Exclusive, SendsOneMoment, storeVars, threadVars, Sending

LEMMA KeepsClient ==
    ASSUME IInv, UNCHANGED clientVars
    PROVE  ClientOK' /\ CountsDown'
BY DEF IInv, TypeOK, ClientOK, CountsDown, clientVars, Receiving

LEMMA KeepsNet ==
    ASSUME IInv, UNCHANGED netVars
    PROVE  NetOK'
BY DEF IInv, TypeOK, NetOK, netVars

\* Taking the first message and appending one keep the types of the streams.
LEMMA Takes ==
    ASSUME IInv, toClient # <<>>, Take, UNCHANGED <<toServer, link>>
    PROVE  NetOK' /\ Head(toClient) \in Messages
<1>1. /\ toClient \in Seq(Messages) /\ Len(toClient) \in Nat
      /\ Len(toClient) <= Capacity /\ Capacity \in Nat
  BY DownloadAssumption DEF IInv, TypeOK, NetOK
<1>2. toClient' = Tail(toClient)
  BY DEF Take
<1>3. /\ Head(toClient) \in Messages
      /\ Tail(toClient) \in Seq(Messages) /\ Len(Tail(toClient)) = Len(toClient) - 1
  BY <1>1
<1> QED
  BY <1>1, <1>2, <1>3 DEF IInv, TypeOK, NetOK

LEMMA Appends ==
    ASSUME IInv, NEW m \in Messages, Sends(m), UNCHANGED link,
           toServer' = toServer \/ (toServer # <<>> /\ toServer' = Tail(toServer))
    PROVE  NetOK'
<1>1. /\ toClient \in Seq(Messages) /\ Len(toClient) \in Nat
      /\ Len(toClient) < Capacity /\ Capacity \in Nat
  BY DownloadAssumption DEF IInv, TypeOK, NetOK, Sends
<1>2. toClient' \in Seq(Messages) /\ Len(toClient') = Len(toClient) + 1
  BY <1>1 DEF Sends
<1>3. toServer' \in Seq(Requests) /\ link' \in BOOLEAN
  BY DEF IInv, TypeOK, NetOK
<1> QED
  BY <1>1, <1>2, <1>3 DEF NetOK

\* A thread that is not in the section, and a store that stays.
LEMMA OutsideSection ==
    ASSUME IInv, UNCHANGED <<storeVars, listing, reading>>,
           handler' \in {"poll", "wait", "closed"}
    PROVE  StoreOK' /\ ThreadOK' /\ Exclusive' /\ SendsOneMoment' /\ ListsFiles'
<1>1. StoreOK'
  BY KeepsStore DEF storeVars
<1>2. ThreadOK' /\ ListsFiles'
  BY DEF IInv, TypeOK, ThreadOK, ListsFiles, Sending
<1>3. Exclusive' /\ SendsOneMoment'
  BY DEF IInv, Exclusive, SendsOneMoment, Sending, storeVars
<1> QED
  BY <1>1, <1>2, <1>3

\* A thread that goes on in the section with the files that are there.
LEMMA InsideSection ==
    ASSUME IInv, UNCHANGED storeVars, handler \in Sending, handler' \in Sending,
           listing' \subseteq listing, reading' \in [name : Names, sent : Nat],
           handler' = "send_data" => reading'.name \in DOMAIN files
    PROVE  StoreOK' /\ ThreadOK' /\ Exclusive' /\ SendsOneMoment' /\ ListsFiles'
<1>1. StoreOK'
  BY KeepsStore
<1>2. ThreadOK' /\ ListsFiles'
  BY DEF IInv, TypeOK, ThreadOK, ListsFiles, storeVars
<1>3. Exclusive' /\ SendsOneMoment'
  BY DEF IInv, Exclusive, SendsOneMoment, storeVars
<1> QED
  BY <1>1, <1>2, <1>3

-----------------------------------------------------------------------------
(* The steps of the server.                                                *)

LEMMA RequestStep == IInv /\ ReceiveRequest => IInv'
<1> SUFFICES ASSUME IInv, ReceiveRequest PROVE IInv'
  OBVIOUS
<1>1. ClientOK' /\ CountsDown'
  BY KeepsClient DEF ReceiveRequest
<1>2. NetOK'
  BY DEF IInv, TypeOK, NetOK, ReceiveRequest, Arrived
<1> QED
  BY <1>1, <1>2, OutsideSection DEF ReceiveRequest, IInv, TypeOK

LEMMA AcquireStep == IInv /\ AcquireSemaphore => IInv'
<1> SUFFICES ASSUME IInv, AcquireSemaphore PROVE IInv'
  OBVIOUS
<1>1. ClientOK' /\ CountsDown' /\ NetOK'
  BY KeepsClient, KeepsNet DEF AcquireSemaphore
<1>2. semaphore = 1 /\ semaphore' = 0 /\ ~ exchange
  BY DEF IInv, TypeOK, StoreOK, Exclusive, AcquireSemaphore
<1>3. files \in Directories /\ DOMAIN files \subseteq Names
  BY DirectoryHolds DEF IInv, TypeOK, StoreOK
<1>4. StoreOK'
  BY <1>2, <1>3 DEF IInv, TypeOK, StoreOK, AcquireSemaphore
<1>5. ThreadOK' /\ ListsFiles'
  BY <1>3 DEF IInv, TypeOK, ThreadOK, ListsFiles, AcquireSemaphore, Sending
<1>6. Exclusive' /\ SendsOneMoment'
  BY <1>2 DEF Exclusive, SendsOneMoment, AcquireSemaphore, Sending
<1> QED
  BY <1>1, <1>4, <1>5, <1>6 DEF IInv, TypeOK

LEMMA MetadataStep == IInv /\ SendMetadata => IInv'
<1> SUFFICES ASSUME IInv, NEW f \in listing, Announce(f), listing' = listing \ {f}
             PROVE  IInv'
  BY DEF SendMetadata
<1>1. ClientOK' /\ CountsDown'
  BY KeepsClient DEF Announce
<1>2. f \in DOMAIN files /\ f \in Names /\ Len(files[f]) \in Nat
  <2>1. f \in DOMAIN files /\ files \in Directories
    BY DEF IInv, TypeOK, StoreOK, ListsFiles, Announce, Sending
  <2> QED
    BY <2>1, DirectoryHolds
<1>3. NetOK'
  <2>1. Metadata(f, Len(files[f])) \in Messages
    BY <1>2 DEF Metadata, Messages
  <2> QED
    BY <2>1, Appends DEF Announce
<1>4. reading' \in [name : Names, sent : Nat] /\ reading'.name = f
  BY <1>2 DEF Announce
<1> QED
  BY <1>1, <1>2, <1>3, <1>4, InsideSection DEF Announce, IInv, TypeOK, Sending

LEMMA BlockStep == IInv /\ SendBlock => IInv'
<1> SUFFICES ASSUME IInv, SendBlock PROVE IInv'
  OBVIOUS
<1> DEFINE f == files[reading.name]
<1>1. ClientOK' /\ CountsDown'
  BY KeepsClient DEF SendBlock
<1>2. /\ reading.name \in DOMAIN files /\ files \in Directories
      /\ reading \in [name : Names, sent : Nat] /\ reading.sent < Len(f)
  BY DEF IInv, TypeOK, StoreOK, ThreadOK, ListsFiles, SendBlock
<1>3. f \in Seq(Blocks)
  BY <1>2, DirectoryHolds
<1>4. f[reading.sent + 1] \in Blocks
  BY <1>2, <1>3
<1>5. NetOK'
  <2>1. Block(f[reading.sent + 1]) \in Messages
    BY <1>4 DEF Block, Messages
  <2> QED
    BY <2>1, Appends DEF SendBlock
<1>6. reading' \in [name : Names, sent : Nat] /\ reading'.name = reading.name
  BY <1>2 DEF SendBlock
<1> QED
  BY <1>1, <1>2, <1>5, <1>6, InsideSection DEF SendBlock, IInv, TypeOK, Sending

LEMMA FileEndStep == IInv /\ EndOfFile => IInv'
<1> SUFFICES ASSUME IInv, EndOfFile PROVE IInv'
  OBVIOUS
<1>1. ClientOK' /\ CountsDown' /\ NetOK'
  BY KeepsClient, KeepsNet DEF EndOfFile
<1>2. reading' \in [name : Names, sent : Nat]
  BY DEF EndOfFile, IInv, TypeOK, ThreadOK
<1> QED
  BY <1>1, <1>2, InsideSection DEF EndOfFile, IInv, TypeOK, Sending

LEMMA ReleaseStep == IInv /\ ReleaseSemaphore => IInv'
<1> SUFFICES ASSUME IInv, ReleaseSemaphore PROVE IInv'
  OBVIOUS
<1>1. ClientOK' /\ CountsDown' /\ NetOK'
  BY KeepsClient, KeepsNet DEF ReleaseSemaphore
<1>2. semaphore = 0 /\ semaphore' = 1 /\ exchange = FALSE /\ exchange' = FALSE
  BY DEF IInv, TypeOK, StoreOK, Exclusive, ReleaseSemaphore, Sending
<1>3. StoreOK'
  BY <1>2 DEF IInv, TypeOK, StoreOK, ReleaseSemaphore
<1>4. ThreadOK' /\ ListsFiles'
  BY DEF IInv, TypeOK, ThreadOK, ListsFiles, ReleaseSemaphore, Sending
<1>5. Exclusive' /\ SendsOneMoment'
  BY <1>2 DEF Exclusive, SendsOneMoment, ReleaseSemaphore, Sending
<1> QED
  BY <1>1, <1>3, <1>4, <1>5 DEF IInv, TypeOK

LEMMA AnswerStep == IInv /\ AnswerCheckLatest => IInv'
<1> SUFFICES ASSUME IInv, AnswerCheckLatest PROVE IInv'
  OBVIOUS
<1>1. ClientOK' /\ CountsDown'
  BY KeepsClient DEF AnswerCheckLatest
<1>2. NetOK'
  <2>1. Answer \in Messages
    BY DEF Messages
  <2> QED
    BY <2>1, Appends DEF AnswerCheckLatest, Arrived
<1>3. StoreOK' /\ ThreadOK' /\ Exclusive' /\ SendsOneMoment' /\ ListsFiles'
  BY OutsideSection DEF AnswerCheckLatest, threadVars
<1> QED
  BY <1>1, <1>2, <1>3 DEF IInv, TypeOK

LEMMA CloseStep == IInv /\ CloseConnection => IInv'
<1> SUFFICES ASSUME IInv, CloseConnection PROVE IInv'
  OBVIOUS
<1>1. ClientOK' /\ CountsDown' /\ NetOK'
  BY KeepsClient, KeepsNet DEF CloseConnection
<1> QED
  BY <1>1, OutsideSection DEF CloseConnection, IInv, TypeOK

\* The semaphore is lost with the process.
LEMMA TerminateStep == IInv /\ Terminate => IInv'
<1> SUFFICES ASSUME IInv, Terminate PROVE IInv'
  OBVIOUS
<1>1. ClientOK' /\ CountsDown'
  BY KeepsClient DEF Terminate
<1>2. NetOK'
  <2>1. toServer' \in Seq(Requests) /\ link' \in BOOLEAN
    <3>1. <<>> \in Seq(Requests)
      OBVIOUS
    <3> QED
      BY <3>1 DEF Terminate
  <2>2. toClient' \in Seq(Messages) /\ Len(toClient') <= Capacity
    BY DEF IInv, TypeOK, NetOK, Terminate
  <2> QED
    BY <2>1, <2>2 DEF NetOK
<1>3. StoreOK'
  BY DEF IInv, TypeOK, StoreOK, Terminate
<1>4. ThreadOK' /\ ListsFiles'
  BY DEF IInv, TypeOK, ThreadOK, ListsFiles, Terminate, Sending
<1>5. Exclusive' /\ SendsOneMoment'
  BY DEF Exclusive, SendsOneMoment, Terminate, Sending
<1> QED
  BY <1>1, <1>2, <1>3, <1>4, <1>5 DEF IInv, TypeOK

-----------------------------------------------------------------------------
(* The steps of the other threads: the semaphore keeps them out of the     *)
(* download, and the download away from them.                              *)

LEMMA BeginStep == IInv /\ BeginExchange => IInv'
<1> SUFFICES ASSUME IInv, BeginExchange PROVE IInv'
  OBVIOUS
<1>1. /\ ClientOK' /\ CountsDown' /\ NetOK'
      /\ ThreadOK' /\ ListsFiles'
  BY KeepsClient, KeepsNet, KeepsThread DEF BeginExchange
<1>2. semaphore = 1 /\ semaphore' = 0 /\ handler \notin Sending
  BY DEF IInv, TypeOK, StoreOK, Exclusive, BeginExchange
<1>3. exchanges' \in 0..MaxExchanges
  BY DownloadAssumption DEF IInv, TypeOK, StoreOK, BeginExchange
<1>4. StoreOK'
  BY <1>2, <1>3 DEF IInv, TypeOK, StoreOK, BeginExchange
<1>5. Exclusive' /\ SendsOneMoment'
  BY <1>2 DEF Exclusive, SendsOneMoment, BeginExchange, threadVars
<1> QED
  BY <1>1, <1>4, <1>5 DEF IInv, TypeOK

LEMMA ChangeStep == IInv /\ ChangeFiles => IInv'
<1> SUFFICES ASSUME IInv, ChangeFiles PROVE IInv'
  OBVIOUS
<1>1. ClientOK' /\ CountsDown' /\ NetOK'
  BY KeepsClient, KeepsNet DEF ChangeFiles
<1>2. handler \notin Sending
  BY DEF IInv, Exclusive, ChangeFiles
<1>3. files' \in Directories
  <2>1. /\ files \in [DOMAIN files -> Contents]
        /\ DOMAIN files \subseteq Names
    BY DirectoryHolds DEF IInv, TypeOK, StoreOK
  <2>2. CASE \E n \in DOMAIN files :
                files' = [m \in DOMAIN files \ {n} |-> files[m]]
    <3>1. PICK n \in DOMAIN files : files' = [m \in DOMAIN files \ {n} |-> files[m]]
      BY <2>2
    <3>2. files' \in [DOMAIN files \ {n} -> Contents]
      BY <2>1, <3>1
    <3> QED
      BY <2>1, <3>2, IsDirectory
  <2>3. CASE \E n \in Names, c \in Contents :
                files' = [m \in DOMAIN files \cup {n} |-> IF m = n THEN c ELSE files[m]]
    <3>1. PICK n \in Names, c \in Contents :
             files' = [m \in DOMAIN files \cup {n} |-> IF m = n THEN c ELSE files[m]]
      BY <2>3
    <3>2. files' \in [DOMAIN files \cup {n} -> Contents]
      BY <2>1, <3>1
    <3> QED
      BY <2>1, <3>2, IsDirectory
  <2> QED
    BY <2>2, <2>3 DEF ChangeFiles
<1>4. StoreOK'
  BY <1>3 DEF IInv, TypeOK, StoreOK, ChangeFiles
<1>5. ThreadOK' /\ ListsFiles'
  BY <1>2 DEF IInv, TypeOK, ThreadOK, ListsFiles, ChangeFiles, threadVars, Sending
<1>6. Exclusive' /\ SendsOneMoment'
  BY <1>2 DEF IInv, Exclusive, SendsOneMoment, ChangeFiles, threadVars
<1> QED
  BY <1>1, <1>4, <1>5, <1>6 DEF IInv, TypeOK

LEMMA EndStep == IInv /\ EndExchange => IInv'
<1> SUFFICES ASSUME IInv, EndExchange PROVE IInv'
  OBVIOUS
<1>1. /\ ClientOK' /\ CountsDown' /\ NetOK'
      /\ ThreadOK' /\ ListsFiles'
  BY KeepsClient, KeepsNet, KeepsThread DEF EndExchange
<1>2. semaphore = 0 /\ semaphore' = 1 /\ handler \notin Sending
  BY DEF IInv, Exclusive, EndExchange
<1>3. StoreOK'
  BY <1>2 DEF IInv, TypeOK, StoreOK, EndExchange
<1>4. Exclusive' /\ SendsOneMoment'
  BY <1>2 DEF Exclusive, SendsOneMoment, EndExchange, threadVars
<1> QED
  BY <1>1, <1>3, <1>4 DEF IInv, TypeOK

-----------------------------------------------------------------------------
(* The steps of the client.                                                *)

\* The client's steps do not touch the server.
LEMMA ClientOnly ==
    ASSUME IInv, UNCHANGED <<storeVars, threadVars>>
    PROVE  /\ StoreOK' /\ ThreadOK' /\ ListsFiles'
           /\ Exclusive' /\ SendsOneMoment'
BY KeepsStore, KeepsThread, KeepsSection DEF storeVars

\* What the client sends on a live connection arrives.
LEMMA SendsToServer ==
    ASSUME IInv, NEW m \in Requests, Send(m),
           UNCHANGED <<toClient, link>>
    PROVE  NetOK'
<1>1. toServer' \in Seq(Requests)
  BY DEF IInv, TypeOK, NetOK, Send
<1> QED
  BY <1>1 DEF IInv, TypeOK, NetOK

\* A step of the client that leaves its directory and its counters alone, and
\* does not begin to receive.
LEMMA MovesOn ==
    ASSUME IInv, UNCHANGED <<wanted, incoming, localDir>>, syncs' \in 0..MaxSyncs,
           client' \in {"ready", "await_latest", "idle", "dead"}
    PROVE  ClientOK' /\ CountsDown'
BY DEF IInv, TypeOK, ClientOK, CountsDown, Receiving

LEMMA SyncsOK == IInv => syncs \in 0..MaxSyncs
BY DEF IInv, TypeOK, ClientOK

LEMMA FileRequestStep == IInv /\ RequestFiles => IInv'
<1> SUFFICES ASSUME IInv, RequestFiles PROVE IInv'
  OBVIOUS
<1>1. NetOK'
  BY SendsToServer DEF RequestFiles, Requests
<1>2. ClientOK'
  BY DEF IInv, TypeOK, ClientOK, RequestFiles, Receiving
<1>3. client' = "await_metadata" /\ wanted' > 0
  BY DEF IInv, CountsDown, RequestFiles
<1> QED
  BY <1>1, <1>2, <1>3, ClientOnly DEF IInv, TypeOK, CountsDown, RequestFiles, threadVars

LEMMA LostSteps ==
    IInv /\ (MetadataLost \/ ParseError \/ OnAnswer \/ ClientBrokenPipe \/ KillClient)
    => IInv'
<1> SUFFICES ASSUME IInv, MetadataLost \/ ParseError \/ OnAnswer \/ ClientBrokenPipe
                              \/ KillClient
             PROVE  IInv'
  OBVIOUS
<1>1. StoreOK' /\ ThreadOK' /\ ListsFiles' /\ Exclusive' /\ SendsOneMoment'
  BY ClientOnly DEF MetadataLost, ParseError, OnAnswer, ClientBrokenPipe, KillClient
<1>2. ClientOK' /\ CountsDown'
  BY MovesOn, SyncsOK
  DEF MetadataLost, ParseError, OnAnswer, ClientBrokenPipe, KillClient, Dies
<1>3. NetOK'
  <2>1. CASE UNCHANGED netVars
    BY <2>1, KeepsNet
  <2>2. CASE toClient # <<>> /\ Take /\ UNCHANGED <<toServer, link>>
    BY <2>2, Takes
  <2>3. CASE Dies /\ UNCHANGED toServer
    <3>1. toClient' = <<>> /\ link' = FALSE /\ Capacity \in Nat
      BY <2>3, DownloadAssumption DEF Dies
    <3>2. toClient' \in Seq(Messages) /\ Len(toClient') <= Capacity
      BY <3>1
    <3> QED
      BY <2>3, <3>1, <3>2 DEF IInv, TypeOK, NetOK
  <2> QED
    BY <2>1, <2>2, <2>3
    DEF MetadataLost, ParseError, OnAnswer, ClientBrokenPipe, KillClient, netVars
<1> QED
  BY <1>1, <1>2, <1>3 DEF IInv, TypeOK

LEMMA DataLostStep == IInv /\ DataLost => IInv'
<1> SUFFICES ASSUME IInv, DataLost PROVE IInv'
  OBVIOUS
<1>1. NetOK'
  BY KeepsNet DEF DataLost
<1>2. ClientOK' /\ CountsDown'
  BY DEF IInv, TypeOK, ClientOK, CountsDown, DataLost, Receiving
<1> QED
  BY <1>1, <1>2, ClientOnly DEF IInv, TypeOK, DataLost

\* The counter of receiveFile never falls below zero.
LEMMA CountsFile ==
    ASSUME IInv, client \in Receiving, FileReceived
    PROVE  /\ wanted' \in 0..Expected
           /\ client' \in {"ready", "await_metadata"}
           /\ client' = "await_metadata" => wanted' > 0
BY DownloadAssumption DEF IInv, TypeOK, ClientOK, CountsDown, FileReceived

LEMMA OnMetadataStep == IInv /\ OnMetadata => IInv'
<1> SUFFICES ASSUME IInv, OnMetadata PROVE IInv'
  OBVIOUS
<1> DEFINE header == Head(toClient)
<1>1. NetOK' /\ header \in Messages
  BY Takes DEF OnMetadata, Found
<1>2. header.name \in Names /\ header.size \in Nat
  BY <1>1 DEF Messages, OnMetadata, Found, Answer
<1>3. incoming' = [name |-> header.name, left |-> header.size]
  BY DEF OnMetadata
<1>4. /\ DOMAIN localDir' \subseteq Names
      /\ header.name \in DOMAIN localDir'
      /\ \A n \in DOMAIN localDir' : localDir'[n] \in Seq(Blocks)
  BY <1>2 DEF IInv, TypeOK, ClientOK, OnMetadata
<1>5. /\ wanted' \in 0..Expected
      /\ client' \in {"ready", "await_metadata", "receive"}
      /\ client' \in Receiving => wanted' > 0
      /\ client' = "receive" => header.size > 0
  <2>1. CASE header.size = 0
    BY <2>1, CountsFile DEF OnMetadata, Receiving
  <2>2. CASE header.size # 0
    BY <1>2, <2>2 DEF OnMetadata, Receiving, IInv, TypeOK, ClientOK, CountsDown
  <2> QED
    BY <2>1, <2>2
<1>6. ClientOK'
  BY <1>2, <1>3, <1>4, <1>5 DEF IInv, TypeOK, ClientOK, OnMetadata, Receiving
<1>7. CountsDown'
  BY <1>3, <1>4, <1>5 DEF CountsDown
<1> QED
  BY <1>1, <1>6, <1>7, ClientOnly DEF IInv, TypeOK, OnMetadata

LEMMA OnBlockStep == IInv /\ OnBlock => IInv'
<1> SUFFICES ASSUME IInv, OnBlock PROVE IInv'
  OBVIOUS
<1> DEFINE header == Head(toClient)
<1>1. NetOK' /\ header \in Messages
  BY Takes DEF OnBlock, Found
<1>2. header.block \in Blocks
  BY <1>1 DEF Messages, OnBlock, Found, Answer
<1>3. /\ incoming.left > 0 /\ incoming.name \in DOMAIN localDir
      /\ incoming \in [name : Names, left : Nat] /\ client \in Receiving
  BY DEF IInv, TypeOK, ClientOK, CountsDown, OnBlock, Receiving
<1>4. /\ incoming' \in [name : Names, left : Nat]
      /\ incoming'.name = incoming.name /\ incoming'.left = incoming.left - 1
  BY <1>3 DEF OnBlock
<1>5. /\ DOMAIN localDir' = DOMAIN localDir
      /\ \A n \in DOMAIN localDir' : localDir'[n] \in Seq(Blocks)
  BY <1>2, <1>3 DEF IInv, TypeOK, ClientOK, OnBlock
<1>6. /\ wanted' \in 0..Expected
      /\ client' \in {"ready", "await_metadata", "receive"}
      /\ client' \in Receiving => wanted' > 0
      /\ client' = "receive" => incoming'.left > 0
  <2>1. CASE incoming.left = 1
    BY <1>3, <2>1, CountsFile DEF OnBlock, Receiving
  <2>2. CASE incoming.left # 1
    BY <1>3, <1>4, <2>2 DEF OnBlock, Receiving, IInv, TypeOK, ClientOK, CountsDown
  <2> QED
    BY <2>1, <2>2
<1>7. ClientOK'
  BY <1>4, <1>5, <1>6 DEF IInv, TypeOK, ClientOK, OnBlock, Receiving
<1>8. CountsDown'
  BY <1>3, <1>4, <1>5, <1>6 DEF CountsDown
<1> QED
  BY <1>1, <1>7, <1>8, ClientOnly DEF IInv, TypeOK, OnBlock

LEMMA SyncStep == IInv /\ InitiateSync => IInv'
<1> SUFFICES ASSUME IInv, InitiateSync PROVE IInv'
  OBVIOUS
<1>1. NetOK'
  BY SendsToServer DEF InitiateSync, Requests
<1>2. syncs' \in 0..MaxSyncs
  BY SyncsOK, DownloadAssumption DEF InitiateSync
<1>3. ClientOK' /\ CountsDown'
  BY <1>2, MovesOn DEF InitiateSync
<1> QED
  BY <1>1, <1>3, ClientOnly DEF IInv, TypeOK, InitiateSync

-----------------------------------------------------------------------------
LEMMA Inductive == IInv /\ [Next]_vars => IInv'
<1> SUFFICES ASSUME IInv, [Next]_vars PROVE IInv'
  OBVIOUS
<1>1. CASE ServerStep
  <2>1. BrokenPipe => Terminate
    BY DEF BrokenPipe
  <2> QED
    BY <1>1, <2>1, RequestStep, AcquireStep, MetadataStep, BlockStep, FileEndStep,
       ReleaseStep, AnswerStep, CloseStep, TerminateStep DEF ServerStep
<1>2. CASE ClientStep
  BY <1>2, FileRequestStep, OnMetadataStep, OnBlockStep, LostSteps, DataLostStep, SyncStep
  DEF ClientStep
<1>3. CASE OtherThreads
  BY <1>3, BeginStep, ChangeStep, EndStep DEF OtherThreads
<1>4. CASE Environment
  <2>1. Kill => Terminate
    BY DEF Kill
  <2> QED
    BY <1>4, <2>1, TerminateStep, LostSteps DEF Environment
<1>5. CASE InitiateSync
  BY <1>5, SyncStep
<1>6. CASE UNCHANGED vars
  <2>1. UNCHANGED <<storeVars, threadVars, clientVars, netVars>>
    BY <1>6 DEF vars
  <2> QED
    BY <2>1, ClientOnly, KeepsClient, KeepsNet DEF IInv, TypeOK
<1> QED
  BY <1>1, <1>2, <1>3, <1>4, <1>5, <1>6 DEF Next

LEMMA Invariance == Spec => []IInv
BY Initially, Inductive, PTL DEF Spec

\* Every variable of a download has its type, whatever the directories, the
\* number of files the client counts to and the size of the buffers: the
\* semaphore is 0 or 1, and receiveFile never counts below zero.
THEOREM TypeCorrect == Spec => []TypeOK
<1>1. IInv => TypeOK
  BY DEF IInv
<1> QED
  BY <1>1, Invariance, PTL

\* While FindAllFiles sends, nobody changes the directory: the client is sent
\* the files of the moment at which the thread got the semaphore.
THEOREM OneMomentSent == Spec => []SendsOneMoment
<1>1. IInv => SendsOneMoment
  BY DEF IInv
<1> QED
  BY <1>1, Invariance, PTL

-----------------------------------------------------------------------------
(* The bytes of a file.                                                    *)

Kept(n) == n \in DOMAIN LocalFiles /\ localDir[n] = LocalFiles[n]
Fetched(n) == n \in DOMAIN snapshot /\ localDir[n] = snapshot[n]

\* Every file of the client is whole but the one it is receiving.
FilesWhole ==
    client # "dead" =>
        \A n \in DOMAIN localDir :
            Kept(n) \/ Fetched(n) \/ (client = "receive" /\ n = incoming.name)

\* There is one download: until it begins, the client's directory is as it was.
Untouched ==
    client \in {"prompt", "await_metadata", "dead"} /\ toClient = <<>>
    /\ (client # "dead" => localDir = LocalFiles)

OneDownload ==
    /\ client = "prompt" => Untouched /\ toServer = <<>> /\ handler \in {"poll", "closed"}
    /\ \A i \in DOMAIN toServer : toServer[i] = "file_transfer" =>
           i = 1 /\ Untouched /\ handler = "poll" /\ client # "prompt"
    /\ handler = "wait" => Untouched

\* While the client lives, only the end of the server breaks the connection.
Broken == client # "dead" => (link <=> handler # "closed")

\* What is missing of file f after n blocks is about to be sent, or never.
Continues(f, n) ==
    handler = "closed" \/ (handler = "send_data" /\ reading = [name |-> f, sent |-> n])

\* File f comes in the messages after the i-th.
Carries(f, i) ==
    /\ f \in DOMAIN snapshot
    /\ \A k \in 1..Len(snapshot[f]) :
           i + k \in DOMAIN toClient => toClient[i + k] = Block(snapshot[f][k])
    /\ Len(toClient) < i + Len(snapshot[f]) => Continues(f, Len(toClient) - i)

\* So it is with every file that is announced ...
Announced ==
    client \in Receiving =>
        \A i \in DOMAIN toClient : toClient[i].type = "metadata" =>
            /\ Carries(toClient[i].name, i)
            /\ toClient[i].size = Len(snapshot[toClient[i].name])

\* ... and with the rest of the file the client is in the middle of.
Received(f) == Len(snapshot[f]) - incoming.left

InTheMiddle ==
    client = "receive" =>
        LET f == incoming.name
        IN  /\ Carries(f, - Received(f))
            /\ Len(localDir[f]) = Received(f)
            /\ \A k \in 1..Len(localDir[f]) : localDir[f][k] = snapshot[f][k]

Follows == FilesWhole /\ OneDownload /\ Broken /\ Announced /\ InTheMiddle
SInv == IInv /\ Follows

-----------------------------------------------------------------------------
(* Streams.                                                                *)

LEMMA Streams ==
    ASSUME IInv
    PROVE  /\ toClient \in Seq(Messages) /\ Len(toClient) \in Nat
           /\ DOMAIN toClient = 1..Len(toClient)
           /\ toServer \in Seq(Requests) /\ Len(toServer) \in Nat
           /\ DOMAIN toServer = 1..Len(toServer)
BY DEF IInv, TypeOK, NetOK

LEMMA SnapshotHolds ==
    ASSUME IInv, NEW f \in DOMAIN snapshot
    PROVE  snapshot[f] \in Seq(Blocks) /\ Len(snapshot[f]) \in Nat
<1>1. snapshot \in Directories
  BY DEF IInv, TypeOK, StoreOK
<1> QED
  BY <1>1, DirectoryHolds

\* Taking the first message moves a file one place to the front.
LEMMA CarriesTail ==
    ASSUME IInv, NEW f, NEW i \in Int, Carries(f, i), toClient # <<>>, Take,
           UNCHANGED <<snapshot, handler, reading>>
    PROVE  Carries(f, i - 1)'
<1>1. f \in DOMAIN snapshot /\ Len(snapshot[f]) \in Nat
  BY SnapshotHolds DEF Carries
<1>2. /\ toClient \in Seq(Messages) /\ Len(toClient) \in Nat
      /\ DOMAIN toClient = 1..Len(toClient)
  BY Streams
<1>3. /\ toClient' \in Seq(Messages) /\ Len(toClient') = Len(toClient) - 1
      /\ DOMAIN toClient' = 1..Len(toClient')
      /\ \A j \in 1..Len(toClient') : toClient'[j] = toClient[j + 1]
  BY <1>2 DEF Take
<1>4. ASSUME NEW k \in 1..Len(snapshot[f]), i - 1 + k \in DOMAIN toClient'
      PROVE  toClient'[i - 1 + k] = Block(snapshot[f][k])
  <2>1. PICK j \in 1..Len(toClient') : j = i - 1 + k
    BY <1>3, <1>4
  <2>2. j + 1 = i + k /\ j + 1 \in DOMAIN toClient
    BY <1>1, <1>2, <1>3, <2>1
  <2>3. toClient'[j] = toClient[j + 1]
    BY <1>3
  <2> QED
    BY <2>1, <2>2, <2>3 DEF Carries
<1>5. (Len(toClient) < i - 1 + Len(snapshot[f]) =>
          Continues(f, Len(toClient) - (i - 1)))'
  <2>1. PICK n \in Int : n = Len(toClient) - i
    <3>1. Len(toClient) - i \in Int
      BY <1>2
    <3> QED
      BY <3>1
  <2>2. Len(toClient') - (i - 1) = n
    BY <1>2, <1>3, <2>1
  <2>3. Len(toClient') < i - 1 + Len(snapshot[f]) => Continues(f, n)
    BY <1>1, <1>2, <1>3, <2>1 DEF Carries
  <2> QED
    BY <2>2, <2>3 DEF Continues
<1> QED
  BY <1>1, <1>4, <1>5 DEF Carries

\* A message that is sent is the next block of the file that is under way.
NextBlock(m) ==
    \A f \in DOMAIN snapshot, n \in Int :
        n < Len(snapshot[f]) /\ Continues(f, n) =>
            m = Block(snapshot[f][n + 1]) /\ Continues(f, n + 1)'

LEMMA CarriesAppend ==
    ASSUME IInv, NEW f, NEW i \in Int, Carries(f, i), i <= Len(toClient),
           NEW m \in Messages, Sends(m), NextBlock(m), UNCHANGED snapshot
    PROVE  Carries(f, i)'
<1>1. f \in DOMAIN snapshot /\ Len(snapshot[f]) \in Nat
  BY SnapshotHolds DEF Carries
<1>2. /\ toClient \in Seq(Messages) /\ Len(toClient) \in Nat
      /\ DOMAIN toClient = 1..Len(toClient)
  BY Streams
<1>3. /\ toClient' \in Seq(Messages) /\ Len(toClient') = Len(toClient) + 1
      /\ DOMAIN toClient' = 1..Len(toClient')
      /\ \A j \in 1..Len(toClient) : toClient'[j] = toClient[j]
      /\ toClient'[Len(toClient) + 1] = m
  BY <1>2 DEF Sends
<1>4. PICK n \in Int : n = Len(toClient) - i
  <2>1. Len(toClient) - i \in Int
    BY <1>2
  <2> QED
    BY <2>1
<1>5. n < Len(snapshot[f]) => m = Block(snapshot[f][n + 1]) /\ Continues(f, n + 1)'
  <2>1. n < Len(snapshot[f]) => Len(toClient) < i + Len(snapshot[f])
    BY <1>1, <1>2, <1>4
  <2>2. n < Len(snapshot[f]) => Continues(f, n)
    BY <1>4, <2>1 DEF Carries
  <2> QED
    BY <1>1, <2>2 DEF NextBlock
<1>6. ASSUME NEW k \in 1..Len(snapshot[f]), i + k \in DOMAIN toClient'
      PROVE  toClient'[i + k] = Block(snapshot[f][k])
  <2>1. CASE i + k \in DOMAIN toClient
    BY <1>2, <1>3, <1>6, <2>1 DEF Carries
  <2>2. CASE i + k \notin DOMAIN toClient
    <3>1. i + k = Len(toClient) + 1
      BY <1>1, <1>2, <1>3, <1>6, <2>2
    <3>2. k = n + 1 /\ n < Len(snapshot[f])
      BY <1>1, <1>2, <1>4, <3>1
    <3> QED
      BY <1>3, <1>5, <3>1, <3>2
  <2> QED
    BY <2>1, <2>2
<1>7. (Len(toClient) < i + Len(snapshot[f]) => Continues(f, Len(toClient) - i))'
  <2>1. Len(toClient') - i = n + 1
    BY <1>2, <1>3, <1>4
  <2>2. Len(toClient') < i + Len(snapshot[f]) => n < Len(snapshot[f])
    BY <1>1, <1>2, <1>3, <1>4
  <2> QED
    BY <1>5, <2>1, <2>2
<1> QED
  BY <1>1, <1>6, <1>7 DEF Carries

-----------------------------------------------------------------------------
(* The files, as the server goes on.                                       *)

Files == FilesWhole /\ Announced /\ InTheMiddle

\* What can still be said of a file in the middle of a step of the server
\* that sends nothing.
StillContinues ==
    \A f \in DOMAIN snapshot, n \in Int :
        n < Len(snapshot[f]) /\ Continues(f, n) => Continues(f, n)'

LEMMA CarriesStays ==
    ASSUME IInv, NEW f, NEW i \in Int, Carries(f, i), StillContinues,
           UNCHANGED <<snapshot, toClient>>
    PROVE  Carries(f, i)'
<1>1. f \in DOMAIN snapshot /\ Len(snapshot[f]) \in Nat /\ Len(toClient) \in Nat
  BY SnapshotHolds, Streams DEF Carries
<1>2. PICK n \in Int : n = Len(toClient) - i
  <2>1. Len(toClient) - i \in Int
    BY <1>1
  <2> QED
    BY <2>1
<1>3. Len(toClient) < i + Len(snapshot[f]) => Continues(f, n)'
  <2>1. Len(toClient) < i + Len(snapshot[f]) => n < Len(snapshot[f])
    BY <1>1, <1>2
  <2>2. Len(toClient) < i + Len(snapshot[f]) => Continues(f, n)
    BY <1>2 DEF Carries
  <2> QED
    BY <1>1, <2>1, <2>2 DEF StillContinues
<1>4. (Len(toClient) < i + Len(snapshot[f]) => Continues(f, Len(toClient) - i))'
  BY <1>2, <1>3
<1> QED
  BY <1>4 DEF Carries

\* The part of a file that the client has is an integer of blocks.
LEMMA ReceivedType ==
    ASSUME IInv, InTheMiddle, client = "receive"
    PROVE  /\ incoming.name \in DOMAIN snapshot /\ incoming.left \in Nat \ {0}
           /\ Received(incoming.name) \in Int /\ - Received(incoming.name) \in Int
           /\ - Received(incoming.name) <= 0
<1>1. incoming.left \in Nat \ {0} /\ incoming.name \in DOMAIN localDir
  BY DEF IInv, TypeOK, ClientOK, CountsDown
<1>2. incoming.name \in DOMAIN snapshot
  BY DEF InTheMiddle, Carries
<1>3. Len(snapshot[incoming.name]) \in Nat
  BY <1>2, SnapshotHolds
<1>4. localDir[incoming.name] \in Seq(Blocks)
  BY <1>1 DEF IInv, TypeOK, ClientOK
<1>5. Len(localDir[incoming.name]) = Received(incoming.name)
  BY DEF InTheMiddle
<1> QED
  BY <1>1, <1>2, <1>3, <1>4, <1>5 DEF Received

LEMMA FilesStay ==
    ASSUME IInv, Files, StillContinues, UNCHANGED <<snapshot, clientVars, toClient>>
    PROVE  Files'
<1>1. FilesWhole'
  BY DEF Files, FilesWhole, Kept, Fetched, clientVars
<1>2. Announced'
  <2> SUFFICES ASSUME client \in Receiving, NEW i \in DOMAIN toClient,
                      toClient[i].type = "metadata"
               PROVE  /\ Carries(toClient[i].name, i)'
                      /\ toClient[i].size = Len(snapshot[toClient[i].name])
    BY DEF Announced, clientVars
  <2>1. i \in Int
    BY Streams
  <2> QED
    BY <2>1, CarriesStays DEF Files, Announced
<1>3. InTheMiddle'
  <2> SUFFICES ASSUME client = "receive"
               PROVE  Carries(incoming.name, - Received(incoming.name))'
    BY DEF Files, InTheMiddle, Received, clientVars
  <2>1. PICK i \in Int : i = - Received(incoming.name)
    BY ReceivedType DEF Files
  <2>2. Carries(incoming.name, i)
    BY <2>1 DEF Files, InTheMiddle
  <2>3. Carries(incoming.name, i)'
    BY <2>1, <2>2, CarriesStays DEF clientVars
  <2> QED
    BY <2>1, <2>3 DEF clientVars, Received
<1> QED
  BY <1>1, <1>2, <1>3 DEF Files

LEMMA FilesSent ==
    ASSUME IInv, Files, NEW m \in Messages, Sends(m), NextBlock(m),
           m.type = "metadata" => /\ m.name \in DOMAIN snapshot
                                  /\ m.size = Len(snapshot[m.name])
                                  /\ Continues(m.name, 0)',
           UNCHANGED <<snapshot, clientVars>>
    PROVE  Files'
<1>1. FilesWhole'
  BY DEF Files, FilesWhole, Kept, Fetched, clientVars
<1>2. /\ Len(toClient) \in Nat /\ DOMAIN toClient = 1..Len(toClient)
      /\ DOMAIN toClient' = 1..(Len(toClient) + 1) /\ Len(toClient') = Len(toClient) + 1
      /\ \A j \in 1..Len(toClient) : toClient'[j] = toClient[j]
      /\ toClient'[Len(toClient) + 1] = m
  BY Streams DEF Sends
<1>3. Announced'
  <2> SUFFICES ASSUME client \in Receiving, NEW i \in DOMAIN toClient',
                      toClient'[i].type = "metadata"
               PROVE  /\ Carries(toClient[i].name, i)'
                      /\ toClient'[i].size = Len(snapshot[toClient'[i].name])
    BY DEF Announced, clientVars
  <2>1. CASE i \in DOMAIN toClient
    <3>1. i \in Int /\ i <= Len(toClient) /\ toClient'[i] = toClient[i]
      BY <1>2, <2>1
    <3>2. PICK f : f = toClient[i].name
      OBVIOUS
    <3>3. Carries(f, i) /\ toClient[i].size = Len(snapshot[f])
      BY <2>1, <3>1, <3>2 DEF Files, Announced
    <3>4. Carries(f, i)'
      BY <3>1, <3>3, CarriesAppend
    <3> QED
      BY <3>1, <3>2, <3>3, <3>4
  <2>2. CASE i \notin DOMAIN toClient
    <3>1. i = Len(toClient) + 1 /\ toClient'[i] = m
      BY <1>2, <2>2
    <3>2. PICK f : f = m.name
      OBVIOUS
    <3>3. f \in DOMAIN snapshot /\ m.size = Len(snapshot[f]) /\ Continues(f, 0)'
      BY <3>1, <3>2
    <3>4. Carries(f, i)'
      <4>1. Len(toClient') - i = 0 /\ \A k \in 1..Len(snapshot[f]) : i + k \notin DOMAIN toClient'
        BY <1>2, <3>1, <3>3, SnapshotHolds
      <4> QED
        BY <3>3, <4>1 DEF Carries
    <3> QED
      BY <3>1, <3>2, <3>3, <3>4
  <2> QED
    BY <2>1, <2>2
<1>4. InTheMiddle'
  <2> SUFFICES ASSUME client = "receive"
               PROVE  Carries(incoming.name, - Received(incoming.name))'
    BY DEF Files, InTheMiddle, Received, clientVars
  <2>1. PICK f : f = incoming.name
    OBVIOUS
  <2>2. PICK i \in Int : i = - Received(f) /\ i <= 0
    BY <2>1, ReceivedType DEF Files
  <2>3. Carries(f, i)
    BY <2>1, <2>2 DEF Files, InTheMiddle
  <2>4. Carries(f, i)'
    BY <1>2, <2>2, <2>3, CarriesAppend
  <2> QED
    BY <2>1, <2>2, <2>4 DEF clientVars, Received
<1> QED
  BY <1>1, <1>3, <1>4 DEF Files

-----------------------------------------------------------------------------
(* The one download, and the connection.                                   *)

\* No download is to come any more.
LEMMA Begun ==
    ASSUME IInv, OneDownload, toClient # <<>> \/ client \notin {"prompt", "await_metadata", "dead"}
                              \/ handler \in Sending
    PROVE  /\ client # "prompt" /\ handler # "wait"
           /\ \A i \in DOMAIN toServer : toServer[i] # "file_transfer"
BY DEF OneDownload, Untouched, Sending

\* The rest of what the client has sent.
LEMMA Rest ==
    ASSUME IInv, toServer # <<>>, toServer' = Tail(toServer)
    PROVE  \A i \in DOMAIN toServer' :
               i \in Nat \ {0} /\ i + 1 \in DOMAIN toServer /\ toServer'[i] = toServer[i + 1]
<1>1. toServer \in Seq(Requests) /\ Len(toServer) \in Nat
  BY Streams
<1> QED
  BY <1>1

LEMMA ServerOnce ==
    ASSUME IInv, OneDownload, Broken, ServerStep \/ Kill
    PROVE  OneDownload' /\ Broken'
<1> USE DEF clientVars, netVars, storeVars, threadVars
<1>1. CASE ReceiveRequest
  <2>1. toServer[1] = "file_transfer" /\ 1 \in DOMAIN toServer /\ toServer # <<>>
    BY <1>1, Streams DEF ReceiveRequest, Arrived
  <2>2. Untouched /\ client # "prompt"
    BY <2>1 DEF OneDownload
  <2>3. \A i \in DOMAIN toServer' : toServer'[i] # "file_transfer"
    BY <1>1, <2>1, Rest DEF ReceiveRequest, OneDownload
  <2> QED
    BY <1>1, <2>2, <2>3 DEF ReceiveRequest, OneDownload, Untouched, Broken
<1>2. CASE AcquireSemaphore
  BY <1>2 DEF AcquireSemaphore, OneDownload, Broken
<1>3. CASE SendMetadata \/ SendBlock \/ EndOfFile \/ ReleaseSemaphore
  <2>1. /\ handler \in Sending /\ handler' \in Sending \cup {"poll"}
        /\ UNCHANGED <<client, toServer, link>>
    BY <1>3 DEF SendMetadata, Announce, SendBlock, EndOfFile, ReleaseSemaphore, Sending
  <2> QED
    BY <2>1, Begun DEF OneDownload, Broken, Sending
<1>4. CASE AnswerCheckLatest
  <2>1. toServer # <<>> /\ 1 \in DOMAIN toServer /\ toServer[1] = "check_latest"
    BY <1>4, Streams DEF AnswerCheckLatest, Arrived
  <2>2. client # "prompt" /\ \A i \in DOMAIN toServer : toServer[i] # "file_transfer"
    BY <2>1 DEF OneDownload
  <2>3. \A i \in DOMAIN toServer' : toServer'[i] # "file_transfer"
    BY <1>4, <2>1, <2>2, Rest DEF AnswerCheckLatest
  <2> QED
    BY <1>4, <2>2, <2>3 DEF AnswerCheckLatest, OneDownload, Broken
<1>5. CASE CloseConnection
  BY <1>5 DEF CloseConnection, OneDownload, Untouched, Broken
<1>6. CASE BrokenPipe \/ Kill
  <2>1. Terminate
    BY <1>6 DEF BrokenPipe, Kill
  <2> QED
    BY <2>1 DEF Terminate, OneDownload, Untouched, Broken
<1> QED
  BY <1>1, <1>2, <1>3, <1>4, <1>5, <1>6 DEF ServerStep

-----------------------------------------------------------------------------
(* The steps of the server.                                                *)

\* The snapshot is taken before anything has come.
LEMMA AcquireFiles ==
    ASSUME SInv, AcquireSemaphore
    PROVE  Files'
<1>1. Untouched
  BY DEF SInv, Follows, OneDownload, AcquireSemaphore
<1>2. UNCHANGED <<clientVars, toClient>>
  BY DEF AcquireSemaphore, netVars
<1>3. FilesWhole'
  BY <1>1, <1>2 DEF FilesWhole, Untouched, Kept, clientVars
<1>4. Announced' /\ InTheMiddle'
  BY <1>1, <1>2 DEF Untouched, Announced, InTheMiddle, clientVars
<1> QED
  BY <1>3, <1>4 DEF Files

LEMMA MetadataFiles ==
    ASSUME SInv, SendMetadata
    PROVE  Files'
<1>1. PICK f \in listing : Announce(f)
  BY DEF SendMetadata
<1>2. /\ f \in DOMAIN snapshot /\ files = snapshot /\ f \in Names
      /\ Len(snapshot[f]) \in Nat
  <2>1. f \in DOMAIN snapshot /\ files = snapshot
    BY <1>1 DEF SInv, IInv, ListsFiles, SendsOneMoment, Announce, Sending
  <2> QED
    BY <2>1, SnapshotHolds DEF SInv, IInv, TypeOK, ThreadOK
<1>3. PICK m : m = Metadata(f, Len(snapshot[f]))
  OBVIOUS
<1>4. m \in Messages /\ Sends(m)
  BY <1>1, <1>2, <1>3 DEF Metadata, Messages, Announce
<1>5. m.name = f /\ m.size = Len(snapshot[f])
  BY <1>3 DEF Metadata
<1>6. Continues(f, 0)'
  BY <1>1 DEF Announce, Continues
<1>7. NextBlock(m)
  BY <1>1 DEF NextBlock, Continues, Announce
<1>8. UNCHANGED <<snapshot, clientVars>>
  BY <1>1 DEF Announce, storeVars
<1> QED
  BY <1>2, <1>4, <1>5, <1>6, <1>7, <1>8, FilesSent DEF SInv, Follows, Files

LEMMA BlockFiles ==
    ASSUME SInv, SendBlock
    PROVE  Files'
<1>1. /\ reading.name \in DOMAIN snapshot /\ files = snapshot
      /\ reading \in [name : Names, sent : Nat] /\ reading.sent < Len(files[reading.name])
  BY DEF SInv, IInv, TypeOK, ThreadOK, ListsFiles, SendsOneMoment, SendBlock, Sending
<1>2. PICK m : m = Block(snapshot[reading.name][reading.sent + 1])
  OBVIOUS
<1>3. m \in Messages /\ m.type # "metadata" /\ Sends(m)
  <2>1. snapshot[reading.name][reading.sent + 1] \in Blocks
    BY <1>1, SnapshotHolds DEF SInv
  <2> QED
    BY <1>1, <1>2, <2>1 DEF Block, Messages, SendBlock
<1>4. NextBlock(m)
  <2> SUFFICES ASSUME NEW f \in DOMAIN snapshot, NEW n \in Int, Continues(f, n)
               PROVE  m = Block(snapshot[f][n + 1]) /\ Continues(f, n + 1)'
    BY DEF NextBlock
  <2>1. reading = [name |-> f, sent |-> n]
    BY DEF Continues, SendBlock
  <2>2. reading.name = f /\ reading.sent = n
    BY <2>1
  <2>3. reading' = [name |-> f, sent |-> n + 1] /\ handler' = "send_data"
    BY <1>1, <2>1, <2>2 DEF SendBlock
  <2> QED
    BY <1>2, <2>2, <2>3 DEF Continues
<1>5. UNCHANGED <<snapshot, clientVars>>
  BY DEF SendBlock, storeVars
<1> QED
  BY <1>3, <1>4, <1>5, FilesSent DEF SInv, Follows, Files

LEMMA ServerFiles ==
    ASSUME SInv, ServerStep \/ Kill
    PROVE  Files'
<1> USE DEF storeVars, threadVars, netVars
<1>1. CASE SendMetadata \/ SendBlock \/ AcquireSemaphore
  BY <1>1, MetadataFiles, BlockFiles, AcquireFiles
<1>2. CASE AnswerCheckLatest
  <2>1. Answer \in Messages /\ Answer.type # "metadata" /\ Sends(Answer)
    BY <1>2 DEF Messages, Answer, AnswerCheckLatest
  <2>2. NextBlock(Answer)
    BY <1>2 DEF NextBlock, Continues, AnswerCheckLatest
  <2>3. UNCHANGED <<snapshot, clientVars>>
    BY <1>2 DEF AnswerCheckLatest
  <2> QED
    BY <2>1, <2>2, <2>3, FilesSent DEF SInv, Follows, Files
<1>3. CASE EndOfFile
  <2>1. StillContinues
    <3> SUFFICES ASSUME NEW f \in DOMAIN snapshot, NEW n \in Int,
                        n < Len(snapshot[f]), Continues(f, n)
                 PROVE  FALSE
      BY DEF StillContinues
    <3>1. reading.name = f /\ reading.sent = n
      BY <1>3 DEF Continues, EndOfFile
    <3>2. files = snapshot
      BY <1>3 DEF SInv, IInv, SendsOneMoment, EndOfFile, Sending
    <3>3. Len(snapshot[f]) \in Nat
      BY SnapshotHolds DEF SInv
    <3> QED
      BY <1>3, <3>1, <3>2, <3>3 DEF EndOfFile
  <2> QED
    BY <1>3, <2>1, FilesStay DEF EndOfFile, SInv, Follows, Files
<1>4. CASE ReceiveRequest \/ ReleaseSemaphore \/ CloseConnection
  <2>1. StillContinues
    BY <1>4 DEF StillContinues, Continues, ReceiveRequest, ReleaseSemaphore, CloseConnection
  <2> QED
    BY <1>4, <2>1, FilesStay
    DEF ReceiveRequest, ReleaseSemaphore, CloseConnection, SInv, Follows, Files
<1>5. CASE BrokenPipe \/ Kill
  <2>1. Terminate
    BY <1>5 DEF BrokenPipe, Kill
  <2>2. StillContinues
    BY <2>1 DEF StillContinues, Continues, Terminate
  <2> QED
    BY <2>1, <2>2, FilesStay DEF Terminate, SInv, Follows, Files
<1> QED
  BY <1>1, <1>2, <1>3, <1>4, <1>5 DEF ServerStep

\* The other threads change files, but neither the snapshot nor the stream.
LEMMA OthersFollow ==
    ASSUME SInv, OtherThreads
    PROVE  Follows'
<1>1. UNCHANGED <<snapshot, threadVars, clientVars, netVars>>
  BY DEF OtherThreads, BeginExchange, ChangeFiles, EndExchange
<1>2. StillContinues
  BY <1>1 DEF StillContinues, Continues, threadVars
<1>3. Files'
  BY <1>1, <1>2, FilesStay DEF SInv, Follows, Files, netVars
<1>4. OneDownload' /\ Broken'
  BY <1>1 DEF SInv, Follows, OneDownload, Untouched, Broken, threadVars, clientVars, netVars
<1> QED
  BY <1>3, <1>4 DEF Follows, Files

-----------------------------------------------------------------------------
(* The steps of the client.                                                *)

\* A step of the client after which it receives nothing.
LEMMA ReceivesNothing ==
    ASSUME SInv, client' \notin Receiving, UNCHANGED snapshot,
           client' # "dead" => client \notin {"receive", "dead"} /\ UNCHANGED localDir
    PROVE  Files'
BY DEF SInv, Follows, Files, FilesWhole, Kept, Fetched, Announced, InTheMiddle, Receiving

\* A step of the client once its request has been received.
LEMMA NoMoreRequests ==
    ASSUME SInv, client # "prompt", handler # "wait", client' # "prompt",
           \A i \in DOMAIN toServer : toServer[i] # "file_transfer",
           UNCHANGED handler, UNCHANGED toServer \/ Send("check_latest")
    PROVE  OneDownload'
<1>1. \A i \in DOMAIN toServer' : toServer'[i] # "file_transfer"
  <2>1. toServer \in Seq(Requests)
    BY Streams DEF SInv
  <2> QED
    BY <2>1 DEF Send
<1> QED
  BY <1>1 DEF OneDownload

LEMMA RequestFollows ==
    ASSUME SInv, RequestFiles
    PROVE  Follows'
<1> USE DEF storeVars, threadVars
<1>1. /\ Untouched /\ toServer = <<>> /\ handler \in {"poll", "closed"}
      /\ link => handler = "poll"
  BY DEF SInv, Follows, OneDownload, Broken, RequestFiles
<1>2. Untouched'
  BY <1>1 DEF Untouched, RequestFiles
<1>3. OneDownload'
  <2>1. CASE link
    <3>1. toServer' = <<"file_transfer">>
      BY <1>1, <2>1 DEF RequestFiles, Send
    <3>2. \A i \in DOMAIN toServer' : i = 1
      BY <3>1
    <3> QED
      BY <1>1, <1>2, <2>1, <3>2 DEF OneDownload, RequestFiles
  <2>2. CASE ~ link
    BY <1>1, <1>2, <2>2 DEF OneDownload, RequestFiles, Send
  <2> QED
    BY <2>1, <2>2
<1>4. Broken'
  BY DEF SInv, Follows, Broken, RequestFiles
<1>5. Files'
  BY <1>2 DEF Files, FilesWhole, Kept, Untouched, Announced, InTheMiddle, RequestFiles
<1> QED
  BY <1>3, <1>4, <1>5 DEF Follows, Files

\* The client ends: nothing is said of its files then.
LEMMA DeathFollows ==
    ASSUME SInv, ParseError \/ ClientBrokenPipe \/ KillClient
    PROVE  Follows'
<1>1. Dies /\ UNCHANGED <<storeVars, threadVars, toServer>>
  BY DEF ParseError, ClientBrokenPipe, KillClient
<1>2. Files'
  BY <1>1, ReceivesNothing DEF Dies, storeVars, Receiving
<1>3. OneDownload' /\ Broken'
  BY <1>1 DEF SInv, Follows, OneDownload, Untouched, Broken, Dies, threadVars
<1> QED
  BY <1>2, <1>3 DEF Follows, Files

\* The server has gone away; a file that is half there is removed.
LEMMA LostFollows ==
    ASSUME SInv, MetadataLost \/ DataLost
    PROVE  Follows'
<1> USE DEF storeVars, threadVars, netVars
<1>1. /\ client \in Receiving /\ client' = "ready"
      /\ UNCHANGED <<snapshot, handler, toServer, link>>
  BY DEF MetadataLost, DataLost, Receiving
<1>2. handler = "closed"
  BY <1>1 DEF SInv, Follows, Broken, MetadataLost, DataLost, Lost, Receiving
<1>3. OneDownload' /\ Broken'
  <2>1. /\ client # "prompt" /\ client # "dead"
        /\ \A i \in DOMAIN toServer : toServer[i] # "file_transfer"
    BY <1>1, <1>2 DEF SInv, Follows, OneDownload, Receiving
  <2> QED
    BY <1>1, <1>2, <2>1, NoMoreRequests DEF SInv, Follows, Broken
<1>4. Files'
  <2>1. CASE MetadataLost
    BY <1>1, <2>1, ReceivesNothing DEF MetadataLost, Receiving
  <2>2. CASE DataLost
    BY <1>1, <2>2 DEF DataLost, SInv, Follows, Files, FilesWhole, Kept, Fetched, Announced,
                      InTheMiddle, Receiving
  <2> QED
    BY <2>1, <2>2
<1> QED
  BY <1>3, <1>4 DEF Follows, Files

\* The syncs that follow read the stream, but write no file.
LEMMA SyncFollows ==
    ASSUME SInv, InitiateSync \/ OnAnswer
    PROVE  Follows'
<1> USE DEF storeVars, threadVars
<1>1. /\ client \in {"ready", "idle", "await_latest"}
      /\ client' \in {"await_latest", "idle"}
      /\ UNCHANGED <<snapshot, handler, localDir, link>>
      /\ UNCHANGED toServer \/ Send("check_latest")
  BY DEF InitiateSync, OnAnswer
<1>2. /\ client # "prompt" /\ handler # "wait"
      /\ \A i \in DOMAIN toServer : toServer[i] # "file_transfer"
  BY <1>1, Begun DEF SInv, Follows
<1>3. OneDownload' /\ Broken'
  BY <1>1, <1>2, NoMoreRequests DEF SInv, Follows, Broken
<1>4. Files'
  BY <1>1, ReceivesNothing DEF Receiving
<1> QED
  BY <1>3, <1>4 DEF Follows, Files

\* Taking a message leaves the files that are announced behind it.
LEMMA AnnouncedBehind ==
    ASSUME SInv, client \in Receiving, toClient # <<>>, Take,
           UNCHANGED <<snapshot, handler, reading>>
    PROVE  Announced'
<1> SUFFICES ASSUME NEW i \in DOMAIN toClient', toClient'[i].type = "metadata"
             PROVE  /\ Carries(toClient[i].name, i)'
                    /\ toClient'[i].size = Len(snapshot[toClient'[i].name])
  BY DEF Announced
<1>1. /\ i \in Int /\ i + 1 \in Int /\ i + 1 \in DOMAIN toClient
      /\ toClient'[i] = toClient[i + 1] /\ (i + 1) - 1 = i
  BY Streams DEF SInv, Take
<1>2. PICK f : f = toClient[i + 1].name
  OBVIOUS
<1>3. Carries(f, i + 1) /\ toClient[i + 1].size = Len(snapshot[f])
  BY <1>1, <1>2 DEF SInv, Follows, Announced
<1>4. PICK j \in Int : j = i + 1
  BY <1>1
<1>5. Carries(f, j - 1)'
  BY <1>3, <1>4, CarriesTail DEF SInv
<1>6. Carries(f, i)'
  BY <1>1, <1>4, <1>5
<1> QED
  BY <1>1, <1>2, <1>3, <1>6

\* A step of the client that takes a message of the download.
LEMMA TakesOnce ==
    ASSUME SInv, toClient # <<>>, client \in Receiving,
           client' \notin {"prompt", "dead"}, UNCHANGED <<handler, toServer, link>>
    PROVE  OneDownload' /\ Broken'
<1>1. /\ client # "prompt" /\ client # "dead" /\ handler # "wait"
      /\ \A i \in DOMAIN toServer : toServer[i] # "file_transfer"
  BY Begun DEF SInv, Follows, Receiving
<1> QED
  BY <1>1, NoMoreRequests DEF SInv, Follows, Broken

LEMMA MetadataFollows ==
    ASSUME SInv, OnMetadata
    PROVE  Follows'
<1> USE DEF storeVars, threadVars
<1>1. PICK f, size : f = Head(toClient).name /\ size = Head(toClient).size
  OBVIOUS
<1>2. /\ toClient # <<>> /\ 1 \in DOMAIN toClient /\ toClient[1] = Head(toClient)
      /\ toClient[1].type = "metadata"
  BY Streams DEF SInv, OnMetadata, Found
<1>3. Carries(f, 1) /\ size = Len(snapshot[f])
  BY <1>1, <1>2 DEF SInv, Follows, Announced, OnMetadata, Receiving
<1>4. f \in DOMAIN snapshot /\ snapshot[f] \in Seq(Blocks) /\ size \in Nat
  BY <1>3, SnapshotHolds DEF SInv, Carries
<1>5. /\ UNCHANGED <<snapshot, handler, reading, toServer, link>> /\ Take
      /\ incoming' = [name |-> f, left |-> size]
      /\ localDir' = [n \in DOMAIN localDir \cup {f} |-> IF n = f THEN <<>> ELSE localDir[n]]
      /\ IF size = 0 THEN client' \in {"ready", "await_metadata"} ELSE client' = "receive"
  BY <1>1 DEF OnMetadata, FileReceived
<1>6. FilesWhole'
  <2> SUFFICES ASSUME NEW n \in DOMAIN localDir', ~ (client' = "receive" /\ n = f)
               PROVE  Kept(n)' \/ Fetched(n)'
    BY <1>5 DEF FilesWhole
  <2>1. CASE n = f
    <3>1. size = 0
      BY <1>5, <2>1
    <3>2. snapshot[f] = <<>>
      BY <1>3, <1>4, <3>1, EmptySeq
    <3> QED
      BY <1>4, <1>5, <2>1, <3>2 DEF Fetched
  <2>2. CASE n # f
    BY <1>5, <2>2 DEF SInv, Follows, FilesWhole, Kept, Fetched, OnMetadata
  <2> QED
    BY <2>1, <2>2
<1>7. Announced'
  BY <1>2, <1>5, AnnouncedBehind DEF OnMetadata, Receiving
<1>8. InTheMiddle'
  <2> SUFFICES ASSUME client' = "receive"
               PROVE  InTheMiddle'
    BY DEF InTheMiddle
  <2>1. Received(f)' = 0 /\ - (Received(f)') = 0
    <3>1. Received(f)' = size - size
      BY <1>3, <1>5 DEF Received
    <3>2. size \in Nat
      BY <1>4
    <3>3. size - size = 0
      BY <3>2
    <3>4. \A q \in Int : - q = 0 - q /\ (q = 0 => 0 - q = 0)
      OBVIOUS
    <3>5. Received(f)' = 0 /\ Received(f)' \in Int
      BY <3>1, <3>3
    <3> QED
      BY <3>4, <3>5
  <2>2. Carries(f, 0)'
    <3>1. PICK j \in Int : j = 1
      OBVIOUS
    <3>2. Carries(f, j - 1)'
      BY <1>2, <1>3, <1>5, <3>1, CarriesTail DEF SInv
    <3>3. j - 1 = 0
      BY <3>1
    <3> QED
      BY <3>2, <3>3
  <2>3. localDir'[f] = <<>>
    BY <1>5
  <2> QED
    BY <1>5, <2>1, <2>2, <2>3 DEF InTheMiddle
<1>9. OneDownload' /\ Broken'
  BY <1>2, <1>5, TakesOnce DEF OnMetadata, Receiving
<1> QED
  BY <1>6, <1>7, <1>8, <1>9 DEF Follows

\* A block arrives: the r blocks of the file so far are what they should be,
\* and so is the next one, however many are left.
ReceivesBlock(f, size, r, left) ==
    /\ f \in DOMAIN snapshot /\ snapshot[f] \in Seq(Blocks) /\ f \in DOMAIN localDir
    /\ size = Len(snapshot[f]) /\ r = size - left
    /\ f = incoming.name /\ client = "receive" /\ toClient # <<>> /\ Carries(f, - r)
    /\ UNCHANGED <<snapshot, handler, reading, toServer, link>> /\ Take
    /\ incoming'.name = f /\ incoming'.left = left - 1
    /\ localDir' = [localDir EXCEPT ![f] = Append(localDir[f], Head(toClient).block)]
    /\ IF left = 1 THEN client' \in {"ready", "await_metadata"} ELSE client' = "receive"
    /\ localDir'[f] \in Seq(Blocks) /\ Len(localDir'[f]) = r + 1
    /\ \A k \in 1..(r + 1) : localDir'[f][k] = snapshot[f][k]

LEMMA BlockReceived ==
    ASSUME SInv, OnBlock
    PROVE  \E f : \E size, r \in Nat, left \in Nat \ {0} : ReceivesBlock(f, size, r, left)
<1> USE DEF storeVars, threadVars
<1>1. PICK f : f = incoming.name
  OBVIOUS
<1>2. /\ f \in DOMAIN snapshot /\ snapshot[f] \in Seq(Blocks) /\ f \in DOMAIN localDir
      /\ localDir[f] \in Seq(Blocks)
  BY <1>1, SnapshotHolds, ReceivedType
  DEF SInv, IInv, TypeOK, ClientOK, CountsDown, Follows, OnBlock
<1>3. PICK r \in Nat : r = Len(localDir[f])
  BY <1>2, LenProperties
<1>4. PICK size \in Nat : size = Len(snapshot[f])
  BY <1>2, LenProperties
<1>5. PICK left \in Nat \ {0} : left = incoming.left
  BY DEF SInv, IInv, TypeOK, ClientOK, CountsDown, OnBlock
<1>6. /\ Carries(f, - Received(f)) /\ Received(f) = r /\ r = size - left
      /\ \A k \in 1..r : localDir[f][k] = snapshot[f][k]
  BY <1>1, <1>3, <1>4, <1>5 DEF SInv, Follows, InTheMiddle, Received, OnBlock
<1>7. /\ toClient # <<>> /\ 1 \in DOMAIN toClient /\ toClient[1] = Head(toClient)
      /\ client = "receive"
  BY Streams DEF SInv, OnBlock, Found
<1>8. PICK i \in Int : i = - r
  BY <1>3
<1>9. Carries(f, i)
  BY <1>6, <1>8
<1>10. Head(toClient) = Block(snapshot[f][r + 1])
  <2>1. r + 1 \in 1..size /\ i + (r + 1) = 1
    <3>1. r = size - left
      BY <1>6
    <3>2. r + 1 \in 1..size
      BY <3>1
    <3>3. i + (r + 1) = 1
      BY <1>8
    <3> QED
      BY <3>2, <3>3
  <2> QED
    BY <1>4, <1>7, <1>9, <2>1 DEF Carries
<1>11. Head(toClient).block = snapshot[f][r + 1]
  BY <1>10 DEF Block
<1>12. /\ UNCHANGED <<snapshot, handler, reading, toServer, link>> /\ Take
       /\ incoming'.name = f /\ incoming'.left = left - 1
       /\ localDir' = [localDir EXCEPT ![f] = Append(localDir[f], Head(toClient).block)]
       /\ IF left = 1 THEN client' \in {"ready", "await_metadata"} ELSE client' = "receive"
  <2>1. incoming \in [name : Names, left : Nat]
    BY DEF SInv, IInv, TypeOK, ClientOK
  <2> QED
    BY <1>1, <1>5, <1>7, <2>1 DEF OnBlock, FileReceived
<1>13. /\ localDir'[f] \in Seq(Blocks) /\ Len(localDir'[f]) = r + 1
       /\ \A k \in 1..(r + 1) : localDir'[f][k] = snapshot[f][k]
  <2>1. snapshot[f][r + 1] \in Blocks
    <3>1. r = size - left
      BY <1>6
    <3>2. r + 1 \in 1..size
      BY <3>1
    <3> QED
      BY <1>2, <1>4, <3>2
  <2>2. localDir'[f] = Append(localDir[f], snapshot[f][r + 1])
    BY <1>2, <1>11, <1>12
  <2>3. /\ localDir'[f] \in Seq(Blocks) /\ Len(localDir'[f]) = r + 1
        /\ \A k \in 1..r : localDir'[f][k] = localDir[f][k]
        /\ localDir'[f][r + 1] = snapshot[f][r + 1]
    BY <1>2, <1>3, <2>1, <2>2
  <2> QED
    BY <1>3, <1>6, <2>3
<1>14. ReceivesBlock(f, size, r, left)
  BY <1>1, <1>2, <1>4, <1>6, <1>7, <1>8, <1>9, <1>12, <1>13 DEF ReceivesBlock
<1> QED
  BY <1>14

\* With the last block the file is that of the server.
LEMMA LastBlock ==
    ASSUME NEW f, NEW size \in Nat, NEW r \in Nat, ReceivesBlock(f, size, r, 1)
    PROVE  f \in DOMAIN localDir' /\ f \in DOMAIN snapshot /\ localDir'[f] = snapshot[f]
<1>1. size = r + 1
  BY DEF ReceivesBlock
<1>2. localDir'[f] = snapshot[f]
  BY <1>1, SeqEqual DEF ReceivesBlock
<1> QED
  BY <1>2 DEF ReceivesBlock

LEMMA BlockFollows ==
    ASSUME SInv, OnBlock
    PROVE  Follows'
<1>1. PICK f : \E size, r \in Nat, left \in Nat \ {0} : ReceivesBlock(f, size, r, left)
  BY BlockReceived
<1>2. PICK size \in Nat, r \in Nat, left \in Nat \ {0} : ReceivesBlock(f, size, r, left)
  BY <1>1
<1>3. PICK i \in Int : i = - r
  OBVIOUS
<1>4. FilesWhole'
  <2> SUFFICES ASSUME NEW n \in DOMAIN localDir', ~ (client' = "receive" /\ n = f)
               PROVE  Kept(n)' \/ Fetched(n)'
    BY <1>2 DEF ReceivesBlock, FilesWhole
  <2>1. CASE n = f
    <3>1. left = 1
      BY <1>2, <2>1 DEF ReceivesBlock
    <3> QED
      BY <1>2, <2>1, <3>1, LastBlock DEF ReceivesBlock, Fetched
  <2>2. CASE n # f
    BY <1>2, <2>2 DEF ReceivesBlock, SInv, Follows, FilesWhole, Kept, Fetched
  <2> QED
    BY <2>1, <2>2
<1>5. Announced'
  BY <1>2, AnnouncedBehind DEF ReceivesBlock, Receiving
<1>6. InTheMiddle'
  <2> SUFFICES ASSUME client' = "receive"
               PROVE  InTheMiddle'
    BY DEF InTheMiddle
  <2>1. Received(f)' = r + 1 /\ i - 1 = - (r + 1)
    <3>1. Received(f)' = size - (left - 1)
      BY <1>2 DEF ReceivesBlock, Received
    <3>2. r = size - left
      BY <1>2 DEF ReceivesBlock
    <3>3. size - (left - 1) = r + 1
      BY <3>2
    <3>4. i - 1 = - (r + 1)
      BY <1>3
    <3> QED
      BY <3>1, <3>3, <3>4
  <2>2. Carries(f, i - 1)'
    BY <1>2, <1>3, CarriesTail DEF ReceivesBlock, SInv
  <2>3. PICK j \in Int : j = i - 1
    BY <1>3
  <2>4. Carries(f, j)' /\ j = - (Received(f)')
    BY <2>1, <2>2, <2>3
  <2> QED
    BY <1>2, <2>1, <2>4 DEF ReceivesBlock, InTheMiddle
<1>7. OneDownload' /\ Broken'
  BY <1>2, TakesOnce DEF ReceivesBlock, Receiving
<1> QED
  BY <1>4, <1>5, <1>6, <1>7 DEF Follows

-----------------------------------------------------------------------------
LEMMA FollowsFirst == Init => Follows
<1> SUFFICES ASSUME Init PROVE Follows
  OBVIOUS
<1>1. FilesWhole
  BY DEF Init, FilesWhole, Kept
<1>2. OneDownload
  BY DEF Init, OneDownload, Untouched
<1>3. Broken /\ Announced /\ InTheMiddle
  BY DEF Init, Broken, Announced, InTheMiddle, Receiving
<1> QED
  BY <1>1, <1>2, <1>3 DEF Follows

LEMMA FollowsNext == SInv /\ [Next]_vars => SInv'
<1> SUFFICES ASSUME SInv, [Next]_vars PROVE Follows'
  BY Inductive DEF SInv
<1>1. CASE ServerStep \/ Kill
  BY <1>1, ServerFiles, ServerOnce DEF SInv, Follows, Files
<1>2. CASE ClientStep \/ InitiateSync
  BY <1>2, RequestFollows, MetadataFollows, BlockFollows, LostFollows, SyncFollows
  DEF ClientStep
<1>3. CASE OtherThreads
  BY <1>3, OthersFollow
<1>4. CASE ParseError \/ ClientBrokenPipe \/ KillClient
  BY <1>4, DeathFollows
<1>5. CASE UNCHANGED vars
  <2>1. UNCHANGED <<snapshot, threadVars, clientVars, netVars>>
    BY <1>5 DEF vars, storeVars
  <2>2. StillContinues
    BY <2>1 DEF StillContinues, Continues, threadVars
  <2>3. Files'
    BY <2>1, <2>2, FilesStay DEF SInv, Follows, Files, netVars
  <2> QED
    BY <2>1, <2>3
    DEF SInv, Follows, Files, OneDownload, Untouched, Broken, threadVars, clientVars, netVars
<1> QED
  BY <1>1, <1>2, <1>3, <1>4, <1>5 DEF Next, Environment

\* Once receiveFile has returned, whatever the directory held, however its files
\* were cut up and wherever the connection or either process broke off, every
\* file of the client is the server's or the one it had before: never a half.
THEOREM WholeFiles == Spec => []NoHalfFiles
<1>1. Init => SInv
  BY Initially, FollowsFirst DEF SInv
<1>2. SInv => NoHalfFiles
  BY DEF SInv, Follows, FilesWhole, Kept, Fetched, NoHalfFiles
<1> QED
  BY <1>1, <1>2, FollowsNext, PTL DEF Spec

-----------------------------------------------------------------------------
(* Files are no answers.  Every file is announced once: what is in the     *)
(* stream, still in the listing, being received or received already is     *)
(* never the same file twice.  So a client that has counted Expected files *)
(* has Expected different ones: all, if there are no more.  And every      *)
(* block belongs to a file that is announced before it, so that none is    *)
(* left then.                                                              *)

Has(n) == n \in DOMAIN localDir /\ Fetched(n)
Heralded(n) ==
    \E i \in DOMAIN toClient : toClient[i].type = "metadata" /\ toClient[i].name = n
ToCome(n) == Heralded(n) \/ (handler \in Sending /\ n \in listing)
Current(n) == client = "receive" /\ n = incoming.name

\* Nothing has been counted before the server begins to send.
Fresh ==
    \/ client = "prompt" \/ handler = "wait"
    \/ \E i \in DOMAIN toServer : toServer[i] = "file_transfer"
    => wanted = Expected

NoSyncYet ==
    client \in Receiving \cup {"prompt"} =>
        \A i \in DOMAIN toServer : toServer[i] # "check_latest"

\* The message at place i is part of a file the client knows of by then.
Covered(i) ==
    \/ client = "receive" /\ i <= incoming.left
    \/ \E j \in DOMAIN toClient :
           toClient[j].type = "metadata" /\ j < i /\ i <= j + toClient[j].size

\* What the server has still to send of the file it reads.
Unsent == Len(snapshot[reading.name]) - reading.sent

\* So it is with all that has been sent, and with what the server is sending.
Awaited ==
    client \in Receiving =>
        /\ \A i \in DOMAIN toClient : toClient[i].type = "metadata" \/ Covered(i)
        /\ handler = "send_data" =>
               \A i \in Nat : Len(toClient) < i /\ i <= Len(toClient) + Unsent => Covered(i)

Once ==
    client \in Receiving =>
        /\ \A i, j \in DOMAIN toClient :
               toClient[i].type = "metadata" /\ toClient[j].type = "metadata" /\ i # j =>
                   toClient[i].name # toClient[j].name
        /\ \A n \in Names : Heralded(n) => ~ (handler \in Sending /\ n \in listing)
        /\ client = "receive" => ~ ToCome(incoming.name)

Counts(got) ==
    /\ Cardinality(got) + wanted = Expected
    /\ \A n \in got : Has(n) /\ ~ ToCome(n) /\ ~ Current(n)

Counted == client \in Receiving => \E got \in SUBSET Names : Counts(got)

\* The download is over, and complete.
Complete ==
    client \in {"ready", "await_latest", "idle"} /\ wanted = 0
    /\ Cardinality(DOMAIN snapshot) <= Expected
    => /\ \A n \in DOMAIN snapshot : Has(n)
       /\ \A i \in DOMAIN toClient : toClient[i] = Answer
       /\ handler \in Sending => listing = {}
       /\ handler = "send_data" => reading.sent >= Len(snapshot[reading.name])

Answering == Fresh /\ NoSyncYet /\ Awaited /\ Once /\ Counted /\ Complete
AInv == SInv /\ Answering

-----------------------------------------------------------------------------
\* Facts of the stream for the steps below.
LEMMA Stream ==
    ASSUME AInv
    PROVE  /\ toClient \in Seq(Messages) /\ Len(toClient) \in Nat
           /\ DOMAIN toClient = 1..Len(toClient)
           /\ toServer \in Seq(Requests) /\ Len(toServer) \in Nat
           /\ DOMAIN toServer = 1..Len(toServer)
           /\ wanted \in Nat /\ Expected \in Nat \ {0}
           /\ Receiving = {"await_metadata", "receive"}
BY Streams, DownloadAssumption
DEF AInv, SInv, IInv, TypeOK, ClientOK, Receiving

\* A file that is announced is one of the snapshot.
LEMMA HeraldedHeld ==
    ASSUME AInv, client \in Receiving, NEW i \in DOMAIN toClient,
           toClient[i].type = "metadata"
    PROVE  /\ toClient[i].name \in DOMAIN snapshot /\ toClient[i].name \in Names
           /\ toClient[i].size = Len(snapshot[toClient[i].name])
           /\ toClient[i].size \in Nat
<1>1. /\ toClient[i].name \in DOMAIN snapshot
      /\ toClient[i].size = Len(snapshot[toClient[i].name])
  BY DEF AInv, SInv, Follows, Announced, Carries
<1>2. snapshot \in Directories
  BY DEF AInv, SInv, IInv, TypeOK, StoreOK
<1>3. toClient[i].name \in Names
  BY <1>1, <1>2, DirectoryHolds
<1>4. Len(snapshot[toClient[i].name]) \in Nat
  BY <1>1, SnapshotHolds DEF AInv, SInv
<1> QED
  BY <1>1, <1>3, <1>4

\* What the server may do without sending anything.
LEMMA NothingSent ==
    ASSUME AInv, UNCHANGED <<snapshot, clientVars, toClient>>,
           \A i \in DOMAIN toServer' : \E j \in DOMAIN toServer : toServer'[i] = toServer[j],
           handler' = "wait" => handler = "wait"
               \/ \E i \in DOMAIN toServer : toServer[i] = "file_transfer",
           handler' \in Sending => handler \in Sending /\ UNCHANGED listing,
           handler' = "send_data" => handler = "send_data" /\ UNCHANGED reading
    PROVE  Answering'
<1> USE DEF clientVars
<1>1. Fresh'
  BY DEF AInv, Answering, Fresh
<1>2. NoSyncYet'
  BY DEF AInv, Answering, NoSyncYet
<1>3. Awaited'
  <2>1. \A i : Covered(i)' <=> Covered(i)
    BY DEF Covered
  <2> QED
    BY <2>1 DEF AInv, Answering, Awaited, Unsent
<1>4. /\ \A n : Heralded(n)' <=> Heralded(n)
      /\ \A n : ToCome(n)' => ToCome(n)
      /\ \A n : Current(n)' <=> Current(n)
      /\ \A n : Has(n)' <=> Has(n)
  BY DEF Heralded, ToCome, Current, Has, Fetched
<1>5. Once'
  BY <1>4 DEF AInv, Answering, Once
<1>6. Counted'
  BY <1>4 DEF AInv, Answering, Counted, Counts
<1>7. Complete'
  BY <1>4 DEF AInv, Answering, Complete
<1> QED
  BY <1>1, <1>2, <1>3, <1>5, <1>6, <1>7 DEF Answering
-----------------------------------------------------------------------------
(* The server sends.                                                       *)

\* The stream after a message has been sent.
LEMMA Sent ==
    ASSUME AInv, NEW m, Sends(m)
    PROVE  /\ Len(toClient') = Len(toClient) + 1
           /\ DOMAIN toClient' = DOMAIN toClient \cup {Len(toClient) + 1}
           /\ Len(toClient) + 1 \notin DOMAIN toClient
           /\ \A i \in DOMAIN toClient : i \in Nat \ {0} /\ toClient'[i] = toClient[i]
           /\ toClient'[Len(toClient) + 1] = m
BY Stream DEF Sends

\* What is covered stays so.
LEMMA StaysCovered ==
    ASSUME AInv, NEW m, Sends(m), UNCHANGED clientVars, NEW i, Covered(i)
    PROVE  Covered(i)'
BY Sent DEF Covered, clientVars

LEMMA MetadataAnswering ==
    ASSUME AInv, SendMetadata
    PROVE  Answering'
<1>1. PICK f \in listing : Announce(f) /\ listing' = listing \ {f}
  BY DEF SendMetadata
<1>2. /\ f \in DOMAIN snapshot /\ files = snapshot /\ f \in Names
      /\ Len(snapshot[f]) \in Nat
  <2>1. f \in DOMAIN snapshot /\ files = snapshot
    BY <1>1 DEF AInv, SInv, IInv, ListsFiles, SendsOneMoment, Announce, Sending
  <2> QED
    BY <2>1, SnapshotHolds DEF AInv, SInv, IInv, TypeOK, ThreadOK
<1>3. PICK m : m = Metadata(f, Len(snapshot[f]))
  OBVIOUS
<1>4. m.type = "metadata" /\ m.name = f /\ m.size = Len(snapshot[f])
  BY <1>3 DEF Metadata
<1>5. /\ Sends(m) /\ UNCHANGED <<snapshot, clientVars, toServer>>
      /\ handler = "list" /\ handler' = "send_data" /\ reading' = [name |-> f, sent |-> 0]
  BY <1>1, <1>2, <1>3 DEF Announce, storeVars
<1>6. PICK n \in Nat : n = Len(toClient)
  BY Stream
<1>7. /\ DOMAIN toClient' = DOMAIN toClient \cup {n + 1} /\ n + 1 \notin DOMAIN toClient
      /\ \A i \in DOMAIN toClient : toClient'[i] = toClient[i]
      /\ toClient'[n + 1] = m
  BY <1>5, <1>6, Sent
<1>8. Fresh' /\ NoSyncYet'
  BY <1>5 DEF AInv, Answering, Fresh, NoSyncYet, clientVars
<1>9. Awaited'
  <2> SUFFICES ASSUME client \in Receiving
               PROVE  Awaited'
    BY <1>5 DEF Awaited, clientVars
  <2>1. ASSUME NEW i \in DOMAIN toClient'
        PROVE  toClient'[i].type = "metadata" \/ Covered(i)'
    <3>1. CASE i \in DOMAIN toClient
      BY <1>5, <1>7, <3>1, StaysCovered DEF AInv, Answering, Awaited
    <3>2. CASE i = n + 1
      BY <1>4, <1>7, <3>2
    <3> QED
      BY <1>7, <3>1, <3>2
  <2>2. ASSUME NEW i \in Nat, n + 1 < i, i <= n + 1 + Len(snapshot[f])
        PROVE  Covered(i)'
    BY <1>4, <1>7, <2>2 DEF Covered
  <2>3. Len(toClient') = n + 1 /\ Unsent' = Len(snapshot[f])
    <3>1. Unsent' = Len(snapshot[f]) - 0
      BY <1>5 DEF Unsent
    <3> QED
      BY <1>2, <1>5, <1>6, <3>1, Sent
  <2> QED
    BY <2>1, <2>2, <2>3 DEF Awaited
<1>10. \A i \in Names : Heralded(i)' <=> Heralded(i) \/ i = f
  BY <1>4, <1>7 DEF Heralded
<1>11. \A i \in Names : ToCome(i)' => ToCome(i)
  BY <1>1, <1>5, <1>10 DEF ToCome, Sending
<1>12. Once'
  <2> SUFFICES ASSUME client \in Receiving
               PROVE  Once'
    BY <1>5 DEF Once, clientVars
  <2>1. \A i \in DOMAIN toClient : toClient[i].type = "metadata" => toClient[i].name # f
    <3>1. ~ Heralded(f)
      BY <1>2, <1>5 DEF AInv, Answering, Once, Sending
    <3> QED
      BY <3>1 DEF Heralded
  <2>2. \A i, j \in DOMAIN toClient' :
            toClient'[i].type = "metadata" /\ toClient'[j].type = "metadata" /\ i # j =>
                toClient'[i].name # toClient'[j].name
    BY <1>4, <1>7, <2>1 DEF AInv, Answering, Once
  <2>3. \A i \in Names : Heralded(i)' => i \notin listing'
    BY <1>1, <1>5, <1>10 DEF AInv, Answering, Once, Sending
  <2>4. client = "receive" => ~ ToCome(incoming.name)'
    <3> SUFFICES ASSUME client = "receive"
                 PROVE  ~ ToCome(incoming.name)'
      OBVIOUS
    <3>1. incoming.name \in Names /\ ~ ToCome(incoming.name)
      BY DEF AInv, SInv, IInv, TypeOK, ClientOK, Answering, Once
    <3>2. incoming' = incoming
      BY <1>5 DEF clientVars
    <3> QED
      BY <1>11, <3>1, <3>2 DEF ToCome, Heralded
  <2>5. UNCHANGED <<client, incoming>>
    BY <1>5 DEF clientVars
  <2> QED
    BY <2>2, <2>3, <2>4, <2>5 DEF Once, ToCome, Heralded
<1>13. Counted'
  BY <1>5, <1>11 DEF AInv, Answering, Counted, Counts, Has, Fetched, Current, clientVars
<1>14. Complete'
  BY <1>1, <1>5 DEF AInv, Answering, Complete, Sending, clientVars
<1> QED
  BY <1>8, <1>9, <1>12, <1>13, <1>14 DEF Answering

LEMMA BlockAnswering ==
    ASSUME AInv, SendBlock
    PROVE  Answering'
<1>1. /\ reading.name \in DOMAIN snapshot /\ files = snapshot
      /\ reading \in [name : Names, sent : Nat]
  BY DEF AInv, SInv, IInv, TypeOK, ThreadOK, ListsFiles, SendsOneMoment, SendBlock, Sending
<1>2. PICK m : m = Block(files[reading.name][reading.sent + 1])
  OBVIOUS
<1>3. /\ Sends(m) /\ m.type # "metadata"
      /\ UNCHANGED <<snapshot, clientVars, toServer, handler, listing>>
      /\ handler = "send_data" /\ reading.sent < Len(snapshot[reading.name])
  BY <1>1, <1>2 DEF SendBlock, Block, storeVars
<1>4. PICK n \in Nat : n = Len(toClient)
  BY Stream
<1>5. PICK size \in Nat, sent \in Nat : size = Len(snapshot[reading.name]) /\ sent = reading.sent
  BY <1>1, SnapshotHolds DEF AInv, SInv
<1>6. /\ DOMAIN toClient' = DOMAIN toClient \cup {n + 1} /\ n + 1 \notin DOMAIN toClient
      /\ \A i \in DOMAIN toClient : toClient'[i] = toClient[i]
      /\ toClient'[n + 1] = m /\ Len(toClient') = n + 1
  BY <1>3, <1>4, Sent
<1>7. Fresh' /\ NoSyncYet'
  BY <1>3 DEF AInv, Answering, Fresh, NoSyncYet, clientVars
<1>8. Awaited'
  <2> SUFFICES ASSUME client \in Receiving
               PROVE  Awaited'
    BY <1>3 DEF Awaited, clientVars
  <2>1. Unsent = size - sent /\ Unsent' = size - (sent + 1)
    BY <1>1, <1>3, <1>5 DEF Unsent, SendBlock
  <2>2. ASSUME NEW i \in Nat, n < i, i <= n + size - sent
        PROVE  Covered(i) /\ Covered(i)'
    <3>1. Len(toClient) < i /\ i <= Len(toClient) + Unsent
      BY <1>4, <2>1, <2>2
    <3>2. Covered(i)
      BY <1>3, <3>1 DEF AInv, Answering, Awaited
    <3> QED
      BY <1>3, <3>2, StaysCovered
  <2>3. Covered(n + 1)'
    <3>1. sent < size
      BY <1>3, <1>5
    <3>2. n < n + 1 /\ n + 1 <= n + size - sent
      BY <3>1
    <3> QED
      BY <2>2, <3>2
  <2>4. \A i \in DOMAIN toClient' : toClient'[i].type = "metadata" \/ Covered(i)'
    BY <1>3, <1>6, <2>3, StaysCovered DEF AInv, Answering, Awaited
  <2>5. ASSUME NEW i \in Nat, Len(toClient') < i, i <= Len(toClient') + Unsent'
        PROVE  Covered(i)'
    <3>1. n < i /\ i <= n + size - sent
      BY <1>6, <2>1, <2>5
    <3> QED
      BY <2>2, <3>1
  <2> QED
    BY <2>4, <2>5 DEF Awaited
<1>9. /\ \A i : Heralded(i)' <=> Heralded(i)
      /\ \A i : ToCome(i)' <=> ToCome(i)
  <2>1. \A i : Heralded(i)' <=> Heralded(i)
    BY <1>3, <1>6 DEF Heralded
  <2> QED
    BY <1>3, <2>1 DEF ToCome
<1>10. Once'
  <2>1. \A i, j \in DOMAIN toClient' :
            toClient'[i].type = "metadata" /\ toClient'[j].type = "metadata" =>
                i \in DOMAIN toClient /\ j \in DOMAIN toClient
    BY <1>3, <1>6
  <2> QED
    BY <1>3, <1>6, <1>9, <2>1 DEF AInv, Answering, Once, clientVars
<1>11. Counted'
  BY <1>3, <1>9 DEF AInv, Answering, Counted, Counts, Has, Fetched, Current, clientVars
<1>12. Complete'
  <2>1. ~ (reading.sent >= Len(snapshot[reading.name]))
    BY <1>3, <1>5
  <2> QED
    BY <1>3, <2>1 DEF AInv, Answering, Complete, clientVars
<1> QED
  BY <1>7, <1>8, <1>10, <1>11, <1>12 DEF Answering

\* A sync is answered only when receiveFile has returned.
LEMMA AnswerAnswering ==
    ASSUME AInv, AnswerCheckLatest
    PROVE  Answering'
<1> USE DEF storeVars, threadVars, clientVars
<1>1. /\ toServer # <<>> /\ 1 \in DOMAIN toServer /\ toServer[1] = "check_latest"
  BY Stream DEF AnswerCheckLatest, Arrived
<1>2. client \notin Receiving \cup {"prompt"}
  BY <1>1 DEF AInv, Answering, NoSyncYet
<1>3. \A i \in DOMAIN toServer' : toServer'[i] \in {toServer[j] : j \in DOMAIN toServer}
  BY <1>1, Rest DEF AInv, SInv, AnswerCheckLatest
<1>4. Fresh'
  BY <1>3 DEF AInv, Answering, Fresh, AnswerCheckLatest
<1>5. NoSyncYet' /\ Awaited' /\ Once' /\ Counted'
  BY <1>2 DEF NoSyncYet, Awaited, Once, Counted, AnswerCheckLatest
<1>6. Complete'
  BY Sent DEF AInv, Answering, Complete, AnswerCheckLatest, Has, Fetched, Sending
<1> QED
  BY <1>4, <1>5, <1>6 DEF Answering

\* The listing is made before anything has come.
LEMMA AcquireAnswering ==
    ASSUME AInv, AcquireSemaphore
    PROVE  Answering'
<1> USE DEF clientVars, netVars
<1>1. /\ Untouched /\ wanted = Expected /\ handler' = "list"
      /\ UNCHANGED <<clientVars, toClient, toServer>>
  BY DEF AInv, SInv, Follows, OneDownload, Answering, Fresh, AcquireSemaphore
<1>2. \A n : ~ Heralded(n)'
  BY <1>1 DEF Heralded, Untouched
<1>3. Fresh' /\ NoSyncYet'
  BY <1>1 DEF AInv, Answering, Fresh, NoSyncYet
<1>4. Awaited' /\ Complete'
  BY <1>1 DEF Awaited, Complete, Untouched
<1>5. Once'
  BY <1>1, <1>2 DEF Once, Untouched
<1>6. Counted'
  <2>1. Cardinality({}) + wanted' = Expected
    BY <1>1, FS_EmptySet, Stream
  <2>2. Counts({})'
    BY <2>1 DEF Counts
  <2> QED
    BY <2>2 DEF Counted
<1> QED
  BY <1>3, <1>4, <1>5, <1>6 DEF Answering

LEMMA ServerAnswering ==
    ASSUME AInv, ServerStep \/ Kill
    PROVE  Answering'
<1> USE DEF storeVars, threadVars, netVars
<1>1. CASE SendMetadata \/ SendBlock \/ AnswerCheckLatest \/ AcquireSemaphore
  BY <1>1, MetadataAnswering, BlockAnswering, AnswerAnswering, AcquireAnswering
<1>2. CASE ReceiveRequest
  <2>1. toServer # <<>> /\ 1 \in DOMAIN toServer /\ toServer[1] = "file_transfer"
    BY <1>2, Stream DEF ReceiveRequest, Arrived
  <2>2. \A i \in DOMAIN toServer' : \E j \in DOMAIN toServer : toServer'[i] = toServer[j]
    BY <1>2, <2>1, Rest DEF AInv, SInv, ReceiveRequest
  <2> QED
    BY <1>2, <2>1, <2>2, NothingSent DEF ReceiveRequest, Sending
<1>3. CASE EndOfFile \/ ReleaseSemaphore \/ CloseConnection
  <2>1. /\ UNCHANGED <<snapshot, clientVars, toClient, toServer, listing, reading>>
        /\ handler' \in {"list", "poll", "closed"}
        /\ handler' = "list" => handler \in Sending
    BY <1>3 DEF EndOfFile, ReleaseSemaphore, CloseConnection, Sending
  <2> QED
    BY <2>1, NothingSent DEF Sending
<1>4. CASE BrokenPipe \/ Kill
  <2>1. Terminate
    BY <1>4 DEF BrokenPipe, Kill
  <2> QED
    BY <2>1, NothingSent DEF Terminate, Sending
<1> QED
  BY <1>1, <1>2, <1>3, <1>4 DEF ServerStep
-----------------------------------------------------------------------------
(* The client takes what comes.                                            *)

LEMMA Taken ==
    ASSUME AInv, toClient # <<>>, Take
    PROVE  /\ 1 \in DOMAIN toClient /\ Head(toClient) = toClient[1]
           /\ Len(toClient') = Len(toClient) - 1
           /\ \A i \in DOMAIN toClient' :
                  i \in Nat \ {0} /\ i + 1 \in DOMAIN toClient /\ toClient'[i] = toClient[i + 1]
           /\ \A j \in DOMAIN toClient : j # 1 =>
                  j - 1 \in DOMAIN toClient' /\ toClient'[j - 1] = toClient[j]
BY Stream DEF Take

\* A step that takes a message of file f, of which `left` blocks are to come:
\* nothing that is counted, and nothing that comes behind it, is of file f.
TakesFile(f, left) ==
    /\ client \in Receiving /\ toClient # <<>> /\ Take
    /\ UNCHANGED <<snapshot, handler, listing, reading, toServer>>
    /\ incoming' = [name |-> f, left |-> left]
    /\ left # 0 => client' = "receive" /\ UNCHANGED wanted
    /\ left = 0 => FileReceived /\ Has(f)'
    /\ \A n \in DOMAIN localDir \ {f} : n \in DOMAIN localDir' /\ localDir'[n] = localDir[n]
    /\ ~ ToCome(f)' /\ (Heralded(f) \/ Current(f))
    /\ \A i \in Nat : Covered(i + 1) => i <= left \/
           \E j \in DOMAIN toClient : /\ j # 1 /\ toClient[j].type = "metadata"
                                      /\ j < i + 1 /\ i + 1 <= j + toClient[j].size

\* What is covered by a file that is announced behind stays covered.
LEMMA CoveredBehind ==
    ASSUME AInv, NEW f, NEW left \in Nat, TakesFile(f, left), NEW i \in Nat \ {0},
           Covered(i + 1)
    PROVE  i <= left \/ \E j \in DOMAIN toClient' :
               toClient'[j].type = "metadata" /\ j < i /\ i <= j + toClient'[j].size
<1> SUFFICES ASSUME ~ (i <= left)
             PROVE  \E j \in DOMAIN toClient' :
                        toClient'[j].type = "metadata" /\ j < i /\ i <= j + toClient'[j].size
  OBVIOUS
<1>1. PICK j \in DOMAIN toClient :
          /\ j # 1 /\ toClient[j].type = "metadata"
          /\ j < i + 1 /\ i + 1 <= j + toClient[j].size
  BY DEF TakesFile
<1>2. j - 1 \in DOMAIN toClient' /\ toClient'[j - 1] = toClient[j] /\ j \in Nat
  BY <1>1, Taken, Stream DEF TakesFile
<1>3. PICK size \in Nat : size = toClient[j].size
  BY <1>1, HeraldedHeld DEF TakesFile
<1>4. j - 1 < i /\ i <= j - 1 + size
  BY <1>1, <1>2, <1>3
<1> QED
  BY <1>1, <1>2, <1>3, <1>4

LEMMA TakesAwaited ==
    ASSUME AInv, NEW f, NEW left \in Nat, TakesFile(f, left)
    PROVE  Awaited'
<1> SUFFICES ASSUME client' \in Receiving
             PROVE  Awaited'
  BY DEF Awaited
<1>1. ASSUME NEW i \in Nat \ {0}, Covered(i + 1)
      PROVE  Covered(i)'
  <2>1. CASE i <= left
    <3>1. client' = "receive" /\ incoming'.left = left
      BY <1>1, <2>1 DEF TakesFile
    <3> QED
      BY <2>1, <3>1 DEF Covered
  <2>2. CASE ~ (i <= left)
    BY <1>1, <2>2, CoveredBehind DEF Covered
  <2> QED
    BY <2>1, <2>2
<1>2. \A i \in DOMAIN toClient' : toClient'[i].type = "metadata" \/ Covered(i)'
  <2> SUFFICES ASSUME NEW i \in DOMAIN toClient', toClient'[i].type # "metadata"
               PROVE  Covered(i)'
    OBVIOUS
  <2>1. i \in Nat \ {0} /\ i + 1 \in DOMAIN toClient /\ toClient[i + 1].type # "metadata"
    BY Taken DEF TakesFile
  <2>2. Covered(i + 1)
    BY <2>1 DEF AInv, Answering, Awaited, TakesFile
  <2> QED
    BY <1>1, <2>1, <2>2
<1>3. ASSUME handler' = "send_data", NEW i \in Nat, Len(toClient') < i,
             i <= Len(toClient') + Unsent'
      PROVE  Covered(i)'
  <2>1. PICK n \in Nat, m \in Nat : n = Len(toClient) /\ m = Len(toClient')
    <3>1. 1 \in 1..Len(toClient) /\ Len(toClient') = Len(toClient) - 1 /\ Len(toClient) \in Nat
      BY Taken, Stream DEF TakesFile
    <3> QED
      BY <3>1
  <2>2. m = n - 1
    BY <2>1, Taken DEF TakesFile
  <2>3. Unsent' = Unsent /\ handler = "send_data" /\ Unsent \in Int
    <3>1. /\ reading.name \in DOMAIN snapshot /\ reading.sent \in Nat
      BY <1>3
      DEF TakesFile, AInv, SInv, IInv, TypeOK, ThreadOK, ListsFiles, SendsOneMoment, Sending
    <3>2. Len(snapshot[reading.name]) \in Nat
      BY <3>1, SnapshotHolds DEF AInv, SInv
    <3> QED
      BY <1>3, <3>1, <3>2 DEF TakesFile, Unsent
  <2>4. n < i + 1 /\ i + 1 <= n + Unsent /\ i \in Nat \ {0}
    BY <1>3, <2>1, <2>2, <2>3
  <2>5. Covered(i + 1)
    BY <2>1, <2>3, <2>4 DEF AInv, Answering, Awaited, TakesFile
  <2> QED
    BY <1>1, <2>4, <2>5
<1> QED
  BY <1>2, <1>3 DEF Awaited

LEMMA TakesOnceEach ==
    ASSUME AInv, NEW f, NEW left \in Nat, TakesFile(f, left)
    PROVE  Once' /\ \A n : ToCome(n)' => ToCome(n)
<1>1. \A n : Heralded(n)' => Heralded(n)
  BY Taken DEF Heralded, TakesFile
<1>2. \A n : ToCome(n)' => ToCome(n)
  BY <1>1 DEF ToCome, TakesFile
<1>3. ASSUME NEW i \in DOMAIN toClient', NEW j \in DOMAIN toClient', i # j,
             toClient'[i].type = "metadata", toClient'[j].type = "metadata"
      PROVE  toClient'[i].name # toClient'[j].name
  <2>1. /\ i + 1 \in DOMAIN toClient /\ toClient'[i] = toClient[i + 1] /\ i \in Nat
        /\ j + 1 \in DOMAIN toClient /\ toClient'[j] = toClient[j + 1] /\ j \in Nat
    BY Taken DEF TakesFile
  <2>2. i + 1 # j + 1
    BY <1>3, <2>1
  <2> QED
    BY <1>3, <2>1, <2>2 DEF AInv, Answering, Once, TakesFile
<1>4. \A n \in Names : Heralded(n)' => ~ (handler \in Sending /\ n \in listing)
  BY <1>1 DEF AInv, Answering, Once, TakesFile
<1>5. ~ ToCome(incoming.name)'
  <2>1. incoming'.name = f
    BY DEF TakesFile
  <2> QED
    BY <2>1 DEF TakesFile, ToCome, Heralded
<1>6. UNCHANGED <<handler, listing>>
  BY DEF TakesFile
<1> QED
  BY <1>2, <1>3, <1>4, <1>5, <1>6 DEF Once

\* The file that is complete counts, and was not counted before.
LEMMA TakesCounted ==
    ASSUME AInv, NEW f \in Names, NEW left \in Nat, TakesFile(f, left)
    PROVE  \E got \in SUBSET Names : Counts(got)'
<1>1. PICK got \in SUBSET Names : Counts(got)
  BY DEF AInv, Answering, Counted, TakesFile
<1>2. f \notin got /\ IsFiniteSet(got) /\ Cardinality(got) \in Nat
  <2>1. f \notin got
    BY <1>1 DEF Counts, TakesFile, ToCome
  <2>2. IsFiniteSet(got)
    BY FS_Subset, DownloadAssumption
  <2> QED
    BY <2>1, <2>2, FS_CardinalityType
<1>3. \A n \in got : Has(n)' /\ ~ ToCome(n)' /\ n # f
  BY <1>1, <1>2, TakesOnceEach DEF Counts, Has, Fetched, TakesFile
<1>4. CASE left # 0
  <2>1. wanted' = wanted /\ incoming'.name = f
    BY <1>4 DEF TakesFile
  <2>2. Counts(got)'
    BY <1>1, <1>3, <2>1 DEF Counts, Current
  <2> QED
    BY <2>2
<1>5. CASE left = 0
  <2>1. wanted' = wanted - 1 /\ client' # "receive" /\ Has(f)' /\ ~ ToCome(f)'
    BY <1>5 DEF TakesFile, FileReceived
  <2>2. Cardinality(got \cup {f}) = Cardinality(got) + 1
    BY <1>2, FS_AddElement
  <2>3. Cardinality(got) + wanted = Expected /\ wanted \in Nat
    BY <1>1, Stream DEF Counts
  <2>4. Cardinality(got \cup {f}) + wanted' = Expected
    BY <1>2, <2>1, <2>2, <2>3
  <2>5. Counts(got \cup {f})'
    BY <1>3, <2>1, <2>4 DEF Counts, Current
  <2> QED
    BY <2>5
<1> QED
  BY <1>4, <1>5

\* When none is wanted any more, none is left, neither file nor block.
LEMMA TakesComplete ==
    ASSUME AInv, NEW f \in Names, NEW left \in Nat, TakesFile(f, left)
    PROVE  Complete'
<1> SUFFICES ASSUME client' \in {"ready", "await_latest", "idle"}, wanted' = 0,
                    Cardinality(DOMAIN snapshot) <= Expected
             PROVE  Complete'
  BY DEF Complete, TakesFile
<1>1. PICK got \in SUBSET Names : Counts(got)'
  BY TakesCounted
<1>2. left = 0
  BY DEF TakesFile
<1>3. got = DOMAIN snapshot
  <2>1. got \subseteq DOMAIN snapshot
    BY <1>1 DEF Counts, Has, Fetched, TakesFile
  <2>2. DOMAIN snapshot \subseteq Names
    <3>1. snapshot \in Directories
      BY DEF AInv, SInv, IInv, TypeOK, StoreOK
    <3> QED
      BY <3>1, DirectoryHolds
  <2>3. IsFiniteSet(DOMAIN snapshot)
    BY <2>2, FS_Subset, DownloadAssumption
  <2>4. Cardinality(got) <= Cardinality(DOMAIN snapshot)
    BY <2>1, <2>3, FS_Subset
  <2>5. IsFiniteSet(got) /\ Cardinality(got) \in Nat /\ Cardinality(DOMAIN snapshot) \in Nat
    BY <2>1, <2>3, FS_Subset, FS_CardinalityType
  <2>6. Cardinality(got) = Expected
    BY <1>1, <2>5 DEF Counts
  <2>7. Cardinality(got) = Cardinality(DOMAIN snapshot)
    BY <2>4, <2>5, <2>6
  <2> QED
    BY <2>1, <2>3, <2>7, FS_Subset
<1>4. \A n \in DOMAIN snapshot : Has(n)' /\ ~ ToCome(n)'
  BY <1>1, <1>3 DEF Counts
<1>5. ASSUME NEW j \in DOMAIN toClient'
      PROVE  toClient'[j].type # "metadata"
  <2> SUFFICES ASSUME toClient'[j].type = "metadata"
               PROVE  FALSE
    OBVIOUS
  <2>1. j + 1 \in DOMAIN toClient /\ toClient'[j] = toClient[j + 1]
    BY Taken DEF TakesFile
  <2>2. PICK n : n = toClient[j + 1].name
    OBVIOUS
  <2>3. n \in DOMAIN snapshot
    BY <2>1, <2>2, HeraldedHeld DEF TakesFile
  <2>4. ToCome(n)'
    BY <2>1, <2>2 DEF ToCome, Heralded
  <2> QED
    BY <1>4, <2>3, <2>4
<1>6. ASSUME NEW i \in Nat \ {0}
      PROVE  ~ Covered(i + 1)
  <2>1. ~ (i <= left)
    BY <1>2
  <2> QED
    BY <1>5, <2>1, CoveredBehind
<1>7. DOMAIN toClient' = {}
  <2> SUFFICES ASSUME NEW i \in DOMAIN toClient'
               PROVE  FALSE
    OBVIOUS
  <2>1. /\ i \in Nat \ {0} /\ i + 1 \in DOMAIN toClient
        /\ toClient[i + 1].type # "metadata"
    BY <1>5, Taken DEF TakesFile
  <2>2. Covered(i + 1)
    BY <2>1 DEF AInv, Answering, Awaited, TakesFile
  <2> QED
    BY <1>6, <2>1, <2>2
<1>8. handler' \in Sending => listing' = {}
  <2> SUFFICES ASSUME handler' \in Sending, NEW n \in listing'
               PROVE  FALSE
    OBVIOUS
  <2>1. n \in DOMAIN snapshot
    BY DEF TakesFile, AInv, SInv, IInv, ListsFiles, SendsOneMoment
  <2>2. ToCome(n)'
    BY DEF ToCome
  <2> QED
    BY <1>4, <2>1, <2>2
<1>9. handler' = "send_data" => reading'.sent >= Len(snapshot'[reading'.name])
  <2> SUFFICES ASSUME handler = "send_data", ~ (reading.sent >= Len(snapshot[reading.name]))
               PROVE  FALSE
    BY DEF TakesFile
  <2>1. reading.name \in DOMAIN snapshot /\ reading.sent \in Nat
    BY DEF AInv, SInv, IInv, TypeOK, ThreadOK, ListsFiles, SendsOneMoment, Sending
  <2>2. PICK size \in Nat : size = Len(snapshot[reading.name])
    BY <2>1, SnapshotHolds DEF AInv, SInv
  <2>3. PICK n \in Nat \ {0} : n = Len(toClient)
    <3>1. 1 \in 1..Len(toClient) /\ Len(toClient) \in Nat
      BY Taken, Stream DEF TakesFile
    <3> QED
      BY <3>1
  <2>4. Len(toClient) < n + 1 /\ n + 1 <= Len(toClient) + Unsent
    BY <2>1, <2>2, <2>3 DEF Unsent
  <2>5. Covered(n + 1)
    BY <2>4 DEF AInv, Answering, Awaited, TakesFile
  <2> QED
    BY <1>6, <2>5
<1> QED
  BY <1>4, <1>7, <1>8, <1>9 DEF Complete, TakesFile

LEMMA TakesAnswering ==
    ASSUME AInv, NEW f \in Names, NEW left \in Nat, TakesFile(f, left)
    PROVE  Answering'
<1>1. Fresh'
  <2>1. handler # "wait" /\ \A i \in DOMAIN toServer : toServer[i] # "file_transfer"
    BY Begun DEF AInv, SInv, Follows, TakesFile
  <2>2. client' # "prompt"
    BY DEF TakesFile, FileReceived
  <2> QED
    BY <2>1, <2>2 DEF Fresh, TakesFile
<1>2. NoSyncYet'
  BY DEF AInv, Answering, NoSyncYet, TakesFile, FileReceived
<1>3. Counted'
  BY TakesCounted DEF Counted
<1> QED
  BY <1>1, <1>2, <1>3, TakesAwaited, TakesOnceEach, TakesComplete DEF Answering

\* The first message belongs to no other file that is counted or comes later.
LEMMA MetadataTaken ==
    ASSUME AInv, OnMetadata
    PROVE  \E f \in Names, left \in Nat : TakesFile(f, left)
<1> USE DEF storeVars, threadVars
<1>1. /\ toClient # <<>> /\ 1 \in DOMAIN toClient /\ toClient[1] = Head(toClient)
      /\ toClient[1].type = "metadata" /\ client = "await_metadata" /\ client \in Receiving
  BY Streams DEF AInv, SInv, OnMetadata, Found, Receiving
<1>2. PICK f, left : f = Head(toClient).name /\ left = Head(toClient).size
  OBVIOUS
<1>3. f \in DOMAIN snapshot /\ f \in Names /\ left = Len(snapshot[f]) /\ left \in Nat
  BY <1>1, <1>2, HeraldedHeld
<1>4. /\ UNCHANGED <<snapshot, handler, listing, reading, toServer>> /\ Take
      /\ incoming' = [name |-> f, left |-> left]
      /\ localDir' = [n \in DOMAIN localDir \cup {f} |-> IF n = f THEN <<>> ELSE localDir[n]]
      /\ IF left = 0 THEN FileReceived ELSE client' = "receive" /\ UNCHANGED wanted
  BY <1>2 DEF OnMetadata
<1>5. left = 0 => Has(f)'
  <2> SUFFICES ASSUME left = 0
               PROVE  Has(f)'
    OBVIOUS
  <2>1. snapshot[f] = <<>>
    BY <1>3, SnapshotHolds, EmptySeq DEF AInv, SInv
  <2> QED
    BY <1>3, <1>4, <2>1 DEF Has, Fetched
<1>6. Heralded(f)
  BY <1>1, <1>2 DEF Heralded
<1>7. ~ ToCome(f)'
  <2>1. ASSUME NEW j \in DOMAIN toClient', toClient'[j].type = "metadata"
        PROVE  toClient'[j].name # f
    <3>1. j \in Nat \ {0} /\ j + 1 \in DOMAIN toClient /\ toClient'[j] = toClient[j + 1]
      BY <1>1, <1>4, Taken
    <3>2. 1 # j + 1
      BY <3>1
    <3> QED
      BY <1>1, <1>2, <2>1, <3>1, <3>2 DEF AInv, Answering, Once
  <2>2. ~ (handler \in Sending /\ f \in listing)
    BY <1>1, <1>3, <1>6 DEF AInv, Answering, Once
  <2> QED
    BY <1>4, <2>1, <2>2 DEF ToCome, Heralded
<1>8. ASSUME NEW i \in Nat, Covered(i + 1), ~ (i <= left)
      PROVE  \E j \in DOMAIN toClient : /\ j # 1 /\ toClient[j].type = "metadata"
                                        /\ j < i + 1 /\ i + 1 <= j + toClient[j].size
  <2>1. PICK j \in DOMAIN toClient :
            toClient[j].type = "metadata" /\ j < i + 1 /\ i + 1 <= j + toClient[j].size
    BY <1>1, <1>8 DEF Covered
  <2>2. ~ (i + 1 <= 1 + left)
    BY <1>3, <1>8
  <2>3. j # 1
    BY <1>1, <1>2, <2>1, <2>2
  <2> QED
    BY <2>1, <2>3
<1>9. TakesFile(f, left)
  BY <1>1, <1>4, <1>5, <1>6, <1>7, <1>8 DEF TakesFile
<1> QED
  BY <1>3, <1>9

LEMMA BlockIsTaken ==
    ASSUME AInv, OnBlock
    PROVE  \E f \in Names, left \in Nat : TakesFile(f, left)
<1> USE DEF storeVars, threadVars
<1>1. PICK f, left : f = incoming.name /\ left = incoming.left - 1
  OBVIOUS
<1>2. /\ toClient # <<>> /\ client = "receive" /\ client \in Receiving
      /\ 1 \in DOMAIN toClient /\ toClient[1].type = "block"
  BY Streams DEF AInv, SInv, OnBlock, Found, Receiving
<1>3. /\ f \in Names /\ f \in DOMAIN localDir /\ incoming.left \in Nat \ {0}
      /\ incoming \in [name : Names, left : Nat]
  BY <1>1, <1>2 DEF AInv, SInv, IInv, TypeOK, ClientOK, CountsDown
<1>4. left \in Nat /\ (left = 0 <=> incoming.left = 1)
  BY <1>1, <1>3
<1>5. /\ UNCHANGED <<snapshot, handler, listing, reading, toServer>> /\ Take
      /\ incoming' = [name |-> f, left |-> left]
      /\ localDir' = [localDir EXCEPT ![f] = Append(localDir[f], Head(toClient).block)]
      /\ IF left = 0 THEN FileReceived ELSE client' = "receive" /\ UNCHANGED wanted
  <2>1. incoming' = [incoming EXCEPT !.left = incoming.left - 1]
    BY DEF OnBlock
  <2>2. incoming' = [name |-> f, left |-> left]
    BY <1>1, <1>3, <2>1
  <2> QED
    BY <1>1, <1>2, <1>4, <2>2 DEF OnBlock
<1>6. left = 0 => Has(f)'
  <2> SUFFICES ASSUME left = 0
               PROVE  Has(f)'
    OBVIOUS
  <2>1. PICK g : \E size, r \in Nat, k \in Nat \ {0} : ReceivesBlock(g, size, r, k)
    BY BlockReceived DEF AInv
  <2>2. PICK size \in Nat, r \in Nat, k \in Nat \ {0} : ReceivesBlock(g, size, r, k)
    BY <2>1
  <2>3. g = f /\ k - 1 = 0
    BY <1>1, <1>5, <2>2 DEF ReceivesBlock
  <2>4. k = 1
    BY <2>3
  <2>5. f \in DOMAIN localDir' /\ f \in DOMAIN snapshot /\ localDir'[f] = snapshot[f]
    BY <2>2, <2>3, <2>4, LastBlock
  <2> QED
    BY <1>5, <2>5 DEF Has, Fetched
<1>7. Current(f)
  BY <1>1, <1>2 DEF Current
<1>8. ~ ToCome(f)'
  <2>1. ~ ToCome(f)
    BY <1>1, <1>2 DEF AInv, Answering, Once
  <2>2. Heralded(f)' => Heralded(f)
    BY <1>2, <1>5, Taken DEF Heralded
  <2> QED
    BY <1>5, <2>1, <2>2 DEF ToCome
<1>9. ASSUME NEW i \in Nat, Covered(i + 1), ~ (i <= left)
      PROVE  \E j \in DOMAIN toClient : /\ j # 1 /\ toClient[j].type = "metadata"
                                        /\ j < i + 1 /\ i + 1 <= j + toClient[j].size
  <2>1. ~ (i + 1 <= incoming.left)
    BY <1>1, <1>3, <1>9
  <2> QED
    BY <1>2, <1>9, <2>1 DEF Covered
<1>10. TakesFile(f, left)
  BY <1>2, <1>5, <1>6, <1>7, <1>8, <1>9 DEF TakesFile
<1> QED
  BY <1>3, <1>4, <1>10

-----------------------------------------------------------------------------
(* The other steps of the client.                                          *)

LEMMA RequestAnswering ==
    ASSUME AInv, RequestFiles
    PROVE  Answering'
<1> USE DEF storeVars, threadVars
<1>1. /\ client = "prompt" /\ toClient = <<>> /\ wanted = Expected /\ toServer = <<>>
      /\ handler \in {"poll", "closed"}
  BY DEF AInv, SInv, Follows, OneDownload, Untouched, Answering, Fresh, RequestFiles
<1>2. /\ client' = "await_metadata" /\ UNCHANGED <<toClient, handler, wanted>>
      /\ \A i \in DOMAIN toServer' : toServer'[i] # "check_latest"
  BY <1>1 DEF RequestFiles, Send
<1>3. Fresh' /\ NoSyncYet' /\ Awaited' /\ Once' /\ Complete'
  BY <1>1, <1>2 DEF Fresh, NoSyncYet, Awaited, Once, Complete, Heralded, Sending
<1>4. Counted'
  <2>1. Cardinality({}) + wanted' = Expected
    BY <1>1, <1>2, FS_EmptySet, Stream
  <2>2. Counts({})'
    BY <2>1 DEF Counts
  <2> QED
    BY <2>2 DEF Counted
<1> QED
  BY <1>3, <1>4 DEF Answering

\* Once the client has stopped receiving, only Complete says anything.
LEMMA NotReceiving ==
    ASSUME AInv, client' \notin Receiving \cup {"prompt"}, Complete',
           UNCHANGED <<handler, wanted>>, UNCHANGED toServer \/ Send("check_latest")
    PROVE  Answering'
<1>1. \A i \in DOMAIN toServer' : toServer'[i] = "file_transfer" =>
          \E j \in DOMAIN toServer : toServer[j] = "file_transfer"
  <2>1. CASE UNCHANGED toServer
    BY <2>1
  <2>2. CASE toServer' = Append(toServer, "check_latest")
    <3>1. toServer \in Seq(Requests) /\ "check_latest" # "file_transfer"
      BY Stream
    <3>2. /\ DOMAIN toServer' = DOMAIN toServer \cup {Len(toServer) + 1}
          /\ \A i \in DOMAIN toServer : toServer'[i] = toServer[i]
          /\ toServer'[Len(toServer) + 1] = "check_latest"
      BY <2>2, <3>1
    <3> QED
      BY <3>1, <3>2
  <2> QED
    BY <2>1, <2>2 DEF Send
<1>2. Fresh'
  BY <1>1 DEF AInv, Answering, Fresh
<1>3. NoSyncYet' /\ Awaited' /\ Once' /\ Counted'
  BY DEF NoSyncYet, Awaited, Once, Counted
<1> QED
  BY <1>2, <1>3 DEF Answering

LEMMA ClientAnswering ==
    ASSUME AInv, ClientStep \/ InitiateSync
    PROVE  Answering'
<1> USE DEF storeVars, threadVars, netVars
<1>1. CASE RequestFiles
  BY <1>1, RequestAnswering
<1>2. CASE OnMetadata \/ OnBlock
  <2>1. PICK f \in Names, left \in Nat : TakesFile(f, left)
    BY <1>2, MetadataTaken, BlockIsTaken
  <2> QED
    BY <2>1, TakesAnswering
<1>3. CASE MetadataLost \/ DataLost
  <2>1. /\ client \in Receiving /\ client' = "ready"
        /\ UNCHANGED <<handler, wanted, toServer>>
    BY <1>3 DEF MetadataLost, DataLost, Receiving
  <2>2. wanted' # 0
    BY <2>1 DEF AInv, SInv, IInv, CountsDown
  <2> QED
    BY <2>1, <2>2, NotReceiving DEF Complete, Receiving
<1>4. CASE InitiateSync
  <2>1. /\ client \in {"ready", "idle"} /\ client' = "await_latest"
        /\ UNCHANGED <<snapshot, handler, listing, reading, wanted, localDir, toClient>>
        /\ Send("check_latest")
    BY <1>4 DEF InitiateSync
  <2>2. Complete'
    BY <2>1 DEF AInv, Answering, Complete, Has, Fetched
  <2> QED
    BY <2>1, <2>2, NotReceiving DEF Receiving
<1>5. CASE OnAnswer
  <2>1. /\ client = "await_latest" /\ client' = "idle"
        /\ UNCHANGED <<snapshot, handler, listing, reading, wanted, localDir, toServer>>
    BY <1>5 DEF OnAnswer
  <2>2. \A i \in DOMAIN toClient' : \E j \in DOMAIN toClient : toClient'[i] = toClient[j]
    BY <1>5, Taken DEF OnAnswer
  <2>3. Complete'
    BY <2>1, <2>2 DEF AInv, Answering, Complete, Has, Fetched
  <2> QED
    BY <2>1, <2>3, NotReceiving DEF Receiving
<1> QED
  BY <1>1, <1>2, <1>3, <1>4, <1>5 DEF ClientStep

LEMMA OthersAnswering ==
    ASSUME AInv, \/ OtherThreads \/ ParseError \/ ClientBrokenPipe \/ KillClient
                 \/ UNCHANGED vars
    PROVE  Answering'
<1>1. CASE OtherThreads \/ UNCHANGED vars
  <2>1. UNCHANGED <<snapshot, clientVars, threadVars, netVars>>
    BY <1>1 DEF OtherThreads, BeginExchange, ChangeFiles, EndExchange, vars, storeVars
  <2>2. UNCHANGED <<snapshot, clientVars, toClient, toServer, handler, listing, reading>>
    BY <2>1 DEF threadVars, netVars
  <2> QED
    BY <2>2, NothingSent
<1>2. CASE ParseError \/ ClientBrokenPipe \/ KillClient
  <2>1. Dies /\ UNCHANGED <<threadVars, toServer, wanted>>
    BY <1>2 DEF ParseError, ClientBrokenPipe, KillClient
  <2> QED
    BY <2>1, NotReceiving DEF Dies, Complete, Receiving, threadVars
<1> QED
  BY <1>1, <1>2

LEMMA AnsweringFirst == Init => Answering
<1> SUFFICES ASSUME Init PROVE Answering
  OBVIOUS
<1>1. Fresh /\ NoSyncYet
  BY DEF Init, Fresh, NoSyncYet
<1>2. Awaited /\ Once /\ Counted /\ Complete
  BY DEF Init, Awaited, Once, Counted, Complete, Receiving
<1> QED
  BY <1>1, <1>2 DEF Answering

LEMMA AnsweringNext == AInv /\ [Next]_vars => AInv'
<1> SUFFICES ASSUME AInv, [Next]_vars PROVE AInv'
  OBVIOUS
<1>1. SInv'
  BY FollowsNext DEF AInv
<1>2. Answering'
  BY ServerAnswering, ClientAnswering, OthersAnswering DEF Next, Environment
<1> QED
  BY <1>1, <1>2 DEF AInv

\* A server with at most as many files as the client counts to is downloaded
\* completely when the client has counted them all, and then nothing of a file
\* is left in the stream that the sync behind it could take for an answer: for
\* any number of files, contents, buffers and whatever is killed.
THEOREM NoFileForAnAnswer == Spec => []FilesAreNoAnswers
<1>1. Init => AInv
  BY Initially, FollowsFirst, AnsweringFirst DEF AInv, SInv
<1>2. AInv => FilesAreNoAnswers
  BY DEF AInv, Answering, Complete, Has, Fetched, FilesAreNoAnswers
<1> QED
  BY <1>1, <1>2, AnsweringNext, PTL DEF Spec
=============================================================================
