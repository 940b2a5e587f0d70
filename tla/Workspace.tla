----------------------------- MODULE Workspace -----------------------------
(***************************************************************************)
(* The synchronised directory as the server and the client see it: file    *)
(* contents, the hash each side computes of them, the Merkle tree of a     *)
(* flat directory and the comparison of two such trees.                    *)
(*                                                                         *)
(* A file's content is the part made of complete 4096-byte chunks and the  *)
(* part after the last complete chunk.  HashCalculator reads whole chunks  *)
(* only, so the hash of a file is a function of the first part alone: the  *)
(* model represents the hash by that part.  Nested directories are the     *)
(* subject of MerkleTree, not of this module.                              *)
(***************************************************************************)
EXTENDS Naturals, Sequences, FiniteSets

CONSTANTS
    Names,      \* file names in the synchronised directory
    Chunks,     \* what the complete 4096-byte chunks of a file can hold
    NoChunks,   \* a file shorter than one chunk
    Tails,      \* what can follow the last complete chunk
    NoTail,     \* nothing follows the last complete chunk
    Root        \* the path of the root node, which is no file name

ASSUME ContentAssumption == NoChunks \in Chunks /\ NoTail \in Tails
ASSUME RootAssumption == Root \notin Names

Contents == [chunks : Chunks, tail : Tails]

EmptyFile == [chunks |-> NoChunks, tail |-> NoTail]

\* A directory maps the names it holds to their contents.
Workspaces == UNION {[held -> Contents] : held \in SUBSET Names}

\* A Merkle tree of a flat directory maps each child of the root to its hash.
Trees == UNION {[nodes -> Chunks] : nodes \in SUBSET Names}

\* The hash of a file: its complete chunks, the partial last one is dropped.
calculateHash(content) == content.chunks

buildTree(dir) == [n \in DOMAIN dir |-> calculateHash(dir[n])]

\* The root hash: the children's hashes in directory_iterator order, with
\* no trace of the names.  order is the iteration order of the machine.
combineHashes(tree, order) ==
    LET upto[i \in 0..Len(order)] ==
            IF i = 0 THEN <<>>
            ELSE IF order[i] \in DOMAIN tree THEN Append(upto[i - 1], tree[order[i]])
            ELSE upto[i - 1]
    IN  upto[Len(order)]

treeHash(dir, order) == combineHashes(buildTree(dir), order)

\* MerkleTreeComparer over the children of two roots: a modified file is
\* reported as removed from the base and as added to the current tree.
ModifiedNodes(base, current) ==
    {n \in DOMAIN base \cap DOMAIN current : base[n] # current[n]}

AddedNodes(base, current) ==
    (DOMAIN current \ DOMAIN base) \cup ModifiedNodes(base, current)

\* Mutations of RemovedNodes: a modified file is not deleted, and a file the
\* current tree lacks is not.
KeepsModified(base, current) == DOMAIN base \ DOMAIN current

KeepsRemoved(base, current) == ModifiedNodes(base, current)

RemovedNodes(base, current) ==
    (DOMAIN base \ DOMAIN current) \cup ModifiedNodes(base, current)

\* The directory without the given names, and with one file (over)written.
Without(dir, gone) == [n \in DOMAIN dir \ gone |-> dir[n]]

Written(dir, name, content) ==
    [n \in DOMAIN dir \cup {name} |-> IF n = name THEN content ELSE dir[n]]
=============================================================================
