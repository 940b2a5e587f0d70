----------------------------- MODULE MerkleTree -----------------------------
(***************************************************************************)
(* Nested directories: how both sides build a Merkle tree of one, what is  *)
(* left of it in tree.json, and the two comparisons of two trees, that of  *)
(* MerkleTreeComparer and the older one of FileChangeDetector.             *)
(*                                                                         *)
(* A path is the sequence of the names on the way from the synchronised    *)
(* directory.  The content of a file is the sequence of its complete       *)
(* 4096-byte chunks; the rest, which is not hashed, is the subject of      *)
(* Workspace.  SHA-256 is taken as injective: the hash of a string is the  *)
(* string.                                                                 *)
(***************************************************************************)
EXTENDS Naturals, Sequences, FiniteSets, SequencesExt

CONSTANTS
    Names,          \* names of files and directories
    Paths,          \* the paths that may exist
    Versions,       \* what files can hold: sequences of chunks
    Dir,            \* marks a directory
    NameOrder,      \* the names in the order of a std::map
    MaxEntries      \* entries of a directory that can be hashed

\* The hashes of four entries are a string of 256 characters, and
\* std::filesystem::exists throws on a name of more than 255.
ASSUME EntriesAssumption == MaxEntries \in Nat

\* Every name once, in some order.
IsOrder(order) ==
    order \in Seq(Names) /\ ToSet(order) = Names /\ IsInjective(order)

ASSUME PathAssumption ==
    /\ Paths \subseteq Seq(Names) \ {<<>>} /\ IsFiniteSet(Paths)
    /\ \A p \in Paths : Len(p) > 1 => Front(p) \in Paths
    /\ IsOrder(NameOrder)
    /\ Dir \notin Versions

Root == <<>>

\* A directory maps the paths below it to the content of a file or to Dir.
Directories ==
    {dir \in UNION {[held -> Versions \cup {Dir}] : held \in SUBSET Paths} :
        \A p \in DOMAIN dir : Len(p) > 1 => /\ Front(p) \in DOMAIN dir
                                            /\ dir[Front(p)] = Dir}

isDirectory(dir, p) == p = Root \/ dir[p] = Dir

\* parts[1] \o ... \o parts[n].
Concatenation(parts, n) ==
    LET upto[i \in 0..n] == IF i = 0 THEN <<>> ELSE upto[i - 1] \o parts[i]
    IN  upto[n]

\* The children of node p among nodes, in the given order of names.
children(nodes, p, order) ==
    Concatenation([i \in DOMAIN order |->
        IF Append(p, order[i]) \in nodes THEN <<Append(p, order[i])>> ELSE <<>>], Len(order))

-----------------------------------------------------------------------------
(* Trees.                                                                  *)

\* Only complete chunks are hashed: a file without any has the hash of the
\* empty string, which is also that of an empty directory.
calculateHash(content) == content

\* Hashes of the children one after the other, without their names.
combineHashes(hashes) == hashes

\* order is the order of the machine's directory_iterator.
buildTree(dir, order) ==
    LET nodes == DOMAIN dir \cup {Root}
        hash[p \in nodes] ==
            IF isDirectory(dir, p)
            THEN LET kids == children(nodes, p, order)
                 IN  combineHashes([i \in DOMAIN kids |-> hash[kids[i]]])
            ELSE calculateHash(dir[p])
    IN  [p \in nodes |-> [hash |-> hash[p], isFile |-> ~ isDirectory(dir, p)]]

getTreeHash(tree) == tree[Root].hash

\* buildTree throws on a directory with too many entries.
CanBuildTree(dir) ==
    \A p \in DOMAIN dir \cup {Root} :
        isDirectory(dir, p) =>
            Len(children(DOMAIN dir, p, NameOrder)) <= MaxEntries

\* tree.json has paths, hashes and children, but no isFile: who loads it takes
\* every node without children for a file.
loadFromFile(tree) ==
    [p \in DOMAIN tree |->
        [tree[p] EXCEPT !.isFile = children(DOMAIN tree, p, NameOrder) = <<>>]]

-----------------------------------------------------------------------------
(* MerkleTreeComparer.                                                     *)

\* The nodes of a subtree that only one tree has: compareTrees with a null
\* node on the other side.  order is that of the tree's machine.
Subtree(tree, order) ==
    LET below[p \in DOMAIN tree] ==
            LET kids == children(DOMAIN tree, p, order)
            IN  <<p>> \o Concatenation([i \in DOMAIN kids |-> below[kids[i]]], Len(kids))
    IN  below

\* Mutation of Modified: the comparison of the hashes the wrong way round.
Unmodified(base, current, p) ==
    base[p].hash = current[p].hash /\ current[p].isFile

\* Directories are never modified, only what is in them.
Modified(base, current, p) ==
    base[p].hash # current[p].hash /\ current[p].isFile

Self(base, current, p) == IF Modified(base, current, p) THEN <<p>> ELSE <<>>

\* Mutation of addedNodes: nothing below an added node is reported.
addedNodesOnTop(base, current, order) ==
    LET compare[p \in DOMAIN base \cap DOMAIN current] ==
            LET kids == children(DOMAIN current, p, NameOrder)
            IN  Self(base, current, p) \o Concatenation([i \in DOMAIN kids |->
                    IF kids[i] \in DOMAIN base THEN compare[kids[i]] ELSE <<kids[i]>>],
                    Len(kids))
    IN  compare[Root]

\* getAddedNodes after compare().  order is that of the current tree.
addedNodes(base, current, order) ==
    LET below == Subtree(current, order)
        compare[p \in DOMAIN base \cap DOMAIN current] ==
            LET kids == children(DOMAIN current, p, NameOrder)
            IN  Self(base, current, p) \o Concatenation([i \in DOMAIN kids |->
                    IF kids[i] \in DOMAIN base THEN compare[kids[i]] ELSE below[kids[i]]],
                    Len(kids))
    IN  compare[Root]

\* Mutation of removedNodes: a node is reported after what is below it.
removedNodesBottomUp(base, current, order) ==
    LET below == Subtree(base, order)
        compare[p \in DOMAIN base \cap DOMAIN current] ==
            LET kids == children(DOMAIN base, p, NameOrder)
            IN  Concatenation([i \in DOMAIN kids |->
                    IF kids[i] \in DOMAIN current THEN compare[kids[i]] ELSE <<>>], Len(kids))
                \o Concatenation([i \in DOMAIN kids |->
                    IF kids[i] \in DOMAIN current THEN <<>> ELSE Reverse(below[kids[i]])], Len(kids))
                \o Self(base, current, p)
    IN  compare[Root]

\* getRemovedNodes after compare(): the children that are left in the map of
\* the base come last.  order is that of the base.
removedNodes(base, current, order) ==
    LET below == Subtree(base, order)
        compare[p \in DOMAIN base \cap DOMAIN current] ==
            LET kids == children(DOMAIN base, p, NameOrder)
            IN  Self(base, current, p)
                \o Concatenation([i \in DOMAIN kids |->
                    IF kids[i] \in DOMAIN current THEN compare[kids[i]] ELSE <<>>], Len(kids))
                \o Concatenation([i \in DOMAIN kids |->
                    IF kids[i] \in DOMAIN current THEN <<>> ELSE below[kids[i]]], Len(kids))
    IN  compare[Root]

-----------------------------------------------------------------------------
(* FileChangeDetector.                                                     *)

Change(path, type) == [path |-> path, type |-> type]

\* detectChanges: a pair of nodes with different hashes is one change, below
\* a pair with equal hashes the names are compared.  compareForward says which
\* tree is called the first; the changes are the same either way.
detectChanges(old, new) ==
    LET both == DOMAIN old \cap DOMAIN new
        kids(tree, p) == ToSet(children(DOMAIN tree, p, NameOrder))
        changes[p \in both] ==
            IF old[p].hash # new[p].hash THEN {Change(p, "Modified")}
            ELSE {Change(c, "Deleted") : c \in kids(old, p) \ kids(new, p)}
                 \cup {Change(c, "Added") : c \in kids(new, p) \ kids(old, p)}
                 \cup UNION {changes[c] : c \in kids(old, p) \cap kids(new, p)}
    IN  changes[Root]

-----------------------------------------------------------------------------
(* What the comparisons are for.  base and current are trees.              *)

\* The comparer's report is exact: taking away the removed nodes and adding
\* the added ones turns the nodes of one tree into those of the other; a file
\* that is not reported has the same hash in both; no node is reported twice,
\* and none before the directory it is in.
ReportIsExact(base, current) ==
    LET added == addedNodes(base, current, NameOrder)
        removed == removedNodes(base, current, NameOrder)
        Listed(nodes) ==
            \A i, j \in DOMAIN nodes : i < j =>
                nodes[i] # nodes[j] /\ ~ IsPrefix(nodes[j], nodes[i])
    IN  /\ (DOMAIN base \ ToSet(removed)) \cup ToSet(added) = DOMAIN current
        /\ \A p \in DOMAIN base \cap DOMAIN current :
               current[p].isFile /\ p \notin ToSet(added) =>
                   base[p].hash = current[p].hash
        /\ Listed(added) /\ Listed(removed)

\* The detector misses nothing that the comparer reports.
DetectorMissesNothing(base, current) ==
    detectChanges(base, current) = {} =>
        /\ addedNodes(base, current, NameOrder) = <<>>
        /\ removedNodes(base, current, NameOrder) = <<>>
=============================================================================
