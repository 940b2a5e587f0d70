--------------------------- MODULE ExclusiveStore ---------------------------
(***************************************************************************)
(* What the server promises of its store, whatever its threads do and      *)
(* whenever it dies: the shared directory, the shared tree file and the    *)
(* workspace table change only in the hands of one run, the holder; and    *)
(* what a holder writes to the table, in the row of its own account, is    *)
(* the hash of the directory as it is.  Only a holder that did not learn   *)
(* at login where the directory is writes the hash of no directory, which  *)
(* no client can have: never that of another state of the directory.       *)
(***************************************************************************)
EXTENDS Workspace

CONSTANTS Runs, Users, Owner, ServerOrder, NoHash

VARIABLES
    holders,        \* the run that may change the store, if any
    aware,          \* runs that know where the directory is
    treeFile, files, workspaceHash

store == <<treeFile, files, workspaceHash>>
vars == <<holders, aware, store>>

Init ==
    /\ holders = {}
    /\ aware = {}
    /\ treeFile \in Trees
    /\ files \in Workspaces
    /\ DOMAIN workspaceHash = Users

\* A run learns where the directory is before it holds the store.
Learn(r) == r \notin holders /\ aware' = aware \cup {r} /\ UNCHANGED <<holders, store>>

Acquire(r) == holders = {} /\ holders' = {r} /\ UNCHANGED <<aware, store>>

\* The holder receives, compares, deletes and stores files.
Change(r) ==
    /\ holders = {r} /\ holders' = {r}
    /\ treeFile' \in Trees
    /\ files' \in Workspaces
    /\ UNCHANGED <<aware, workspaceHash>>

Record(r, hash) == workspaceHash' = [workspaceHash EXCEPT ![Owner[r]] = hash]

\* The holder records for its account the hash of the tree it builds of the
\* directory; if it does not know the directory it builds none.
Publish(r) ==
    /\ holders = {r} /\ holders' = {r}
    /\ \/ /\ r \in aware
          /\ treeFile' = buildTree(files)
          /\ Record(r, treeHash(files, ServerOrder))
       \/ r \notin aware /\ UNCHANGED treeFile /\ Record(r, NoHash)
    /\ UNCHANGED <<aware, files>>

\* The holder is done, or the process dies.  A holder that could not record
\* the hash has nevertheless rebuilt the tree file.
Release ==
    /\ holders # {} /\ holders' = {}
    /\ treeFile' \in {treeFile, buildTree(files)}
    /\ UNCHANGED <<aware, files, workspaceHash>>

Next == Release \/ \E r \in Runs : Learn(r) \/ Acquire(r) \/ Change(r) \/ Publish(r)

Spec == Init /\ [][Next]_vars
=============================================================================
