---------------------------- MODULE JoinHistory ----------------------------
(***************************************************************************)
(* JoinOutputs with the memory of the folder as the running program found  *)
(* it, which its result is compared with.                                  *)
(***************************************************************************)
EXTENDS JoinOutputs

VARIABLE given  \* the output files and their lines

Folder == [files |-> simFiles, lines |-> simOut]

HistoryNext ==
    /\ JoinNext
    /\ given' = IF joinPc = "off" THEN Folder ELSE given
HistorySpec ==
    FolderOK /\ given = Folder /\ JoinInit /\ [][HistoryNext]_<<joinVars, given>>

\* Lines 28-49 and 57-62: the finished file has a row per line of the first
\* file, and in it a column per file that was in the folder, in the order of
\* their names; a bit that file n has for vector s stands in row s of column n.
StackedInOrder ==
    joinPc = "write" /\ sim = numSims =>
      /\ {names[k] : k \in 1..Len(names)} = given.files
      /\ \A j, k \in 1..Len(names) : j < k => Place(names[j]) < Place(names[k])
      /\ names[1] \notin Unreadable => Len(joined) = Len(given.lines[names[1]])
      /\ \A s \in 1..Len(joined), k \in 1..Len(names) :
           LET lines == given.lines[names[k]] IN
           names[k] \notin Unreadable /\ s <= Len(lines) /\ lines[s].kind # "blank" =>
             joined[s][k] = lines[s].val
=============================================================================
