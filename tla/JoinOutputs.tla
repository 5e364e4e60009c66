---------------------------- MODULE JoinOutputs ----------------------------
(***************************************************************************)
(* createInputsFromSimulated.cpp: stacks the output files of a layer, one  *)
(* column per file in the order of the file names, into one file with a    *)
(* row per stimulus vector, the stimulus of the next layer.                *)
(*                                                                         *)
(* A line is abstracted as in NeuronSimulator: its kind and the number     *)
(* int(line[1]) - 48 that line 47 takes from it once it is reversed.       *)
(***************************************************************************)
EXTENDS Integers, Sequences, FiniteSetsExt

CONSTANTS
    OutNames,     \* names of output files
    SortedNames,  \* the same, in the order in which sort() puts their paths
    Garbage,      \* what `line' may hold that nothing read has put there
    Unreadable,   \* output files that ifstream cannot open
    JoinMayFail,  \* the calls that may fail
    JoinKillPoints, \* where the process may be killed
    MaxJoins      \* bound on the number of times it is started

JoinPoints == {"count", "read", "delete", "write"}
JoinCalls == {"list", "remove", "open"}

ASSUME JoinAssumption ==
    /\ SortedNames \in Seq(OutNames)
    /\ \A n \in OutNames : \E i \in 1..Len(SortedNames) : SortedNames[i] = n
    /\ \A i, j \in 1..Len(SortedNames) : SortedNames[i] = SortedNames[j] => i = j
    /\ Garbage \subseteq Int /\ Garbage # {}
    /\ Unreadable \subseteq OutNames
    /\ JoinMayFail \subseteq JoinCalls
    /\ JoinKillPoints \subseteq JoinPoints
    /\ MaxJoins \in Nat

VARIABLES
    simFiles,  \* output files that exist
    simOut,    \* lines of each output file
    joined,    \* rows of the joined file
    joinPc,    \* program point; "off" when the program is not running
    names,     \* the vector simFiles of the program
    numSims,
    matrix,    \* the columns read so far
    stale,     \* what line[1] - 48 was after the last read
    sim,       \* rows written so far
    joins      \* times the program was started

folder == <<simFiles, simOut>>
locals == <<names, numSims, matrix, stale, sim>>
joinVars == <<simFiles, simOut, joined, joinPc, names, numSims, matrix, stale, sim, joins>>

(***************************************************************************)
(* The order of the columns.                                               *)
(***************************************************************************)
Place(n) == CHOOSE i \in 1..Len(SortedNames) : SortedNames[i] = n

IsInOrder(s, S) ==
    /\ \A n \in S : \E i \in DOMAIN s : s[i] = n
    /\ \A i, j \in DOMAIN s : i < j => Place(s[i]) < Place(s[j])

\* The names of S as sort() arranges them.
InOrder(S) == CHOOSE s \in [1..Cardinality(S) -> S] : IsInOrder(s, S)

(***************************************************************************)
(* Reading a column.  A line that is missing or blank leaves line[1], out  *)
(* of bounds, as the line before it -- of another neuron if need be -- put *)
(* it: getline erases the string, not the characters.                      *)
(***************************************************************************)
Lines == [kind : {"row", "trailer", "blank", "banner", "error"}, val : Int]

\* What getline finds; nobody asks the stream whether the file was opened.
Content(n) == IF n \in Unreadable THEN <<>> ELSE simOut[n]

\* Mutant: the lines are counted from 0.
TakenFromZero(lines, s) ==
    LET held == {i \in 1..s : i - 1 \in DOMAIN lines /\ lines[i - 1].kind # "blank"}
    IN  IF held = {} THEN stale ELSE lines[Max(held) - 1].val

\* The number line 47 takes when line s has been read: of the last line up to s
\* that put a character there.
Taken(lines, s) ==
    LET held == {i \in 1..s : i \in DOMAIN lines /\ lines[i].kind # "blank"}
    IN  IF held = {} THEN stale ELSE lines[Max(held)].val

\* The columns line 47 may make of a file.  When it was not opened getline leaves
\* `line' alone, and each turn reverses what is left of the line before: both
\* of its ends are taken in turn.
Columns(n) ==
    IF n \in Unreadable
    THEN {[s \in 1..numSims |-> IF s % 2 = 1 THEN end ELSE stale] : end \in Garbage \cup {stale}}
    ELSE {[s \in 1..numSims |-> Taken(simOut[n], s)]}

\* The end of the process, by return, exception or signal.
JoinGone ==
    /\ joinPc' = "off"
    /\ names' = <<>> /\ numSims' = 0 /\ matrix' = <<>> /\ sim' = 0
    /\ stale' \in Garbage

(***************************************************************************)
(* The program.                                                            *)
(***************************************************************************)
\* Mutant: the files are taken in the order of the directory.
ListFolderUnsorted ==
    /\ joinPc = "off" /\ joins < MaxJoins
    /\ joins' = joins + 1
    /\ names' \in {s \in [1..Cardinality(simFiles) -> simFiles] :
                    \A n \in simFiles : \E i \in DOMAIN s : s[i] = n}
    /\ joinPc' = "count"
    /\ UNCHANGED <<simFiles, simOut, joined, numSims, matrix, stale, sim>>

\* The regular files of the folder, sorted.
ListFolder ==
    /\ joinPc = "off" /\ joins < MaxJoins
    /\ joins' = joins + 1
    /\ names' = InOrder(simFiles)
    /\ joinPc' = "count"
    /\ UNCHANGED <<simFiles, simOut, joined, numSims, matrix, stale, sim>>

\* directory_iterator throws and nothing catches it.
ListFolderFails ==
    /\ joinPc = "off" /\ joins < MaxJoins
    /\ "list" \in JoinMayFail
    /\ joins' = joins + 1
    /\ UNCHANGED <<simFiles, simOut, joined, joinPc>> /\ UNCHANGED locals

\* The number of rows is the number of lines of the first file.
CountSims ==
    /\ joinPc = "count" /\ names # <<>>
    /\ numSims' = Len(Content(names[1]))
    /\ joinPc' = "read"
    /\ UNCHANGED <<simFiles, simOut, joined, names, matrix, stale, sim, joins>>

\* Mutant: an empty folder counts as one without rows.
CountSimsZero ==
    /\ joinPc = "count" /\ names = <<>>
    /\ numSims' = 0
    /\ joinPc' = "read"
    /\ UNCHANGED <<simFiles, simOut, joined, names, matrix, stale, sim, joins>>

\* simFiles[0] of an empty vector: the process dies before it opens its output.
CountSimsNothing ==
    /\ joinPc = "count" /\ names = <<>>
    /\ JoinGone
    /\ UNCHANGED <<simFiles, simOut, joined, joins>>

\* Mutant: the loop goes on until the end of the file is seen, which is never
\* when it was not opened.
ReadColumnUntilEof ==
    /\ joinPc = "read" /\ Len(matrix) < Len(names)
    /\ LET n == names[Len(matrix) + 1] IN
       IF n \in Unreadable THEN UNCHANGED joinVars
       ELSE /\ \E column \in Columns(n) :
                 /\ matrix' = Append(matrix, column)
                 /\ stale' = IF numSims = 0 THEN stale ELSE column[numSims]
            /\ joinPc' = "delete"
            /\ UNCHANGED <<simFiles, simOut, joined, names, numSims, sim, joins>>

ReadColumn ==
    /\ joinPc = "read" /\ Len(matrix) < Len(names)
    /\ \E column \in Columns(names[Len(matrix) + 1]) :
         /\ matrix' = Append(matrix, column)
         /\ stale' = IF numSims = 0 THEN stale ELSE column[numSims]
    /\ joinPc' = "delete"
    /\ UNCHANGED <<simFiles, simOut, joined, names, numSims, sim, joins>>

\* Mutant: the file after the one that was read.
DeleteNext ==
    /\ joinPc = "delete"
    /\ LET n == names[IF Len(matrix) < Len(names) THEN Len(matrix) + 1 ELSE 1] IN
         /\ simFiles' = simFiles \ {n}
         /\ simOut' = [simOut EXCEPT ![n] = <<>>]
    /\ joinPc' = "read"
    /\ UNCHANGED <<joined, joins>> /\ UNCHANGED locals

\* remove(simFile), before anything of it is written.
Delete ==
    /\ joinPc = "delete"
    /\ LET n == names[Len(matrix)] IN
         \/ /\ simFiles' = simFiles \ {n}
            /\ simOut' = [simOut EXCEPT ![n] = <<>>]
         \/ "remove" \in JoinMayFail /\ UNCHANGED folder
    /\ joinPc' = "read"
    /\ UNCHANGED <<joined, joins>> /\ UNCHANGED locals

\* fstream::out truncates.
OpenJoined ==
    /\ joinPc = "read" /\ Len(matrix) = Len(names)
    /\ joined' = <<>>
    /\ joinPc' = "write"
    /\ UNCHANGED <<simFiles, simOut, joins>> /\ UNCHANGED locals

\* Nothing looks at the stream: what is written to it goes nowhere.
OpenJoinedFails ==
    /\ joinPc = "read" /\ Len(matrix) = Len(names)
    /\ "open" \in JoinMayFail
    /\ JoinGone
    /\ UNCHANGED <<simFiles, simOut, joined, joins>>

WriteRow ==
    /\ joinPc = "write" /\ sim < numSims
    /\ joined' = Append(joined, [k \in 1..Len(names) |-> matrix[k][sim + 1]])
    /\ sim' = sim + 1
    /\ UNCHANGED <<simFiles, simOut, joinPc, names, numSims, matrix, stale, joins>>

\* Mutant: the columns are not given up at the end.
ReturnBeyond ==
    /\ joinPc = "write" /\ sim = numSims
    /\ joinPc' = "off" /\ numSims' = 0 /\ sim' = 0
    /\ UNCHANGED <<simFiles, simOut, joined, names, matrix, stale, joins>>

Return ==
    /\ joinPc = "write" /\ sim = numSims
    /\ JoinGone
    /\ UNCHANGED <<simFiles, simOut, joined, joins>>

JoinKill ==
    /\ joinPc \in JoinKillPoints
    /\ JoinGone
    /\ UNCHANGED <<simFiles, simOut, joined, joins>>

(***************************************************************************)
(* The specification.                                                      *)
(***************************************************************************)
JoinInit ==
    /\ joined = <<>>
    /\ joinPc = "off"
    /\ names = <<>> /\ numSims = 0 /\ matrix = <<>> /\ sim = 0
    /\ stale \in Garbage
    /\ joins = 0

JoinLaunch == ListFolder \/ ListFolderFails
JoinStep == \/ CountSims \/ CountSimsNothing \/ ReadColumn \/ Delete
            \/ OpenJoined \/ OpenJoinedFails \/ WriteRow \/ Return
JoinIdle == joinPc = "off" /\ joins = MaxJoins /\ UNCHANGED joinVars

JoinNext == JoinLaunch \/ JoinStep \/ JoinKill \/ JoinIdle

\* Whatever the folder holds when the program is started for the first time.
FolderOK ==
    /\ simFiles \subseteq OutNames
    /\ simOut \in [OutNames -> Seq(Lines)]
    /\ \A n \in OutNames : simOut[n] # <<>> => n \in simFiles
JoinSpec == FolderOK /\ JoinInit /\ [][JoinNext]_joinVars

(***************************************************************************)
(* Properties.                                                             *)
(***************************************************************************)
\* Every variable has its type; no more columns than files, nor rows than
\* vectors, and the file has the rows that were counted.
JoinTypeOK ==
    /\ FolderOK
    /\ joined \in Seq(Seq(Int))
    /\ joinPc \in JoinPoints \cup {"off"}
    /\ names \in Seq(OutNames)
    /\ numSims \in Nat
    /\ matrix \in Seq([1..numSims -> Int]) /\ Len(matrix) <= Len(names)
    /\ stale \in Int
    /\ joins \in 0..MaxJoins
    /\ sim \in 0..numSims /\ (joinPc = "write" => Len(joined) = sim)

\* Lines 42-51 delete a file that can be read only when its first numSims lines
\* are a column of the matrix, those lines that hold a character to take.
DeletedOnlyWhenRead ==
    [][\A n \in simFiles \ (simFiles' \cup Unreadable) :
         \E k \in 1..Len(matrix) :
           /\ names[k] = n
           /\ \A s \in 1..numSims :
                s <= Len(simOut[n]) /\ simOut[n][s].kind # "blank" =>
                  matrix[k][s] = simOut[n][s].val]_joinVars

\* Line 55 truncates the joined file only when every file that was there when
\* the program started has been read and a complete column of each is at hand:
\* an empty folder in particular leaves an earlier result alone.
TruncatedOnlyForAll ==
    [][joined' # joined /\ joined' = <<>> =>
         /\ names # <<>>
         /\ Len(matrix) = Len(names)
         /\ \A k \in 1..Len(matrix) : DOMAIN matrix[k] = 1..numSims]_joinVars

\* Every run of the program comes to an end.
JoinEnds == joinPc # "off" ~> joinPc = "off"
=============================================================================
