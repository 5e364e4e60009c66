-------------------------- MODULE Workflow_proofs --------------------------
(***************************************************************************)
(* Theorems about workflow.sh (module Workflow): what the joined file      *)
(* holds when the script has ended, and that a pass over a layer is one of *)
(* the abstract specification Layer.  The lemmas about the simulator and   *)
(* the join are those of their own proof modules.                          *)
(***************************************************************************)
EXTENDS Workflow, SequenceTheorems, TLAPS

SimP  == INSTANCE NeuronSimulator_proofs
JoinP == INSTANCE JoinOutputs_proofs
           WITH MaxJoins <- MaxRuns, given <- [files |-> simFiles, lines |-> simOut]

(***************************************************************************)
(* SimP and JoinP name the same actions as Sim and Join.                   *)
(***************************************************************************)
LEMMA SameSimulator ==
    /\ Sim!Init = SimP!Init
    /\ Sim!Launch = SimP!Launch /\ Sim!Step = SimP!Step /\ Sim!Kill = SimP!Kill
  BY DEF Sim!Init, SimP!Init, Sim!DiskInit, SimP!DiskInit, Sim!ProcessInit,
     SimP!ProcessInit, Sim!simVars, SimP!simVars, Sim!disk, SimP!disk, Sim!process,
     SimP!process, Sim!iteration, SimP!iteration, Sim!Launch, SimP!Launch, Sim!Step,
     SimP!Step, Sim!Iterate, SimP!Iterate, Sim!Prepare, SimP!Prepare, Sim!Simulate,
     SimP!Simulate, Sim!Finish, SimP!Finish, Sim!Kill, SimP!Kill, Sim!OpenDir,
     SimP!OpenDir, Sim!OpenDirFails, SimP!OpenDirFails, Sim!SkipEntry, SimP!SkipEntry,
     Sim!TakeEntry, SimP!TakeEntry, Sim!EndOfDir, SimP!EndOfDir, Sim!ReadAig,
     SimP!ReadAig, Sim!ReadAigRejected, SimP!ReadAigRejected, Sim!ReadAigNull,
     SimP!ReadAigNull, Sim!OpenOut, SimP!OpenOut, Sim!OpenOutFails, SimP!OpenOutFails,
     Sim!Redirect, SimP!Redirect, Sim!RedirectFails, SimP!RedirectFails,
     Sim!AigsimPrint, SimP!AigsimPrint, Sim!AigsimEnd, SimP!AigsimEnd,
     Sim!AigsimFails, SimP!AigsimFails, Sim!FlushStdout, SimP!FlushStdout,
     Sim!RestoreStdout, SimP!RestoreStdout, Sim!RemoveAig, SimP!RemoveAig, Sim!Gone,
     SimP!Gone, Sim!Exit, SimP!Exit, Sim!Die, SimP!Die, Sim!WriteTo, SimP!WriteTo,
     Sim!Emit, SimP!Emit, Sim!Banner, SimP!Banner, Sim!ErrorLine, SimP!ErrorLine,
     Sim!Trailer, SimP!Trailer, Sim!Row, SimP!Row, Sim!FdFree, SimP!FdFree,
     Sim!LoopFds, SimP!LoopFds

LEMMA SameOrder == \A S : Join!InOrder(S) = JoinP!InOrder(S)
  BY Zenon DEF Join!InOrder, JoinP!InOrder, Join!IsInOrder, JoinP!IsInOrder, Join!Place,
     JoinP!Place, Join!Cardinality, JoinP!Cardinality

LEMMA SameTaken == \A lines, s : Join!Taken(lines, s) = JoinP!Taken(lines, s)
  BY Zenon DEF Join!Taken, JoinP!Taken, Join!Max, JoinP!Max

\* The two instances make the same columns of a file.
LEMMA SameColumns == \A n : Join!Columns(n) = JoinP!Columns(n)
  BY SameTaken DEF Join!Columns, JoinP!Columns

LEMMA SameJoin ==
    /\ Join!JoinInit = JoinP!JoinInit
    /\ Join!JoinLaunch = JoinP!JoinLaunch /\ Join!JoinStep = JoinP!JoinStep
    /\ Join!JoinKill = JoinP!JoinKill
  BY SameOrder, SameColumns
     DEF Join!JoinInit, JoinP!JoinInit, Join!JoinLaunch, JoinP!JoinLaunch, Join!JoinStep,
     JoinP!JoinStep, Join!JoinKill, JoinP!JoinKill, Join!ListFolder, JoinP!ListFolder,
     Join!ListFolderFails, JoinP!ListFolderFails, Join!CountSims, JoinP!CountSims,
     Join!CountSimsNothing, JoinP!CountSimsNothing, Join!ReadColumn, JoinP!ReadColumn,
     Join!Delete, JoinP!Delete, Join!OpenJoined, JoinP!OpenJoined, Join!OpenJoinedFails,
     JoinP!OpenJoinedFails, Join!WriteRow, JoinP!WriteRow, Join!Return, JoinP!Return,
     Join!JoinGone, JoinP!JoinGone, Join!Content, JoinP!Content, Join!locals,
     JoinP!locals, Join!folder, JoinP!folder

(***************************************************************************)
(* The steps of the script.                                                *)
(***************************************************************************)
ScriptStarts ==
    /\ stage \in {"idle", "end"} /\ SimP!Launch
    /\ stage' = "simulate" /\ UNCHANGED joinPrivate
SimulatorSteps ==
    /\ stage = "simulate" /\ SimP!Step
    /\ stage' = "simulate" /\ UNCHANGED joinPrivate
SimulatorKilled ==
    /\ stage = "simulate" /\ SimP!Kill
    /\ stage' = "idle" /\ UNCHANGED joinPrivate
JoinStarts ==
    /\ stage = "simulate" /\ pc = "off" /\ JoinP!JoinLaunch
    /\ stage' = "join" /\ UNCHANGED simPrivate
JoinSteps ==
    /\ stage = "join" /\ JoinP!JoinStep
    /\ stage' = "join" /\ UNCHANGED simPrivate
JoinKilled ==
    /\ stage = "join" /\ JoinP!JoinKill
    /\ stage' = "idle" /\ UNCHANGED simPrivate

LEMMA ScriptSteps ==
    ASSUME [Next]_vars
    PROVE  \/ ScriptStarts \/ SimulatorSteps \/ SimulatorKilled
           \/ JoinStarts \/ JoinSteps \/ JoinKilled \/ EndScript
           \/ UNCHANGED vars
  BY SameSimulator, SameJoin
     DEF Next, StartScript, Progress, Simulating, StartJoin, Joining, EndScript, Interrupt,
         Rest, ScriptStarts, SimulatorSteps, SimulatorKilled, JoinStarts, JoinSteps,
         JoinKilled

(***************************************************************************)
(* What the theorems assume.                                               *)
(***************************************************************************)
\* No two AIGs share an output file, no descriptor is missing, the simulator writes
\* to a terminal and reads a stimulus without a '.' line; it is stopped only before
\* aigsim starts, the join only before it writes, and no output file is unreadable.
Common ==
    /\ SimP!StemsDiffer
    /\ FdLimit >= Cardinality(AigFiles) + 6
    /\ Tty /\ ~Dot
    /\ KillPoints \subseteq {"readdir", "read", "open", "redirect"}
    /\ "aigsim" \notin MayFail /\ "remove" \notin MayFail
    /\ Unreadable = {}
    /\ JoinKillPoints \subseteq {"count", "read", "delete"}

LEMMA SimulatorFits ==
    /\ SimP!IsFiniteSet(AigFiles) /\ MayFail \subseteq SimP!Calls
    /\ KillPoints \subseteq SimP!ProgramPoints
    /\ Common => SimP!Undisturbed /\ FdLimit >= SimP!Cardinality(AigFiles) + 6
  <1>1. SimP!IsFiniteSet(AigFiles)
    BY SimulatorAssumption DEF SimP!IsFiniteSet, IsFiniteSet
  <1>2. SimP!Cardinality(AigFiles) = Cardinality(AigFiles)
    BY Zenon DEF SimP!Cardinality, Cardinality
  <1>3. MayFail \subseteq SimP!Calls /\ KillPoints \subseteq SimP!ProgramPoints
    BY SimulatorAssumption DEF SimP!Calls, Sim!Calls, SimP!ProgramPoints, Sim!ProgramPoints
  <1> QED
    BY <1>1, <1>2, <1>3 DEF Common, SimP!Undisturbed

LEMMA JoinFits ==
    JoinMayFail \subseteq JoinP!JoinCalls /\ JoinKillPoints \subseteq JoinP!JoinPoints
  BY JoinerAssumption DEF JoinP!JoinCalls, Join!JoinCalls, JoinP!JoinPoints, Join!JoinPoints

(***************************************************************************)
(* The columns and rows of a set of neurons.                               *)
(***************************************************************************)
Outs(S) == {Stem[f] : f \in S}
Column(n) == [s \in 1..NumVectors |-> Value[NeuronOf(n)][s]]

LEMMA NeuronOfStem ==
    ASSUME SimP!StemsDiffer, NEW f \in AigFiles
    PROVE  NeuronOf(Stem[f]) = f
  BY DEF NeuronOf, SimP!StemsDiffer

LEMMA Columns ==
    ASSUME NEW S \in SUBSET AigFiles
    PROVE  /\ ColumnsOf(S) \in Seq(OutNames)
           /\ Len(ColumnsOf(S)) \in Nat
           /\ {ColumnsOf(S)[k] : k \in 1..Len(ColumnsOf(S))} = Outs(S)
           /\ \A j, k \in 1..Len(ColumnsOf(S)) : ColumnsOf(S)[j] = ColumnsOf(S)[k] => j = k
           /\ S = {} <=> ColumnsOf(S) = <<>>
  <1>1. Outs(S) \in SUBSET OutNames
    BY SimulatorAssumption DEF Outs
  <1>2. ColumnsOf(S) = JoinP!InOrder(Outs(S))
    BY SameOrder DEF ColumnsOf, Outs
  <1> DEFINE c == JoinP!InOrder(Outs(S))
  <1>3. /\ c \in Seq(Outs(S))
        /\ {c[k] : k \in 1..Len(c)} = Outs(S)
        /\ \A j, k \in 1..Len(c) : c[j] = c[k] => j = k
    BY <1>1, JoinP!InOrderCorrect, JoinerAssumption, JoinFits, SimulatorAssumption
  <1> HIDE DEF c
  <1>4. c \in Seq(OutNames)
    BY <1>1, <1>3, SeqMonotonic
  <1>5. S = {} <=> c = <<>>
    <2>1. S = {} => Outs(S) = {}
      BY DEF Outs
    <2>2. S # {} => Outs(S) # {}
      BY DEF Outs
    <2>3. Outs(S) = {} => c = <<>>
      <3>1. c # <<>> => 1 \in 1..Len(c)
        BY <1>3
      <3> QED
        BY <1>3, <3>1
    <2>4. c = <<>> => Outs(S) = {}
      BY <1>3
    <2> QED
      BY <2>1, <2>2, <2>3, <2>4
  <1> QED
    BY <1>2, <1>3, <1>4, <1>5 DEF c

\* Each column is that of one of the neurons.
LEMMA ColumnsNeurons ==
    ASSUME SimP!StemsDiffer, NEW S \in SUBSET AigFiles, NEW k \in 1..Len(ColumnsOf(S))
    PROVE  /\ NeuronOf(ColumnsOf(S)[k]) \in S
           /\ Stem[NeuronOf(ColumnsOf(S)[k])] = ColumnsOf(S)[k]
  <1>1. PICK f \in S : Stem[f] = ColumnsOf(S)[k]
    <2>1. ColumnsOf(S)[k] \in Outs(S)
      BY Columns
    <2> QED
      BY <2>1 DEF Outs
  <1> QED
    BY <1>1, NeuronOfStem

\* The rows of their layer are made of these columns.
LEMMA RowsOfShape ==
    ASSUME SimP!StemsDiffer, NEW S \in SUBSET AigFiles
    PROVE  /\ RowsOf(S) \in Seq(Seq(Int)) /\ Len(RowsOf(S)) = NumVectors
           /\ \A s \in 1..NumVectors :
                RowsOf(S)[s] = [k \in 1..Len(ColumnsOf(S)) |-> Column(ColumnsOf(S)[k])[s]]
  <1> DEFINE columns == ColumnsOf(S)
             row(s) == [k \in 1..Len(columns) |-> Value[NeuronOf(columns[k])][s]]
  <1>1. Len(columns) \in Nat /\ \A k \in 1..Len(columns) : NeuronOf(columns[k]) \in AigFiles
    BY Columns, ColumnsNeurons
  <1>2. RowsOf(S) = [s \in 1..NumVectors |-> row(s)]
    BY DEF RowsOf
  <1> HIDE DEF columns
  <1>3. \A s \in 1..NumVectors : row(s) \in Seq(Int)
    BY <1>1, SimulatorAssumption
  <1>4. \A s \in 1..NumVectors : row(s) = [k \in 1..Len(columns) |-> Column(columns[k])[s]]
    BY DEF Column
  <1> HIDE DEF row
  <1>5. RowsOf(S) \in Seq(Seq(Int)) /\ Len(RowsOf(S)) = NumVectors
    BY <1>2, <1>3, SimulatorAssumption
  <1> QED
    BY <1>2, <1>4, <1>5 DEF columns

\* They do not depend on the state.
LEMMA Constants ==
    /\ \A S : ColumnsOf(S)' = ColumnsOf(S) /\ RowsOf(S)' = RowsOf(S)
    /\ \A n : Column(n)' = Column(n)
  BY DEF ColumnsOf, RowsOf, Column, NeuronOf, Join!InOrder, Join!IsInOrder, Join!Place,
         Join!Cardinality

(***************************************************************************)
(* What the join reads.                                                    *)
(***************************************************************************)
\* No output file exists of a neuron that is still to be simulated.
Ready == \A f \in AigFiles : Stem[f] \in simFiles => f \notin aig

\* When the simulator is off, such a folder holds the rows of its neurons.
LEMMA CompleteFile ==
    ASSUME Common, SimP!ExactInv, pc = "off", Ready,
           NEW f \in AigFiles, Stem[f] \in simFiles
    PROVE  simOut[Stem[f]] = SimP!Rows(f)
  <1>1. f \notin aig /\ f # cur
    BY SimulatorAssumption
       DEF Ready, SimP!ExactInv, SimP!OwnFileInv, SimP!FdInv, SimP!TypeInv, SimP!TypeOK
  <1>2. simOut[Stem[f]] \in SimP!Expected(f)
    BY <1>1 DEF SimP!ExactInv, SimP!FileExact
  <1>3. SimP!Rows(f) \in Seq(SimP!Lines)
    BY SimP!RowsGrow, SimulatorAssumption, SimulatorFits
  <1>4. SimP!Simulated(f) = {SimP!Rows(f) \o <<>>}
    BY DEF Common, SimP!Simulated, SimP!Trailer
  <1>5. SimP!Expected(f) = {SimP!Rows(f) \o <<>> \o <<>>}
    BY <1>4 DEF Common, SimP!Expected
  <1> QED
    BY <1>2, <1>3, <1>5

\* The join takes from them what the neurons computed.
LEMMA TakenValue ==
    ASSUME Common, SimP!ExactInv, pc = "off", Ready,
           NEW f \in AigFiles, Stem[f] \in simFiles
    PROVE  /\ Len(JoinP!Content(Stem[f])) = NumVectors
           /\ \A s \in 1..NumVectors :
                JoinP!Taken(JoinP!Content(Stem[f]), s) = Value[f][s]
  <1> DEFINE lines == JoinP!Content(Stem[f])
  <1>1. lines = SimP!Rows(f)
    BY CompleteFile DEF JoinP!Content, Common
  <1>2. lines = [s \in 1..NumVectors |-> [kind |-> "row", val |-> Value[f][s]]]
    BY <1>1 DEF SimP!Rows, SimP!Row
  <1> HIDE DEF lines
  <1>3. \A s \in 1..NumVectors : lines[s] \in JoinP!Lines /\ lines[s].kind # "blank"
                                  /\ lines[s].val = Value[f][s]
    <2> SUFFICES ASSUME NEW s \in 1..NumVectors
                 PROVE  /\ lines[s] \in JoinP!Lines /\ lines[s].kind # "blank"
                        /\ lines[s].val = Value[f][s]
      OBVIOUS
    <2>1. Value[f][s] \in Int
      BY SimulatorAssumption
    <2>2. lines[s] = [kind |-> "row", val |-> Value[f][s]]
      BY <1>2
    <2>3. lines[s] \in JoinP!Lines
      BY <2>1, <2>2 DEF JoinP!Lines
    <2>4. lines[s].kind = "row" /\ lines[s].val = Value[f][s]
      BY <2>2
    <2> QED
      BY <2>3, <2>4
  <1>4. lines \in Seq(JoinP!Lines) /\ Len(lines) = NumVectors
    BY <1>2, <1>3, SimulatorAssumption
  <1>5. \A s \in 1..NumVectors : JoinP!Taken(lines, s) = Value[f][s]
    <2> SUFFICES ASSUME NEW s \in 1..NumVectors
                 PROVE  JoinP!Taken(lines, s) = lines[s].val
      BY <1>3
    <2>1. s \in 1..Len(lines) /\ lines[s].kind # "blank"
      BY <1>3, <1>4
    <2> QED
      BY <1>4, <2>1, JoinP!TakenOwn, JoinerAssumption, JoinFits, SimulatorAssumption
  <1> QED
    BY <1>4, <1>5 DEF lines

(***************************************************************************)
(* A run of the join, over the output files of the neurons S.              *)
(***************************************************************************)
\* The file of column k has not been deleted yet.
Kept(k) == k > Len(matrix) \/ (joinPc = "delete" /\ k = Len(matrix))

JoinRun(S) ==
    /\ stage = "join" /\ pc = "off" /\ Ready
    /\ joinPc \in {"count", "read", "delete", "write"}
    /\ names = ColumnsOf(S) /\ simFiles \subseteq Outs(S)
    /\ \A k \in 1..Len(names) : Kept(k) => names[k] \in simFiles
    /\ "remove" \notin JoinMayFail =>
         \A k \in 1..Len(names) : ~Kept(k) => names[k] \notin simFiles
    /\ joinPc = "count" => matrix = <<>>
    /\ joinPc # "write" => sim = 0
    /\ joinPc # "count" => names # <<>> /\ numSims = NumVectors
    /\ matrix \in Seq([1..NumVectors -> Int]) /\ Len(matrix) <= Len(names)
    /\ \A k \in 1..Len(matrix) : matrix[k] = Column(names[k])
    /\ joinPc = "delete" => matrix # <<>>
    /\ joinPc = "write" =>
         /\ Len(matrix) = Len(names)
         /\ joined \in Seq(Seq(Int)) /\ Len(joined) <= NumVectors /\ Len(joined) = sim
         /\ \A s \in 1..Len(joined) : joined[s] = RowsOf(S)[s]

\* Its end, before or after it has written the rows of these neurons.
JoinEnd(S) ==
    /\ joinPc' = "off" /\ matrix' = <<>> /\ sim' = 0 /\ UNCHANGED <<simFiles, simOut, joined>>
    /\ joinPc = "write" => joined = RowsOf(S)

LEMMA JoinListed ==
    ASSUME NEW S \in SUBSET AigFiles, JoinP!ListFolder, JoinStarts, Ready,
           simFiles = Outs(S), matrix = <<>>, sim = 0
    PROVE  JoinRun(S)' /\ joined' = joined /\ joinPc' = "count"
  <1>1. /\ joinPc' = "count" /\ names' = ColumnsOf(S)
        /\ UNCHANGED <<simFiles, joined, matrix, sim, aig>> /\ stage' = "join" /\ pc' = "off"
    BY SameOrder DEF JoinP!ListFolder, JoinStarts, simPrivate, ColumnsOf, Outs
  <1>2. /\ Len(names') \in Nat /\ {names'[k] : k \in 1..Len(names')} = Outs(S)
    BY <1>1, Columns
  <1>3. \A k \in 1..Len(names') : names'[k] \in simFiles' /\ k > Len(matrix')
    BY <1>1, <1>2
  <1> QED
    BY <1>1, <1>2, <1>3 DEF JoinRun, Kept, Ready

\* Every step of the join stays within the run or ends it.
LEMMA JoinRunNext ==
    ASSUME Common, SimP!ExactInv, NEW S \in SUBSET AigFiles, JoinRun(S), JoinSteps
    PROVE  \/ /\ JoinRun(S)' /\ joinPc' # "count"
              /\ joinPc' # "write" => joined' = joined
              /\ joinPc = "read" /\ joinPc' = "write" => joined' = <<>>
              /\ joinPc = "write" =>
                   /\ joinPc' = "write" /\ Len(joined) < NumVectors
                   /\ joined' = Append(joined, RowsOf(S)[Len(joined) + 1])
           \/ /\ JoinEnd(S)
              /\ joinPc = "count" => S = {}
              /\ joinPc \in {"read", "delete"} => JoinMayFail # {}
  <1>0. /\ stage' = "join" /\ UNCHANGED <<aig, pc>> /\ stage = "join" /\ pc = "off"
        /\ names = ColumnsOf(S) /\ Len(matrix) \in Nat
        /\ NumVectors \in Nat /\ SimP!StemsDiffer
    BY SimulatorAssumption DEF JoinSteps, simPrivate, JoinRun, Common
  <1>1. /\ Len(names) \in Nat
        /\ \A k \in 1..Len(names) : /\ NeuronOf(names[k]) \in S
                                    /\ Stem[NeuronOf(names[k])] = names[k]
        /\ \A j, k \in 1..Len(names) : names[j] = names[k] => j = k
    BY <1>0, Columns, ColumnsNeurons
  <1> USE Constants
  <1>2. CASE JoinP!CountSims
    <2>1. /\ joinPc = "count" /\ joinPc' = "read" /\ names # <<>>
          /\ numSims' = Len(JoinP!Content(names[1]))
          /\ UNCHANGED <<simFiles, joined, names, matrix, sim>>
      BY <1>2 DEF JoinP!CountSims
    <2>2. 1 \in 1..Len(names) /\ Len(matrix) = 0
      BY <1>0, <1>1, <2>1 DEF JoinRun
    <2>3. names[1] \in simFiles /\ Ready
      BY <2>2 DEF JoinRun, Kept
    <2>4. numSims' = NumVectors
      BY <1>0, <1>1, <2>1, <2>2, <2>3, TakenValue
    <2> QED
      BY <1>0, <1>1, <2>1, <2>4 DEF JoinRun, Kept, Ready
  <1>3. CASE JoinP!CountSimsNothing
    <2>1. /\ joinPc = "count" /\ names = <<>> /\ joinPc' = "off" /\ matrix' = <<>> /\ sim' = 0
          /\ UNCHANGED <<simFiles, simOut, joined>>
      BY <1>3 DEF JoinP!CountSimsNothing, JoinP!JoinGone
    <2>2. S = {}
      BY <1>0, <1>1, <2>1, Columns
    <2> QED
      BY <2>1, <2>2 DEF JoinEnd
  <1>4. CASE JoinP!ReadColumn
    <2> DEFINE m == Len(matrix) + 1
               f == NeuronOf(names[m])
               lines == JoinP!Content(names[m])
               column == [s \in 1..numSims |-> JoinP!Taken(lines, s)]
    <2>1. /\ joinPc = "read" /\ joinPc' = "delete" /\ Len(matrix) < Len(names)
          /\ \E c \in JoinP!Columns(names[m]) : matrix' = Append(matrix, c)
          /\ UNCHANGED <<simFiles, joined, names, numSims, sim>>
      BY <1>4 DEF JoinP!ReadColumn
    <2>11. matrix' = Append(matrix, column)
      <3>1. JoinP!Columns(names[m]) = {column}
        BY Zenon DEF JoinP!Columns, JoinP!Content, Common
      <3> HIDE DEF column
      <3> QED
        BY <2>1, <3>1
    <2>2. m \in 1..Len(names) /\ f \in AigFiles /\ Stem[f] = names[m]
          /\ names[m] \in simFiles /\ Ready
      BY <1>0, <1>1, <2>1 DEF JoinRun, Kept
    <2>3. \A s \in 1..NumVectors : JoinP!Taken(lines, s) = Value[f][s]
      BY <1>0, <1>1, <2>2, TakenValue
    <2>4. column = Column(names[m]) /\ numSims = NumVectors
      BY <2>1, <2>3 DEF JoinRun, Column
    <2>5. Column(names[m]) \in [1..NumVectors -> Int]
      BY <2>2, SimulatorAssumption DEF Column
    <2> HIDE DEF column
    <2>6. /\ matrix' \in Seq([1..NumVectors -> Int]) /\ Len(matrix') = m /\ matrix' # <<>>
          /\ \A k \in 1..Len(matrix) : matrix'[k] = matrix[k]
          /\ matrix'[m] = Column(names[m])
      BY <1>0, <1>1, <2>1, <2>11, <2>4, <2>5 DEF JoinRun
    <2>7. \A k \in 1..Len(matrix') : matrix'[k] = Column(names[k])
      <3> SUFFICES ASSUME NEW k \in 1..Len(matrix') PROVE matrix'[k] = Column(names[k])
        OBVIOUS
      <3>1. k = m \/ k \in 1..Len(matrix)
        BY <1>0, <1>1, <2>6
      <3> QED
        BY <2>6, <3>1 DEF JoinRun
    <2>8. \A k \in 1..Len(names) : Kept(k)' <=> Kept(k)
      BY <1>0, <1>1, <2>1, <2>6 DEF Kept
    <2>9. JoinRun(S)'
      BY <1>0, <1>1, <2>1, <2>2, <2>4, <2>6, <2>7, <2>8 DEF JoinRun, Ready
    <2> QED
      BY <2>1, <2>9
  <1>5. CASE JoinP!Delete
    <2> DEFINE n == names[Len(matrix)]
    <2>1. /\ joinPc = "delete" /\ joinPc' = "read"
          /\ UNCHANGED <<joined, names, numSims, matrix, sim>>
          /\ \/ simFiles' = simFiles \ {n}
             \/ "remove" \in JoinMayFail /\ simFiles' = simFiles
      BY <1>5 DEF JoinP!Delete, JoinP!folder, JoinP!locals
    <2>2. Len(matrix) \in 1..Len(names)
      BY <1>0, <1>1, <2>1 DEF JoinRun
    <2>3. ASSUME NEW k \in 1..Len(names)
          PROVE  /\ Kept(k)' => names[k] \in simFiles'
                 /\ "remove" \notin JoinMayFail /\ ~Kept(k)' => names[k] \notin simFiles'
      <3>1. CASE Kept(k)'
        <4>1. Kept(k) /\ k # Len(matrix)
          BY <1>0, <1>1, <2>1, <3>1 DEF Kept
        <4>2. names[k] # n
          BY <1>0, <1>1, <2>2, <4>1
        <4> QED
          BY <2>1, <3>1, <4>1, <4>2 DEF JoinRun
      <3>2. CASE ~Kept(k)'
        <4>1. k = Len(matrix) \/ ~Kept(k)
          BY <1>0, <1>1, <2>1, <3>2 DEF Kept
        <4> QED
          BY <2>1, <3>2, <4>1 DEF JoinRun
      <3> QED
        BY <3>1, <3>2
    <2>4. JoinRun(S)'
      BY <1>0, <1>1, <2>1, <2>3 DEF JoinRun, Ready
    <2> QED
      BY <2>1, <2>4
  <1>6. CASE JoinP!OpenJoined
    <2>1. /\ joinPc = "read" /\ joinPc' = "write" /\ Len(matrix) = Len(names) /\ joined' = <<>>
          /\ UNCHANGED <<simFiles, names, numSims, matrix, sim>>
      BY <1>6 DEF JoinP!OpenJoined, JoinP!locals
    <2>2. \A k \in 1..Len(names) : Kept(k)' <=> Kept(k)
      BY <2>1 DEF Kept
    <2>3. joined' \in Seq(Seq(Int)) /\ Len(joined') = 0
      BY <2>1
    <2>4. JoinRun(S)'
      BY <1>0, <1>1, <2>1, <2>2, <2>3 DEF JoinRun, Ready
    <2> QED
      BY <2>1, <2>4
  <1>7. CASE JoinP!OpenJoinedFails
    BY <1>7 DEF JoinP!OpenJoinedFails, JoinP!JoinGone, JoinEnd
  <1>8. CASE JoinP!WriteRow
    <2> DEFINE s == Len(joined) + 1
               row == [k \in 1..Len(names) |-> matrix[k][s]]
    <2>0. joinPc = "write" /\ Len(joined) = sim
      BY <1>8 DEF JoinP!WriteRow, JoinRun
    <2>1. /\ joinPc = "write" /\ joinPc' = "write" /\ Len(joined) < numSims
          /\ joined' = Append(joined, row) /\ sim' = Len(joined) + 1
          /\ UNCHANGED <<simFiles, names, numSims, matrix>>
      BY <1>8, <2>0 DEF JoinP!WriteRow
    <2>2. /\ numSims = NumVectors /\ joined \in Seq(Seq(Int)) /\ Len(joined) \in Nat
          /\ s \in 1..NumVectors
          /\ \A k \in 1..Len(names) : matrix[k] = Column(names[k])
      <3>1. /\ numSims = NumVectors /\ joined \in Seq(Seq(Int))
            /\ Len(matrix) = Len(names)
            /\ \A k \in 1..Len(matrix) : matrix[k] = Column(names[k])
        BY <2>1 DEF JoinRun
      <3>2. Len(joined) \in Nat
        BY ONLY <3>1, LenProperties
      <3>3. s \in 1..NumVectors
        BY ONLY <1>0, <2>1, <3>1, <3>2
      <3> QED
        BY <3>1, <3>2, <3>3
    <2>3. row = [k \in 1..Len(names) |-> Column(names[k])[s]]
      BY <2>2
    <2>4. row = RowsOf(S)[s] /\ row \in Seq(Int)
      <3>1. RowsOf(S)[s] = [k \in 1..Len(ColumnsOf(S)) |-> Column(ColumnsOf(S)[k])[s]]
        BY <1>0, <1>1, <2>2, RowsOfShape
      <3>2. RowsOf(S)[s] \in Seq(Int)
        BY <1>0, <1>1, <2>2, RowsOfShape
      <3> QED
        BY <1>0, <1>1, <2>3, <3>1, <3>2
    <2> HIDE DEF row
    <2>5. /\ joined' \in Seq(Seq(Int)) /\ Len(joined') = s /\ joined'[s] = row
          /\ \A i \in 1..Len(joined) : joined'[i] = joined[i]
      BY <2>1, <2>2, <2>4
    <2>6. \A i \in 1..Len(joined') : joined'[i] = RowsOf(S)[i]
      <3> SUFFICES ASSUME NEW i \in 1..Len(joined') PROVE joined'[i] = RowsOf(S)[i]
        OBVIOUS
      <3>1. i = s \/ i \in 1..Len(joined)
        BY <2>2, <2>5
      <3> QED
        BY <2>1, <2>4, <2>5, <3>1 DEF JoinRun
    <2>7. \A k \in 1..Len(names) : Kept(k)' <=> Kept(k)
      BY <2>1 DEF Kept
    <2>8. joined' \in Seq(Seq(Int)) /\ Len(joined') <= NumVectors /\ Len(joined') = sim'
      BY <2>1, <2>2, <2>5
    <2>9. \A i \in 1..Len(joined') : joined'[i] = RowsOf(S)[i]
      BY <2>6
    <2>10. Ready' <=> Ready
      BY <1>0, <2>1 DEF Ready
    <2>11. JoinRun(S)'
      <3>1. /\ Ready /\ simFiles \subseteq Outs(S) /\ matrix \in Seq([1..NumVectors -> Int])
            /\ \A k \in 1..Len(names) : Kept(k) => names[k] \in simFiles
            /\ "remove" \notin JoinMayFail =>
                 \A k \in 1..Len(names) : ~Kept(k) => names[k] \notin simFiles
            /\ names # <<>> /\ numSims = NumVectors /\ Len(matrix) = Len(names)
            /\ \A k \in 1..Len(matrix) : matrix[k] = Column(names[k])
        BY <2>1 DEF JoinRun
      <3>2. Len(matrix') <= Len(names')
        BY <1>0, <1>1, <2>1, <3>1
      <3> QED
        BY <1>0, <2>1, <2>7, <2>8, <2>9, <2>10, <3>1, <3>2 DEF JoinRun
    <2> QED
      BY <2>1, <2>2, <2>4, <2>11
  <1>9. CASE JoinP!Return
    <2>1. /\ joinPc = "write" /\ sim = numSims /\ joinPc' = "off" /\ matrix' = <<>> /\ sim' = 0
          /\ UNCHANGED <<simFiles, simOut, joined>>
      BY <1>9 DEF JoinP!Return, JoinP!JoinGone
    <2>2. /\ joined \in Seq(Seq(Int)) /\ Len(joined) = NumVectors
          /\ \A s \in 1..NumVectors : joined[s] = RowsOf(S)[s]
      BY <2>1 DEF JoinRun
    <2>3. RowsOf(S) \in Seq(Seq(Int)) /\ Len(RowsOf(S)) = NumVectors
      BY <1>0, <1>1, RowsOfShape
    <2>4. joined = RowsOf(S)
      BY <2>2, <2>3
    <2> QED
      BY <2>1, <2>4 DEF JoinEnd
  <1> QED
    BY <1>2, <1>3, <1>4, <1>5, <1>6, <1>7, <1>8, <1>9 DEF JoinSteps, JoinP!JoinStep

\* So does killing it.
LEMMA JoinRunKilled ==
    ASSUME Common, NEW S \in SUBSET AigFiles, JoinRun(S), JoinKilled
    PROVE  JoinEnd(S) /\ joinPc \in JoinKillPoints
  BY DEF JoinKilled, JoinP!JoinKill, JoinP!JoinGone, JoinEnd, Common

(***************************************************************************)
(* What the steps of the simulator do to the folders.                      *)
(***************************************************************************)
Begins  == /\ pc = "off" /\ pc' = "readdir" /\ toList' = aig \cup Others
           /\ UNCHANGED <<aig, simFiles, cur>>
Refused == pc = "off" /\ pc' = "off" /\ MayFail # {} /\ UNCHANGED <<aig, simFiles, cur>>
Skips   == /\ pc = "readdir" /\ pc' = "readdir"
           /\ toList \cap AigFiles \subseteq toList' /\ UNCHANGED <<aig, simFiles, cur>>
Takes   == /\ pc = "readdir" /\ pc' = "read"
           /\ toList' = toList \ {cur'} /\ UNCHANGED <<aig, simFiles>>
Opens   == /\ pc = "open" /\ pc' = "redirect"
           /\ simFiles' = simFiles \cup {Stem[cur]} /\ UNCHANGED <<aig, toList, cur>>
Works   == /\ pc \notin {"off", "readdir", "open"} /\ pc' \notin {"off", "readdir", "read"}
           /\ UNCHANGED <<aig, simFiles, toList, cur>> /\ (pc' = "open" => pc = "read")
Removes == /\ pc = "remove" /\ pc' = "readdir" /\ cur' = NoFile
           /\ aig' = aig \ {cur} /\ UNCHANGED <<simFiles, toList>>
Ends    == /\ pc' = "off" /\ cur' = NoFile /\ UNCHANGED <<aig, simFiles>>
           /\ \/ pc = "readdir" /\ toList = {}
              \/ pc \in {"read", "open"} /\ (Corrupt # {} \/ MayFail # {})
              \/ pc = "redirect" /\ "dup2" \in MayFail

LEMMA SimulatorMoves ==
    ASSUME Common, SimP!ExactInv, SimP!Launch \/ SimP!Step
    PROVE  Begins \/ Refused \/ Skips \/ Takes \/ Opens \/ Works \/ Removes \/ Ends
  <1>1. SimP!TypeOK /\ SimP!DescriptorsSuffice
    BY SimP!FdsThere, SimulatorFits, SimulatorAssumption
       DEF SimP!ExactInv, SimP!OwnFileInv, SimP!FdInv, SimP!TypeInv
  <1>2. FdLimit >= 4
    <2>1. SimP!Cardinality(AigFiles) \in Nat
      BY SimP!AheadNat, SimulatorFits, SimulatorAssumption
         DEF SimP!ExactInv, SimP!OwnFileInv, SimP!FdInv
    <2> QED
      BY <2>1, SimulatorFits, SimulatorAssumption
  <1>3. CASE SimP!OpenDir
    BY <1>3 DEF SimP!OpenDir, Begins
  <1>4. CASE SimP!OpenDirFails
    <2>1. MayFail # {}
      BY <1>2, <1>4, SimulatorAssumption DEF SimP!OpenDirFails, SimP!LoopFds
    <2> QED
      BY <1>4, <2>1 DEF SimP!OpenDirFails, SimP!disk, SimP!process, Refused
  <1>5. CASE SimP!SkipEntry
    BY <1>5 DEF SimP!SkipEntry, SimP!disk, Skips
  <1>6. CASE SimP!TakeEntry
    BY <1>6 DEF SimP!TakeEntry, Takes
  <1>7. CASE SimP!EndOfDir
    BY <1>7 DEF SimP!EndOfDir, SimP!Exit, SimP!Gone, Ends
  <1>8. CASE SimP!ReadAigRejected \/ SimP!ReadAigNull
    BY <1>1, <1>8 DEF SimP!ReadAigRejected, SimP!ReadAigNull, SimP!DescriptorsSuffice,
                      SimP!Exit, SimP!Die, SimP!Gone, Ends
  <1>9. CASE SimP!OpenOutFails \/ SimP!RedirectFails
    BY <1>1, <1>9 DEF SimP!OpenOutFails, SimP!RedirectFails, SimP!DescriptorsSuffice,
                      SimP!Exit, SimP!Gone, Ends
  <1>10. CASE SimP!OpenOut
    BY <1>10 DEF SimP!OpenOut, SimP!iteration, Opens
  <1>11. CASE \/ SimP!ReadAig \/ SimP!Redirect \/ SimP!Simulate \/ SimP!FlushStdout
              \/ SimP!RestoreStdout
    BY <1>11 DEF SimP!ReadAig, SimP!Redirect, SimP!Simulate, SimP!AigsimPrint,
                 SimP!AigsimEnd, SimP!AigsimFails, SimP!FlushStdout, SimP!RestoreStdout,
                 SimP!disk, SimP!iteration, Works
  <1>12. CASE SimP!RemoveAig
    BY <1>12 DEF SimP!RemoveAig, Common, Removes
  <1> QED
    BY <1>3, <1>4, <1>5, <1>6, <1>7, <1>8, <1>9, <1>10, <1>11, <1>12
       DEF SimP!Launch, SimP!Step, SimP!Iterate, SimP!Prepare, SimP!Finish

\* Killed, it leaves them alone.
LEMMA SimulatorKill ==
    ASSUME SimulatorKilled
    PROVE  pc' = "off" /\ cur' = NoFile /\ UNCHANGED <<aig, simFiles>> /\ pc \in KillPoints
  BY DEF SimulatorKilled, SimP!Kill, SimP!Die, SimP!Gone

(***************************************************************************)
(* What holds however the script is used.                                  *)
(***************************************************************************)
Base ==
    /\ SimP!ExactInv
    /\ simFiles \subseteq Outs(AigFiles)
    /\ stage \in {"idle", "simulate", "join", "end"}
    /\ stage # "simulate" => pc = "off"
    /\ stage # "join" => joinPc = "off"
    /\ joinPc = "off" => matrix = <<>> /\ sim = 0
    /\ joinPc # "off" => \E S \in SUBSET AigFiles : JoinRun(S)

\* The neuron at hand is one that is still to be simulated.
LEMMA AtHand ==
    ASSUME SimP!ExactInv
    PROVE  /\ aig \subseteq AigFiles
           /\ cur = NoFile <=> pc \in {"off", "readdir"}
           /\ cur \in aig \cup {NoFile} /\ NoFile \notin AigFiles
           /\ toList \cap AigFiles \subseteq aig
  BY SimulatorAssumption
     DEF SimP!ExactInv, SimP!OwnFileInv, SimP!FdInv, SimP!TypeInv, SimP!TypeOK

\* The join deletes whole files, of neurons that have been simulated.
LEMMA JoinKeepsExact ==
    ASSUME SimP!ExactInv, pc = "off", UNCHANGED simPrivate,
           JoinP!JoinLaunch \/ JoinP!JoinStep \/ JoinP!JoinKill
    PROVE  SimP!ExactInv' /\ simFiles' \subseteq simFiles
  <1>1. \/ UNCHANGED <<simFiles, simOut>>
        \/ \E n : simFiles' = simFiles \ {n} /\ simOut' = [simOut EXCEPT ![n] = <<>>]
    BY DEF JoinP!JoinLaunch, JoinP!JoinStep, JoinP!JoinKill, JoinP!ListFolder,
           JoinP!ListFolderFails, JoinP!CountSims, JoinP!CountSimsNothing, JoinP!ReadColumn,
           JoinP!Delete, JoinP!OpenJoined, JoinP!OpenJoinedFails, JoinP!WriteRow,
           JoinP!Return, JoinP!folder
  <1>2. SimP!TypeOK /\ SimP!TypeInv /\ cur = NoFile
    BY DEF SimP!ExactInv, SimP!OwnFileInv, SimP!FdInv, SimP!TypeInv, SimP!TypeOK
  <1>3. /\ simFiles' \subseteq simFiles /\ simOut' \in [OutNames -> Seq(SimP!Lines)]
        /\ \A n \in OutNames : \/ simOut'[n] = simOut[n]
                               \/ simOut'[n] = <<>> /\ n \notin simFiles'
    <2>1. CASE UNCHANGED <<simFiles, simOut>>
      BY <1>2, <2>1 DEF SimP!TypeOK
    <2>2. CASE ~UNCHANGED <<simFiles, simOut>>
      <3>1. PICK m : simFiles' = simFiles \ {m} /\ simOut' = [simOut EXCEPT ![m] = <<>>]
        BY <1>1, <2>2
      <3>2. simOut \in [OutNames -> Seq(SimP!Lines)] /\ <<>> \in Seq(SimP!Lines)
        BY <1>2 DEF SimP!TypeOK
      <3> QED
        BY <3>1, <3>2
    <2> QED
      BY <2>1, <2>2
  <1>4. SimP!TypeInv'
    BY <1>2, <1>3 DEF simPrivate, SimP!TypeInv, SimP!TypeOK, SimP!UsedEnough
  <1>5. SimP!FdInv' /\ SimP!OwnFileInv'
    BY <1>4 DEF simPrivate, SimP!ExactInv, SimP!OwnFileInv, SimP!FdInv, SimP!Ahead
  <1>6. \A n \in AigFiles : SimP!FileExact(n)'
    <2> SUFFICES ASSUME NEW n \in AigFiles PROVE SimP!FileExact(n)'
      OBVIOUS
    <2>1. SimP!FileExact(n) /\ Stem[n] \in OutNames /\ aig' = aig
      BY <1>2, SimulatorAssumption DEF SimP!ExactInv, simPrivate
    <2>2. SimP!Expected(n)' = SimP!Expected(n)
      BY SimP!Constants, SimulatorAssumption, SimulatorFits
    <2> QED
      BY <1>3, <2>1, <2>2 DEF SimP!FileExact
  <1> QED
    BY <1>3, <1>5, <1>6 DEF simPrivate, SimP!ExactInv

LEMMA BaseInit == Init => Base
  <1> SUFFICES ASSUME Init PROVE Base
    OBVIOUS
  <1>1. SimP!Init
    BY SameSimulator DEF Init
  <1>2. SimP!ExactInv
    BY <1>1, SimP!ExactInit, SimulatorAssumption, SimulatorFits
  <1>3. joinPc = "off" /\ matrix = <<>> /\ sim = 0 /\ stage = "idle"
    BY SameJoin DEF Init, JoinP!JoinInit
  <1>4. pc = "off" /\ simFiles = {}
    BY <1>1 DEF SimP!Init, SimP!DiskInit, SimP!ProcessInit
  <1> QED
    BY <1>2, <1>3, <1>4 DEF Base

LEMMA BaseNext ==
    ASSUME Common, Base, [Next]_vars, JoinStarts => Ready
    PROVE  Base'
  <1>1. CASE ScriptStarts \/ SimulatorSteps \/ SimulatorKilled
    <2>1. SimP!Next
      BY <1>1 DEF ScriptStarts, SimulatorSteps, SimulatorKilled, SimP!Next
    <2>2. SimP!ExactInv'
      BY <2>1, SimP!ExactNext, SimulatorAssumption, SimulatorFits DEF Base
    <2>3. /\ joinPc = "off" /\ joinPc' = "off" /\ matrix' = matrix /\ sim' = sim
          /\ stage' \in {"simulate", "idle"} /\ (stage' = "idle" => pc' = "off")
      BY <1>1, SimulatorKill
         DEF ScriptStarts, SimulatorSteps, SimulatorKilled, joinPrivate, Base
    <2>4. simFiles' = simFiles \/ (simFiles' = simFiles \cup {Stem[cur]} /\ cur \in AigFiles)
      <3>1. CASE SimulatorKilled
        BY <3>1, SimulatorKill
      <3>2. CASE ScriptStarts \/ SimulatorSteps
        <4>1. Begins \/ Refused \/ Skips \/ Takes \/ Opens \/ Works \/ Removes \/ Ends
          BY <3>2, SimulatorMoves DEF ScriptStarts, SimulatorSteps, Base
        <4>2. cur \in AigFiles \/ pc # "open"
          BY AtHand DEF Base
        <4> QED
          BY <4>1, <4>2 DEF Begins, Refused, Skips, Takes, Opens, Works, Removes, Ends
      <3> QED
        BY <1>1, <3>1, <3>2
    <2>5. simFiles' \subseteq Outs(AigFiles)
      BY <2>4 DEF Base, Outs
    <2> QED
      BY <2>2, <2>3, <2>5 DEF Base, Outs
  <1>2. CASE JoinStarts \/ JoinSteps \/ JoinKilled
    <2>1. pc = "off" /\ pc' = "off" /\ stage' \in {"join", "idle"}
      BY <1>2 DEF JoinStarts, JoinSteps, JoinKilled, Base, simPrivate
    <2>2. SimP!ExactInv' /\ simFiles' \subseteq simFiles
      BY <1>2, <2>1, JoinKeepsExact DEF JoinStarts, JoinSteps, JoinKilled, Base
    <2>3. /\ stage' # "join" => joinPc' = "off"
          /\ joinPc' = "off" => matrix' = <<>> /\ sim' = 0
          /\ joinPc' # "off" => \E S \in SUBSET AigFiles : JoinRun(S)'
      <3>1. CASE JoinStarts
        <4>1. PICK S \in SUBSET AigFiles : simFiles = Outs(S)
          <5>1. simFiles = Outs({f \in AigFiles : Stem[f] \in simFiles})
            BY DEF Base, Outs
          <5> QED
            BY <5>1
        <4>2. CASE JoinP!ListFolder
          <5>1. JoinRun(S)' /\ joinPc' = "count"
            BY <3>1, <4>1, <4>2, JoinListed DEF Base, JoinStarts
          <5> QED
            BY <3>1, <5>1 DEF JoinStarts
        <4>3. CASE JoinP!ListFolderFails
          BY <3>1, <4>3 DEF JoinP!ListFolderFails, JoinP!locals, JoinStarts, Base
        <4> QED
          BY <3>1, <4>2, <4>3 DEF JoinStarts, JoinP!JoinLaunch
      <3>2. CASE JoinSteps
        <4>1. joinPc # "off"
          BY <3>2 DEF JoinSteps, JoinP!JoinStep, JoinP!CountSims, JoinP!CountSimsNothing,
                      JoinP!ReadColumn, JoinP!Delete, JoinP!OpenJoined,
                      JoinP!OpenJoinedFails, JoinP!WriteRow, JoinP!Return
        <4>2. PICK S \in SUBSET AigFiles : JoinRun(S)
          BY <4>1 DEF Base
        <4>3. JoinRun(S)' \/ JoinEnd(S)
          BY <3>2, <4>2, JoinRunNext DEF Base
        <4>4. JoinRun(S)' => stage' = "join" /\ joinPc' # "off"
          BY DEF JoinRun
        <4> QED
          BY <3>2, <4>3, <4>4 DEF JoinEnd, JoinSteps
      <3>3. CASE JoinKilled
        BY <3>3 DEF JoinKilled, JoinP!JoinKill, JoinP!JoinGone
      <3> QED
        BY <1>2, <3>1, <3>2, <3>3
    <2>4. simFiles' \subseteq Outs(AigFiles)
      BY <2>2 DEF Base
    <2> QED
      BY <2>1, <2>2, <2>3, <2>4 DEF Base, Outs
  <1>3. CASE EndScript \/ UNCHANGED vars
    <2>1. /\ UNCHANGED <<simFiles, simOut, simPrivate, joinPrivate>>
          /\ \/ stage' = stage
             \/ stage' = "end" /\ stage = "join" /\ joinPc = "off"
      BY <1>3 DEF EndScript, vars
    <2>2. SimP!ExactInv'
      <3>1. UNCHANGED SimP!simVars
        BY <2>1 DEF simPrivate, SimP!simVars
      <3> QED
        BY <3>1, SimP!ExactNext, SimulatorAssumption, SimulatorFits DEF Base
    <2>3. joinPc # "off" => \E S \in SUBSET AigFiles : JoinRun(S)'
      <3> SUFFICES ASSUME joinPc # "off" PROVE \E S \in SUBSET AigFiles : JoinRun(S)'
        OBVIOUS
      <3>1. PICK S \in SUBSET AigFiles : JoinRun(S)
        BY DEF Base
      <3>2. JoinRun(S)'
        BY <2>1, <3>1, Constants DEF JoinRun, Kept, Ready, simPrivate, joinPrivate
      <3> QED
        BY <3>2
    <2> QED
      BY <2>1, <2>2, <2>3 DEF Base, simPrivate, joinPrivate, Outs
  <1> QED
    BY <1>1, <1>2, <1>3, ScriptSteps

(***************************************************************************)
(* A whole layer.  The joined file is empty while the output files are     *)
(* collected and stacked, then it grows row by row, and once it is         *)
(* complete there is nothing left that could change it.                    *)
(***************************************************************************)
\* Every call works, and the join is stopped only before it deletes anything.
WholeLayer ==
    /\ Common /\ AigFiles # {}
    /\ Corrupt = {} /\ MayFail = {} /\ JoinMayFail = {}
    /\ JoinKillPoints \subseteq {"count"}

Collecting ==
    /\ joined = <<>> /\ joinPc \in {"off", "count"} /\ stage # "end"
    /\ SimP!PresentInv
    /\ stage = "join" => joinPc = "count"
    /\ joinPc = "count" => JoinRun(AigFiles)
Stacking == joined = <<>> /\ joinPc \in {"read", "delete"} /\ JoinRun(AigFiles)
Writing  == joinPc = "write" /\ JoinRun(AigFiles)
Done ==
    /\ joined = Target /\ joinPc \in {"off", "count"}
    /\ aig = {} /\ simFiles = {}
    /\ joinPc = "count" => JoinRun({})

\* A run of the simulator comes to all AIGs there are.
ScanInv ==
    /\ pc # "off" => aig \ {cur} \subseteq toList
    /\ (stage = "simulate" /\ pc = "off") \/ stage \in {"join", "end"} => aig = {}

WholeInv == Base /\ ScanInv /\ (Collecting \/ Stacking \/ Writing \/ Done)

LEMMA ScanNext ==
    ASSUME WholeLayer, Base, ScanInv, [Next]_vars
    PROVE  ScanInv' /\ (JoinStarts => Ready)
  <1>1. CASE ScriptStarts \/ SimulatorSteps
    <2>1. Begins \/ Refused \/ Skips \/ Takes \/ Opens \/ Works \/ Removes \/ Ends
      BY <1>1, SimulatorMoves DEF ScriptStarts, SimulatorSteps, Base, WholeLayer
    <2>2. /\ aig \subseteq AigFiles /\ NoFile \notin AigFiles
          /\ cur = NoFile <=> pc \in {"off", "readdir"}
          /\ stage' = "simulate" /\ MayFail = {} /\ Corrupt = {}
      BY <1>1, AtHand DEF ScriptStarts, SimulatorSteps, Base, WholeLayer
    <2>3. pc' # "off" => aig' \ {cur'} \subseteq toList'
      BY <2>1, <2>2
         DEF ScanInv, Begins, Refused, Skips, Takes, Opens, Works, Removes, Ends
    <2>4. pc' = "off" => aig' = {}
      BY <2>1, <2>2
         DEF ScanInv, Begins, Refused, Skips, Takes, Opens, Works, Removes, Ends
    <2> QED
      BY <1>1, <2>2, <2>3, <2>4 DEF ScanInv, JoinStarts, ScriptStarts, SimulatorSteps,
         joinPrivate, JoinP!JoinLaunch, JoinP!ListFolder, JoinP!ListFolderFails
  <1>2. CASE SimulatorKilled
    BY <1>2, SimulatorKill DEF SimulatorKilled, ScanInv, JoinStarts
  <1>3. CASE JoinStarts \/ JoinSteps \/ JoinKilled
    BY <1>3 DEF JoinStarts, JoinSteps, JoinKilled, ScanInv, Base, Ready, simPrivate
  <1>4. CASE EndScript \/ UNCHANGED vars
    BY <1>4 DEF EndScript, JoinStarts, ScanInv, Base, simPrivate, vars
  <1> QED
    BY <1>1, <1>2, <1>3, <1>4, ScriptSteps

\* What PresentInv says does not depend on the join's own variables.
LEMMA PresentKept ==
    ASSUME SimP!PresentInv, SimP!ExactInv', UNCHANGED <<aig, pc, cur, simFiles>>
    PROVE  SimP!PresentInv'
  BY DEF SimP!PresentInv, SimP!ExactInv, SimP!OwnFileInv, SimP!FdInv

LEMMA WholeNext == WholeLayer => (WholeInv /\ [Next]_vars => WholeInv')
  <1> SUFFICES ASSUME WholeLayer, WholeInv, [Next]_vars
               PROVE  Collecting' \/ Stacking' \/ Writing' \/ Done'
    <2>1. ASSUME WholeLayer, WholeInv, [Next]_vars
          PROVE  Base' /\ ScanInv'
      BY <2>1, ScanNext, BaseNext DEF WholeInv, WholeLayer
    <2> QED
      BY <2>1 DEF WholeInv
  <1>1. Base /\ Base' /\ ScanInv /\ Common /\ SimP!ExactInv /\ SimP!ExactInv'
        /\ (JoinStarts => Ready)
    BY ScanNext, BaseNext DEF WholeInv, WholeLayer, Base
  <1>2. /\ NumVectors \in Nat /\ AigFiles \in SUBSET AigFiles /\ {} \in SUBSET AigFiles
        /\ AigFiles # {} /\ JoinMayFail = {} /\ SimP!StemsDiffer
        /\ Target = RowsOf(AigFiles) /\ Target' = Target
    BY SimulatorAssumption, Constants DEF WholeLayer, Common, Target
  <1>3. CASE ScriptStarts \/ SimulatorSteps \/ SimulatorKilled
    <2>1. /\ joinPc = "off" /\ joinPc' = "off" /\ joined' = joined
          /\ stage' \in {"simulate", "idle"}
      BY <1>1, <1>3 DEF ScriptStarts, SimulatorSteps, SimulatorKilled, joinPrivate, Base
    <2>2. CASE Collecting
      <3>1. SimP!Next
        BY <1>3 DEF ScriptStarts, SimulatorSteps, SimulatorKilled, SimP!Next
      <3>2. SimP!PresentInv'
        BY <2>2, <3>1, SimP!PresentNext, SimulatorAssumption, SimulatorFits DEF Collecting
      <3> QED
        BY <2>1, <2>2, <3>2 DEF Collecting
    <2>3. CASE Done
      <3>1. cur = NoFile /\ pc \in {"off", "readdir"} /\ aig = {}
        BY <1>1, <2>3, AtHand DEF Done
      <3>2. UNCHANGED <<aig, simFiles>>
        <4>1. CASE SimulatorKilled
          BY <4>1, SimulatorKill
        <4>2. CASE ScriptStarts \/ SimulatorSteps
          <5>1. Begins \/ Refused \/ Skips \/ Takes \/ Opens \/ Works \/ Removes \/ Ends
            BY <1>1, <4>2, SimulatorMoves DEF ScriptStarts, SimulatorSteps
          <5> QED
            BY <3>1, <5>1
               DEF Begins, Refused, Skips, Takes, Opens, Works, Removes, Ends
        <4> QED
          BY <1>3, <4>1, <4>2
      <3> QED
        BY <1>2, <2>1, <2>3, <3>2 DEF Done
    <2> QED
      BY <2>1, <2>2, <2>3 DEF WholeInv, Stacking, Writing
  <1>4. CASE JoinStarts
    <2>1. /\ joinPc = "off" /\ matrix = <<>> /\ sim = 0 /\ pc = "off" /\ aig = {} /\ JoinP!ListFolder
          /\ UNCHANGED <<aig, pc, cur>> /\ stage' = "join"
      BY <1>1, <1>2, <1>4 DEF JoinStarts, Base, ScanInv, JoinP!JoinLaunch,
                              JoinP!ListFolderFails, simPrivate
    <2>2. UNCHANGED <<simFiles, joined>> /\ joinPc' = "count"
      BY <2>1 DEF JoinP!ListFolder
    <2>3. CASE Collecting
      <3>1. simFiles = Outs(AigFiles)
        BY <1>1, <2>1, <2>3 DEF Collecting, SimP!PresentInv, Base, Outs
      <3>2. JoinRun(AigFiles)'
        BY <1>1, <1>2, <1>4, <2>1, <3>1, JoinListed
      <3>3. SimP!PresentInv'
        BY <1>1, <2>1, <2>2, <2>3, PresentKept DEF Collecting
      <3> QED
        BY <2>1, <2>2, <2>3, <3>2, <3>3 DEF Collecting
    <2>4. CASE Done
      <3>1. simFiles = Outs({})
        BY <2>4 DEF Done, Outs
      <3>2. JoinRun({})'
        BY <1>1, <1>2, <1>4, <2>1, <3>1, JoinListed
      <3> QED
        BY <1>2, <2>1, <2>2, <2>4, <3>2 DEF Done
    <2> QED
      BY <2>1, <2>3, <2>4 DEF WholeInv, Stacking, Writing
  <1>5. CASE JoinSteps
    <2>1. joinPc # "off" /\ aig = {} /\ UNCHANGED <<aig, pc, cur>> /\ stage' = "join"
      BY <1>1, <1>5
         DEF JoinSteps, ScanInv, simPrivate, JoinP!JoinStep, JoinP!CountSims,
             JoinP!CountSimsNothing, JoinP!ReadColumn, JoinP!Delete, JoinP!OpenJoined,
             JoinP!OpenJoinedFails, JoinP!WriteRow, JoinP!Return
    <2>2. CASE Collecting \/ Stacking
      <3>1. JoinRun(AigFiles) /\ joinPc \in {"count", "read", "delete"} /\ joined = <<>>
        BY <2>1, <2>2 DEF Collecting, Stacking
      <3>2. /\ JoinRun(AigFiles)' /\ joinPc' # "count"
            /\ joinPc' # "write" => joined' = joined
        BY <1>1, <1>2, <1>5, <3>1, JoinRunNext
      <3>3. joinPc' \in {"read", "delete", "write"}
        BY <3>2 DEF JoinRun
      <3> QED
        BY <3>1, <3>2, <3>3 DEF Stacking, Writing
    <2>3. CASE Writing
      <3>1. \/ JoinRun(AigFiles)' /\ joinPc' = "write"
            \/ JoinEnd(AigFiles)
        BY <1>1, <1>2, <1>5, <2>3, JoinRunNext DEF Writing
      <3>2. CASE JoinEnd(AigFiles)
        <4>1. \A k \in 1..Len(names) : names[k] \notin simFiles
          BY <1>1, <1>2, <2>3, Columns DEF Writing, JoinRun, Kept
        <4>2. simFiles = {}
          <5>1. names = ColumnsOf(AigFiles) /\ simFiles \subseteq Outs(AigFiles)
            BY <2>3 DEF Writing, JoinRun
          <5>2. {names[k] : k \in 1..Len(names)} = Outs(AigFiles)
            BY <1>2, <5>1, Columns
          <5> QED
            BY <4>1, <5>1, <5>2
        <4> QED
          BY <1>2, <2>1, <2>3, <3>2, <4>2 DEF JoinEnd, Done, Writing
      <3> QED
        BY <3>1, <3>2 DEF Writing
    <2>4. CASE Done
      <3>1. JoinRun({}) /\ joinPc = "count"
        BY <2>1, <2>4 DEF Done
      <3>2. ~(JoinRun({})' /\ joinPc' # "count")
        <4>1. ColumnsOf({}) = <<>> /\ ColumnsOf({})' = ColumnsOf({})
          BY <1>2, Columns, Constants
        <4> QED
          BY <4>1 DEF JoinRun
      <3>3. JoinEnd({})
        BY <1>1, <1>2, <1>5, <3>1, <3>2, JoinRunNext
      <3> QED
        BY <1>2, <2>1, <2>4, <3>3 DEF Done, JoinEnd
    <2> QED
      BY <2>2, <2>3, <2>4 DEF WholeInv
  <1>6. CASE JoinKilled
    <2>1. /\ joinPc = "count" /\ joinPc' = "off" /\ stage' = "idle"
          /\ UNCHANGED <<aig, pc, cur, simFiles, joined>>
      BY <1>6 DEF JoinKilled, JoinP!JoinKill, JoinP!JoinGone, WholeLayer, simPrivate
    <2>2. CASE Collecting
      <3>1. SimP!PresentInv'
        BY <1>1, <2>1, <2>2, PresentKept DEF Collecting
      <3> QED
        BY <2>1, <2>2, <3>1 DEF Collecting
    <2>3. CASE Done
      BY <1>2, <2>1, <2>3 DEF Done
    <2> QED
      BY <2>1, <2>2, <2>3 DEF WholeInv, Stacking, Writing
  <1>7. CASE EndScript
    BY <1>2, <1>7 DEF EndScript, WholeInv, Collecting, Stacking, Writing, Done, simPrivate,
                      joinPrivate
  <1>8. CASE UNCHANGED vars
    <2>1. UNCHANGED <<aig, pc, cur, simFiles, joinPc, names, numSims, matrix, sim, joined, stage>>
      BY <1>8 DEF vars, simPrivate, joinPrivate
    <2>2. \A S \in SUBSET AigFiles : JoinRun(S) => JoinRun(S)'
      BY <2>1, Constants DEF JoinRun, Kept, Ready
    <2>3. SimP!PresentInv => SimP!PresentInv'
      BY <1>1, <2>1, PresentKept
    <2> QED
      BY <1>2, <2>1, <2>2, <2>3 DEF WholeInv, Collecting, Stacking, Writing, Done
  <1> QED
    BY <1>3, <1>4, <1>5, <1>6, <1>7, <1>8, ScriptSteps

LEMMA WholeInit == Init => WholeInv
  <1> SUFFICES ASSUME Init PROVE WholeInv
    OBVIOUS
  <1>1. SimP!Init /\ JoinP!JoinInit /\ stage = "idle"
    BY SameSimulator, SameJoin DEF Init
  <1>2. SimP!PresentInv
    BY <1>1, SimP!TypeInvInit, SimulatorAssumption, SimulatorFits
       DEF SimP!PresentInv, SimP!Init, SimP!DiskInit, SimP!ProcessInit
  <1>3. pc = "off" /\ joined = <<>> /\ joinPc = "off"
    BY <1>1 DEF SimP!Init, SimP!ProcessInit, JoinP!JoinInit
  <1> QED
    BY <1>1, <1>2, <1>3, BaseInit DEF WholeInv, ScanInv, Collecting

\* workflow.sh:8-9: when the script has ended the joined file is the output of
\* the layer, in one go or after interruptions.
THEOREM JoinedAlwaysCorrect ==
    ASSUME WholeLayer
    PROVE  Spec => []JoinedCorrect
  <1>1. Init => WholeInv
    BY WholeInit
  <1>2. WholeInv /\ [Next]_vars => WholeInv'
    BY WholeNext
  <1>3. WholeInv => JoinedCorrect
    BY DEF WholeInv, JoinedCorrect, Base, Collecting, Stacking, Writing, Done, JoinRun
  <1> QED
    BY <1>1, <1>2, <1>3, PTL DEF Spec

\* The steps that change the folder of AIGs or the joined file are those of Layer.
LEMMA StepRefines ==
    WholeLayer => (WholeInv /\ [Next]_vars => [Abstract!Next]_(Abstract!layerVars))
  <1> SUFFICES ASSUME WholeLayer, WholeInv, [Next]_vars
               PROVE  \/ Abstract!Evaluate \/ Abstract!Combine
                      \/ UNCHANGED <<aig, joined>>
    BY DEF Abstract!Next, Abstract!layerVars
  <1>1. Base /\ Common /\ SimP!ExactInv /\ AigFiles \in SUBSET AigFiles
    BY DEF WholeInv, WholeLayer, Base
  <1>2. CASE ScriptStarts \/ SimulatorSteps
    <2>1. joined' = joined /\ cur \in aig \cup {NoFile}
      BY <1>1, <1>2, AtHand DEF ScriptStarts, SimulatorSteps, joinPrivate
    <2>2. Begins \/ Refused \/ Skips \/ Takes \/ Opens \/ Works \/ Removes \/ Ends
      BY <1>1, <1>2, SimulatorMoves DEF ScriptStarts, SimulatorSteps
    <2>3. CASE Removes
      <3>1. cur \in aig /\ aig' = aig \ {cur}
        BY <1>1, <2>1, <2>3, AtHand DEF Removes
      <3> QED
        BY <2>1, <3>1 DEF Abstract!Evaluate
    <2> QED
      BY <2>1, <2>2, <2>3 DEF Begins, Refused, Skips, Takes, Opens, Works, Ends
  <1>3. CASE SimulatorKilled
    BY <1>3, SimulatorKill DEF SimulatorKilled, joinPrivate
  <1>4. CASE JoinStarts \/ JoinKilled
    BY <1>4 DEF JoinStarts, JoinKilled, JoinP!JoinLaunch, JoinP!ListFolder,
                JoinP!ListFolderFails, JoinP!JoinKill, simPrivate
  <1>5. CASE JoinSteps
    <2>1. aig = {} /\ aig' = aig
      BY <1>5 DEF JoinSteps, WholeInv, ScanInv, simPrivate
    <2>2. CASE Collecting \/ Stacking
      <3>1. joinPc # "off" /\ joinPc # "write"
        BY <1>5, <2>2 DEF JoinSteps, Collecting, Stacking
      <3>2. joined' = joined
        BY <1>5, <2>2, <3>1
           DEF JoinSteps, Collecting, Stacking, JoinP!JoinStep, JoinP!CountSims,
               JoinP!CountSimsNothing, JoinP!ReadColumn, JoinP!Delete, JoinP!OpenJoined,
               JoinP!OpenJoinedFails, JoinP!WriteRow, JoinP!Return
      <3> QED
        BY <2>1, <3>2
    <2>3. CASE Writing
      <3>1. \/ /\ Len(joined) < NumVectors
               /\ joined' = Append(joined, RowsOf(AigFiles)[Len(joined) + 1])
            \/ JoinEnd(AigFiles)
        BY <1>1, <1>5, <2>3, JoinRunNext DEF Writing
      <3>2. Len(Target) = NumVectors /\ Target = RowsOf(AigFiles)
        BY <1>1, RowsOfShape DEF Target, Common
      <3> QED
        BY <2>1, <3>1, <3>2 DEF JoinEnd, Abstract!Combine
    <2>4. CASE Done
      <3>1. joined' = joined
        BY <1>5, <2>4, Columns
           DEF JoinSteps, Done, JoinRun, JoinP!JoinStep, JoinP!CountSims,
               JoinP!CountSimsNothing, JoinP!ReadColumn, JoinP!Delete, JoinP!OpenJoined,
               JoinP!OpenJoinedFails, JoinP!WriteRow, JoinP!Return
      <3> QED
        BY <2>1, <3>1
    <2> QED
      BY <2>2, <2>3, <2>4 DEF WholeInv
  <1>6. CASE EndScript \/ UNCHANGED vars
    BY <1>6 DEF EndScript, vars, simPrivate, joinPrivate
  <1> QED
    BY <1>2, <1>3, <1>4, <1>5, <1>6, ScriptSteps

\* A pass over the layer evaluates each neuron once and then lets the rows of the
\* next layer's stimulus appear in their order: the safety part of RefinesLayer.
THEOREM PassRefinesLayer ==
    ASSUME WholeLayer
    PROVE  Spec => Abstract!SafeSpec
  <1>1. Init => Abstract!Init
    BY SameSimulator, SameJoin
       DEF Init, SimP!Init, SimP!DiskInit, JoinP!JoinInit, Abstract!Init
  <1>2. Init => WholeInv
    BY WholeInit
  <1>3. WholeInv /\ [Next]_vars => WholeInv'
    BY WholeNext
  <1>4. WholeInv /\ [Next]_vars => [Abstract!Next]_(Abstract!layerVars)
    BY StepRefines
  <1> QED
    BY <1>1, <1>2, <1>3, <1>4, PTL DEF Spec, Abstract!SafeSpec

(***************************************************************************)
(* A part of a layer.  No output file exists of a neuron that is still to  *)
(* be simulated, unless it is at hand: whatever the join finds is complete.*)
(***************************************************************************)
\* The simulator fails or is killed only before it creates the output file.
PartialLayer ==
    /\ Common /\ "dup2" \notin MayFail
    /\ KillPoints \subseteq {"readdir", "read", "open"}

TrueRows == joined = <<>> \/ \E S \in SUBSET AigFiles : joined = RowsOf(S)

PartialInv ==
    /\ Base
    /\ \A f \in aig : Stem[f] \in simFiles => f = cur /\ pc \notin {"read", "open"}
    /\ joinPc # "write" => TrueRows

LEMMA PartialNext == PartialLayer => (PartialInv /\ [Next]_vars => PartialInv')
  <1> SUFFICES ASSUME PartialLayer, PartialInv, [Next]_vars
               PROVE  PartialInv'
    OBVIOUS
  <1>1. /\ Common /\ Base /\ SimP!ExactInv /\ aig \subseteq AigFiles /\ NoFile \notin AigFiles
        /\ cur = NoFile <=> pc \in {"off", "readdir"}
        /\ cur \in aig \cup {NoFile} /\ SimP!StemsDiffer
    BY AtHand DEF PartialInv, PartialLayer, Base, Common
  <1>2. JoinStarts => Ready
    BY <1>1 DEF PartialInv, JoinStarts, Ready
  <1>3. Base'
    BY <1>1, <1>2, BaseNext
  <1>4. CASE ScriptStarts \/ SimulatorSteps
    <2>1. Begins \/ Refused \/ Skips \/ Takes \/ Opens \/ Works \/ Removes \/ Ends
      BY <1>1, <1>4, SimulatorMoves DEF ScriptStarts, SimulatorSteps
    <2>2. \A f \in aig' : Stem[f] \in simFiles' => f = cur' /\ pc' \notin {"read", "open"}
      <3>1. CASE Opens
        BY <1>1, <3>1 DEF PartialInv, Opens, SimP!StemsDiffer
      <3>2. CASE ~Opens
        BY <1>1, <2>1, <3>2 DEF PartialInv, PartialLayer,
           Begins, Refused, Skips, Takes, Works, Removes, Ends
      <3> QED
        BY <3>1, <3>2
    <2> QED
      BY <1>3, <1>4, <2>2, Constants
         DEF ScriptStarts, SimulatorSteps, joinPrivate, PartialInv, TrueRows
  <1>5. CASE SimulatorKilled
    BY <1>1, <1>3, <1>5, SimulatorKill, Constants
       DEF SimulatorKilled, joinPrivate, PartialInv, PartialLayer, TrueRows
  <1>6. CASE JoinStarts \/ JoinSteps \/ JoinKilled
    <2>1. UNCHANGED <<aig, cur, pc>> /\ pc = "off"
      BY <1>1, <1>6 DEF JoinStarts, JoinSteps, JoinKilled, simPrivate, Base
    <2>2. simFiles' \subseteq simFiles
      BY <1>1, <1>6, <2>1, JoinKeepsExact DEF JoinStarts, JoinSteps, JoinKilled
    <2>3. joinPc' # "write" => TrueRows'
      <3>1. CASE joined' = joined /\ joinPc # "write"
        BY <3>1, Constants DEF PartialInv, TrueRows
      <3>2. CASE JoinStarts
        BY <3>1, <3>2 DEF JoinStarts, JoinP!JoinLaunch, JoinP!ListFolder,
                          JoinP!ListFolderFails
      <3>3. CASE JoinSteps
        <4>1. joinPc # "off"
          BY <3>3 DEF JoinSteps, JoinP!JoinStep, JoinP!CountSims, JoinP!CountSimsNothing,
                      JoinP!ReadColumn, JoinP!Delete, JoinP!OpenJoined,
                      JoinP!OpenJoinedFails, JoinP!WriteRow, JoinP!Return
        <4>2. PICK S \in SUBSET AigFiles : JoinRun(S)
          BY <1>1, <4>1 DEF Base
        <4>3. \/ joinPc' = "write"
              \/ joined' = joined /\ (joinPc = "write" => joined = RowsOf(S))
          BY <1>1, <3>3, <4>2, JoinRunNext DEF JoinEnd
        <4> QED
          BY <3>1, <4>3, Constants DEF TrueRows
      <3>4. CASE JoinKilled
        BY <1>1, <3>1, <3>4 DEF JoinKilled, JoinP!JoinKill, Common
      <3> QED
        BY <1>6, <3>2, <3>3, <3>4
    <2> QED
      BY <1>3, <2>1, <2>2, <2>3 DEF PartialInv
  <1>7. CASE EndScript \/ UNCHANGED vars
    <2>1. UNCHANGED <<aig, cur, pc, simFiles, joined, joinPc>>
      BY <1>7 DEF EndScript, vars, simPrivate, joinPrivate
    <2> QED
      BY <1>3, <2>1, Constants DEF PartialInv, TrueRows
  <1> QED
    BY <1>4, <1>5, <1>6, <1>7, ScriptSteps

\* What the script leaves in the joined file when a program fails or is stopped
\* early is incomplete, never wrong.
THEOREM PartialAlwaysTrue ==
    ASSUME PartialLayer
    PROVE  Spec => []PartialButTrue
  <1>1. Init => PartialInv
    <2> SUFFICES ASSUME Init PROVE PartialInv
      OBVIOUS
    <2>1. SimP!Init /\ JoinP!JoinInit
      BY SameSimulator, SameJoin DEF Init
    <2>2. simFiles = {} /\ joined = <<>>
      BY <2>1 DEF SimP!Init, SimP!DiskInit, JoinP!JoinInit
    <2> QED
      BY <2>2, BaseInit DEF PartialInv, TrueRows
  <1>2. PartialInv /\ [Next]_vars => PartialInv'
    BY PartialNext
  <1>3. PartialInv => PartialButTrue
    BY DEF PartialInv, PartialButTrue, Base, TrueRows
  <1> QED
    BY <1>1, <1>2, <1>3, PTL DEF Spec
=============================================================================
