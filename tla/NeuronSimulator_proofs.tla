----------------------- MODULE NeuronSimulator_proofs -----------------------
(***************************************************************************)
(* Theorems about networkSimulatorAiger.c (module NeuronSimulator).        *)
(***************************************************************************)
EXTENDS NeuronSimulator, FiniteSetTheorems, SequenceTheorems, TLAPS

(***************************************************************************)
(* Lines, and the effect of the two ways of writing them.                  *)
(***************************************************************************)
\* Every line the programs print is a line.
LEMMA LineTypes ==
    /\ \A f \in AigFiles : Banner(f) \in Seq(Lines)
    /\ \A f \in AigFiles, s \in 1..NumVectors : <<Row(f, s)>> \in Seq(Lines)
    /\ Trailer \in Seq(Lines)
    /\ ErrorLine \in Seq(Lines)
    /\ <<>> \in Seq(Lines)
  <1>1. \A v \in Int, k \in LineKinds : [kind |-> k, val |-> v] \in Lines
    BY DEF Lines
  <1>2. /\ "row" \in LineKinds /\ "trailer" \in LineKinds /\ "blank" \in LineKinds
        /\ "banner" \in LineKinds /\ "error" \in LineKinds
    BY DEF LineKinds
  <1>3. \A f \in AigFiles : Banner(f) \in Seq(Lines)
    BY <1>1, <1>2, NeuronAssumption DEF Banner
  <1>4. \A f \in AigFiles, s \in 1..NumVectors : <<Row(f, s)>> \in Seq(Lines)
    BY <1>1, <1>2, NeuronAssumption DEF Row
  <1>5. Trailer \in Seq(Lines)
    BY <1>1, <1>2 DEF Trailer
  <1>6. ErrorLine \in Seq(Lines)
    BY <1>1, <1>2 DEF ErrorLine
  <1>7. <<>> \in Seq(Lines)
    OBVIOUS
  <1> QED
    BY <1>3, <1>4, <1>5, <1>6, <1>7

\* Appending lines to a file keeps the type of the output folder.
LEMMA WriteToType ==
    ASSUME simOut \in [OutNames -> Seq(Lines)],
           NEW target, NEW lines \in Seq(Lines), WriteTo(target, lines)
    PROVE  simOut' \in [OutNames -> Seq(Lines)]
  <1>1. \A n \in OutNames : simOut[n] \o lines \in Seq(Lines)
    OBVIOUS
  <1> QED
    BY <1>1 DEF WriteTo

\* printf keeps the types of the output folder and of the stdio buffer.
LEMMA EmitType ==
    ASSUME simOut \in [OutNames -> Seq(Lines)], buffer \in Seq(Lines),
           NEW lines \in Seq(Lines), Emit(lines)
    PROVE  simOut' \in [OutNames -> Seq(Lines)] /\ buffer' \in Seq(Lines)
  <1>1. CASE Tty
    BY <1>1, WriteToType DEF Emit
  <1>2. CASE ~Tty
    <2>1. buffer' = buffer \o lines /\ UNCHANGED simOut
      BY <1>2, Zenon DEF Emit
    <2> QED
      BY <2>1
  <1> QED
    BY <1>1, <1>2

(***************************************************************************)
(* Type correctness.  It needs to know that descriptors are not closed     *)
(* more often than they are opened.                                        *)
(***************************************************************************)
UsedEnough ==
    /\ pc \in {"readdir", "read", "remove"} => used >= 4
    /\ pc = "open" => used >= 5
    /\ pc \in {"redirect", "aigsim", "flush", "restore"} => used >= 6

TypeInv == TypeOK /\ UsedEnough

\* A process that has ended leaves every variable with its type.
LEMMA GoneType ==
    ASSUME TypeInv, Gone, UNCHANGED <<aig, simFiles, runs>>,
           simOut' \in [OutNames -> Seq(Lines)]
    PROVE  TypeInv'
  BY NeuronAssumption, EnvironmentAssumption
     DEF TypeInv, TypeOK, UsedEnough, Gone, ProgramPoints

\* Leaving by exit(): the buffer is flushed before.
LEMMA ExitType ==
    ASSUME TypeInv, NEW lines \in Seq(Lines), Exit(lines),
           UNCHANGED <<aig, simFiles, runs>>
    PROVE  TypeInv'
  <1>1. buffer \o lines \in Seq(Lines)
    BY DEF TypeInv, TypeOK
  <1>2. simOut' \in [OutNames -> Seq(Lines)]
    BY <1>1, WriteToType DEF TypeInv, TypeOK, Exit
  <1> QED
    BY <1>2, GoneType DEF Exit

\* Leaving by a signal: nothing is written.
LEMMA DieType ==
    ASSUME TypeInv, Die, UNCHANGED <<aig, simFiles, runs>>
    PROVE  TypeInv'
  BY GoneType DEF TypeInv, TypeOK, Die

LEMMA TypeInvInit == Init => TypeInv
  BY FilesAssumption, NeuronAssumption, EnvironmentAssumption
     DEF Init, DiskInit, ProcessInit, TypeInv, TypeOK, UsedEnough, ProgramPoints

LEMMA TypeInvNext == TypeInv /\ [Next]_simVars => TypeInv'
  <1> SUFFICES ASSUME TypeInv, [Next]_simVars
               PROVE  TypeInv'
    OBVIOUS
  <1> USE FilesAssumption, NeuronAssumption, EnvironmentAssumption
  <1>1. CASE OpenDir
    BY <1>1 DEF OpenDir, TypeInv, TypeOK, UsedEnough, ProgramPoints, LoopFds
  <1>2. CASE OpenDirFails
    BY <1>2 DEF OpenDirFails, TypeInv, TypeOK, UsedEnough, ProgramPoints,
                disk, process
  <1>3. CASE SkipEntry
    BY <1>3 DEF SkipEntry, TypeInv, TypeOK, UsedEnough, ProgramPoints, disk
  <1>4. CASE TakeEntry
    <2>1. PICK f \in toList \cap AigFiles :
             toList' = toList \ {f} /\ cur' = f /\ Emit(Banner(f))
      BY <1>4 DEF TakeEntry
    <2>2. simOut' \in [OutNames -> Seq(Lines)] /\ buffer' \in Seq(Lines)
      BY <2>1, LineTypes, EmitType DEF TypeInv, TypeOK
    <2> QED
      BY <1>4, <2>1, <2>2
         DEF TakeEntry, TypeInv, TypeOK, UsedEnough, ProgramPoints
  <1>5. CASE EndOfDir
    BY <1>5, ExitType, LineTypes DEF EndOfDir
  <1>6. CASE ReadAig
    BY <1>6 DEF ReadAig, TypeInv, TypeOK, UsedEnough, ProgramPoints, disk, FdFree
  <1>7. CASE ReadAigRejected
    BY <1>7, ExitType, LineTypes DEF ReadAigRejected
  <1>8. CASE ReadAigNull
    BY <1>8, DieType DEF ReadAigNull
  <1>9. CASE OpenOut
    BY <1>9 DEF OpenOut, TypeInv, TypeOK, UsedEnough, ProgramPoints, iteration,
                FdFree
  <1>10. CASE OpenOutFails
    BY <1>10, ExitType, LineTypes DEF OpenOutFails
  <1>11. CASE Redirect
    BY <1>11 DEF Redirect, TypeInv, TypeOK, UsedEnough, ProgramPoints, disk, FdFree
  <1>12. CASE RedirectFails
    BY <1>12, ExitType, LineTypes DEF RedirectFails
  <1>13. CASE AigsimPrint
    <2>1. cur \in AigFiles /\ printed + 1 \in 1..NumVectors
      BY <1>13 DEF AigsimPrint, TypeInv, TypeOK
    <2>2. simOut' \in [OutNames -> Seq(Lines)]
      BY <1>13, <2>1, LineTypes, WriteToType DEF AigsimPrint, TypeInv, TypeOK
    <2> QED
      BY <1>13, <2>1, <2>2
         DEF AigsimPrint, TypeInv, TypeOK, UsedEnough, ProgramPoints
  <1>14. CASE AigsimEnd
    <2>1. simOut' \in [OutNames -> Seq(Lines)]
      BY <1>14, LineTypes, WriteToType DEF AigsimEnd, TypeInv, TypeOK
    <2> QED
      BY <1>14, <2>1 DEF AigsimEnd, TypeInv, TypeOK, UsedEnough, ProgramPoints
  <1>15. CASE AigsimFails
    BY <1>15 DEF AigsimFails, TypeInv, TypeOK, UsedEnough, ProgramPoints, disk
  <1>16. CASE FlushStdout
    <2>1. simOut' \in [OutNames -> Seq(Lines)]
      BY <1>16, WriteToType DEF FlushStdout, TypeInv, TypeOK
    <2> QED
      BY <1>16, <2>1
         DEF FlushStdout, TypeInv, TypeOK, UsedEnough, ProgramPoints, iteration
  <1>17. CASE RestoreStdout
    BY <1>17 DEF RestoreStdout, TypeInv, TypeOK, UsedEnough, ProgramPoints, disk
  <1>18. CASE RemoveAig
    BY <1>18 DEF RemoveAig, TypeInv, TypeOK, UsedEnough, ProgramPoints
  <1>19. CASE Kill
    BY <1>19, DieType DEF Kill
  <1>20. CASE UNCHANGED simVars
    BY <1>20 DEF simVars, TypeInv, TypeOK, UsedEnough
  <1> QED
    BY <1>1, <1>2, <1>3, <1>4, <1>5, <1>6, <1>7, <1>8, <1>9, <1>10, <1>11, <1>12,
       <1>13, <1>14, <1>15, <1>16, <1>17, <1>18, <1>19, <1>20
       DEF Next, Launch, Step, Iterate, Prepare, Simulate, Finish, Idle

LEMMA TypeInvariant == Spec => []TypeInv
  BY TypeInvInit, TypeInvNext, PTL DEF Spec

\* Every variable keeps its type whatever fails, is killed or started again.
THEOREM TypeCorrect == Spec => []TypeOK
  <1>1. TypeInv => TypeOK
    BY DEF TypeInv
  <1> QED
    BY <1>1, TypeInvariant, PTL

(***************************************************************************)
(* No neuron is lost.  The invariant that carries the argument: while      *)
(* aigsim runs, the last `printed' lines of its file are the first         *)
(* `printed' rows of the neuron, and from its end to the deletion of the   *)
(* AIG the rows are recorded.                                              *)
(***************************************************************************)
Printing ==
    LET out == simOut[Stem[cur]] IN
    /\ stdout = Stem[cur]
    /\ printed <= Len(out)
    /\ \A s \in 1..printed : out[Len(out) - printed + s] = Row(cur, s)

ConservedInv ==
    /\ TypeInv
    /\ NeuronsConserved
    /\ pc # "aigsim" => printed = 0
    /\ pc = "aigsim" => Printing
    /\ pc \in {"flush", "restore", "remove"} => Recorded(cur)

\* Appending to a sequence leaves the lines it had where they were.
LEMMA AppendKeeps ==
    ASSUME NEW S, NEW a \in Seq(S), NEW b \in Seq(S)
    PROVE  /\ a \o b \in Seq(S)
           /\ Len(a \o b) = Len(a) + Len(b)
           /\ \A i \in 1..Len(a) : (a \o b)[i] = a[i]
  OBVIOUS

\* Rows that are recorded stay recorded whatever is appended, wherever.
LEMMA RecordedStable ==
    ASSUME TypeInv, NEW n \in AigFiles, Recorded(n),
           \/ UNCHANGED simOut
           \/ \E lines \in Seq(Lines) : WriteTo(stdout, lines)
    PROVE  Recorded(n)'
  <1>1. CASE UNCHANGED simOut
    BY <1>1 DEF Recorded, Row
  <1>2. CASE \E lines \in Seq(Lines) : WriteTo(stdout, lines)
    <2> DEFINE out == simOut[Stem[n]]
    <2>1. PICK lines \in Seq(Lines) : WriteTo(stdout, lines)
      BY <1>2
    <2>2. Stem[n] \in OutNames /\ out \in Seq(Lines)
      BY NeuronAssumption DEF TypeInv, TypeOK
    <2>3. PICK i \in 0..Len(out) :
            /\ i + NumVectors <= Len(out)
            /\ \A s \in 1..NumVectors : out[i + s] = Row(n, s)
      BY DEF Recorded
    <2>4. out' = out \/ out' = out \o lines
      BY <2>1, <2>2 DEF WriteTo
    <2>5. Len(out) <= Len(out') /\ \A j \in 1..Len(out) : out'[j] = out[j]
      <3>1. CASE out' = out
        BY <3>1, <2>2
      <3>2. CASE out' = out \o lines
        BY <3>2, <2>1, <2>2, AppendKeeps
      <3> QED
        BY <2>4, <3>1, <3>2
    <2>6. Len(out') \in Nat
      BY <2>1, <2>2, <2>4, AppendKeeps
    <2>7. i \in 0..Len(out') /\ i + NumVectors <= Len(out')
      BY <2>2, <2>3, <2>5, <2>6, NeuronAssumption
    <2>8. ASSUME NEW s \in 1..NumVectors
          PROVE  out'[i + s] = Row(n, s)
      <3>1. i + s \in 1..Len(out)
        BY <2>2, <2>3, NeuronAssumption
      <3>2. out'[i + s] = out[i + s]
        BY <2>5, <3>1
      <3> QED
        BY <2>3, <3>2
    <2> QED
      BY <2>7, <2>8 DEF Recorded, Row
  <1> QED
    BY <1>1, <1>2

\* What a step writes, it appends to the file that descriptor 1 refers to.
LEMMA StepWrites ==
    ASSUME TypeInv, [Next]_simVars
    PROVE  \/ UNCHANGED simOut
           \/ \E lines \in Seq(Lines) : WriteTo(stdout, lines)
  <1> USE DEF TypeInv, TypeOK
  <1>1. ASSUME NEW lines \in Seq(Lines), Exit(lines)
        PROVE  \E ls \in Seq(Lines) : WriteTo(stdout, ls)
    <2>1. buffer \o lines \in Seq(Lines)
      BY <1>1
    <2> QED
      BY <1>1, <2>1 DEF Exit
  <1>2. ASSUME NEW lines \in Seq(Lines), Emit(lines)
        PROVE  \/ UNCHANGED simOut
               \/ \E ls \in Seq(Lines) : WriteTo(stdout, ls)
    <2>1. CASE Tty
      <3>1. WriteTo(stdout, lines)
        BY <1>2, <2>1, Zenon DEF Emit
      <3> QED
        BY <1>2, <3>1
    <2>2. CASE ~Tty
      BY <1>2, <2>2, Zenon DEF Emit
    <2> QED
      BY <2>1, <2>2
  <1>3. CASE TakeEntry
    <2>1. PICK f \in AigFiles : Emit(Banner(f))
      BY <1>3 DEF TakeEntry
    <2> QED
      BY <2>1, <1>2, LineTypes
  <1>4. CASE EndOfDir \/ ReadAigRejected \/ OpenOutFails \/ RedirectFails
    BY <1>4, <1>1, LineTypes
       DEF EndOfDir, ReadAigRejected, OpenOutFails, RedirectFails
  <1>5. CASE AigsimPrint
    <2>1. cur \in AigFiles /\ printed + 1 \in 1..NumVectors
      BY <1>5, NeuronAssumption DEF AigsimPrint
    <2> QED
      BY <1>5, <2>1, LineTypes DEF AigsimPrint
  <1>6. CASE AigsimEnd
    BY <1>6, LineTypes DEF AigsimEnd
  <1>7. CASE FlushStdout
    BY <1>7 DEF FlushStdout
  <1>8. CASE \/ Launch \/ SkipEntry \/ ReadAig \/ ReadAigNull \/ OpenOut
             \/ Redirect \/ AigsimFails \/ RestoreStdout \/ RemoveAig \/ Kill
             \/ Idle \/ UNCHANGED simVars
    BY <1>8 DEF Launch, OpenDir, OpenDirFails, SkipEntry, ReadAig, ReadAigNull,
                OpenOut, Redirect, AigsimFails, RestoreStdout, RemoveAig, Kill,
                Idle, Die, disk, simVars
  <1> QED
    BY <1>3, <1>4, <1>5, <1>6, <1>7, <1>8
       DEF Next, Step, Iterate, Prepare, Simulate, Finish

\* One more row printed.
LEMMA PrintStep ==
    ASSUME TypeInv, pc = "aigsim", Printing, AigsimPrint
    PROVE  Printing'
  <1> DEFINE out == simOut[Stem[cur]]
  <1>1. /\ cur \in AigFiles /\ Stem[cur] \in OutNames /\ out \in Seq(Lines)
        /\ printed \in Nat /\ printed + 1 \in 1..NumVectors /\ stdout = Stem[cur]
    BY NeuronAssumption DEF TypeInv, TypeOK, AigsimPrint, Printing
  <1>2. <<Row(cur, printed + 1)>> \in Seq(Lines)
    BY <1>1, LineTypes
  <1>3. /\ out' = out \o <<Row(cur, printed + 1)>>
        /\ cur' = cur /\ printed' = printed + 1 /\ stdout' = stdout
    BY <1>1 DEF AigsimPrint, WriteTo
  <1>4. Row(cur, printed + 1) \in Lines
    BY <1>2
  <1>5. Len(out') = Len(out) + 1 /\ out'[Len(out) + 1] = Row(cur, printed + 1)
    BY <1>1, <1>3, <1>4
  <1>6. \A i \in 1..Len(out) : out'[i] = out[i]
    BY <1>1, <1>2, <1>3, AppendKeeps
  <1>7. /\ printed <= Len(out)
        /\ \A s \in 1..printed : out[Len(out) - printed + s] = Row(cur, s)
    BY DEF Printing
  <1>8. ASSUME NEW s \in 1..printed'
        PROVE  out'[Len(out') - printed' + s] = Row(cur, s)
    <2>1. Len(out') - printed' + s = Len(out) - printed + s
      BY <1>1, <1>3, <1>5
    <2>2. CASE s = printed + 1
      <3>1. Len(out) \in Nat
        BY <1>1
      <3>2. Len(out) - printed + s = Len(out) + 1
        BY <1>1, <2>2, <3>1
      <3> QED
        BY <1>5, <2>1, <2>2, <3>2
    <2>3. CASE s # printed + 1
      <3>1. s \in 1..printed /\ Len(out) - printed + s \in 1..Len(out)
        BY <1>1, <1>3, <1>7, <2>3
      <3>2. out'[Len(out) - printed + s] = out[Len(out) - printed + s]
        BY <1>6, <3>1
      <3>3. out[Len(out) - printed + s] = Row(cur, s)
        BY <1>7, <3>1
      <3> QED
        BY <2>1, <3>2, <3>3
    <2> QED
      BY <2>2, <2>3
  <1>9. printed' <= Len(out')
    BY <1>1, <1>3, <1>5, <1>7
  <1> QED
    BY <1>1, <1>3, <1>8, <1>9 DEF Printing, Row

\* After the last row they are all recorded.
LEMMA AllPrinted ==
    ASSUME TypeInv, pc = "aigsim", Printing, printed = NumVectors
    PROVE  Recorded(cur)
  <1> DEFINE out == simOut[Stem[cur]]
             i == Len(out) - NumVectors
  <1>1. /\ cur \in AigFiles /\ out \in Seq(Lines) /\ NumVectors \in Nat
    BY NeuronAssumption DEF TypeInv, TypeOK
  <1>2. /\ NumVectors <= Len(out)
        /\ \A s \in 1..NumVectors : out[i + s] = Row(cur, s)
    BY DEF Printing
  <1>3. i \in 0..Len(out) /\ i + NumVectors <= Len(out)
    BY <1>1, <1>2
  <1> QED
    BY <1>2, <1>3 DEF Recorded

LEMMA ConservedInit == Init => ConservedInv
  <1> SUFFICES ASSUME Init PROVE ConservedInv
    OBVIOUS
  <1>1. aig = AigFiles /\ pc = "off" /\ printed = 0
    BY DEF Init, DiskInit, ProcessInit
  <1> QED
    BY <1>1, TypeInvInit DEF ConservedInv, NeuronsConserved

LEMMA ConservedNext ==
    "aigsim" \notin MayFail => (ConservedInv /\ [Next]_simVars => ConservedInv')
  <1> SUFFICES ASSUME "aigsim" \notin MayFail, ConservedInv, [Next]_simVars
               PROVE  ConservedInv'
    OBVIOUS
  <1>1. TypeInv /\ TypeInv'
    BY TypeInvNext DEF ConservedInv
  <1>2. \A n \in AigFiles : Recorded(n) => Recorded(n)'
    BY <1>1, RecordedStable, StepWrites
  <1>3. (pc # "aigsim" => printed = 0)'
    <2>1. pc # "aigsim" => printed = 0
      BY DEF ConservedInv
    <2> QED
      BY <2>1 DEF Next, Launch, OpenDir, OpenDirFails, Step, Iterate, SkipEntry,
           TakeEntry, EndOfDir, Prepare, ReadAig, ReadAigRejected, ReadAigNull,
           OpenOut, OpenOutFails, Redirect, RedirectFails, Simulate, AigsimPrint,
           AigsimEnd, AigsimFails, Finish, FlushStdout, RestoreStdout, RemoveAig,
           Kill, Idle, Exit, Die, Gone, iteration, process, simVars
  \* The steps that reach none of the points the invariant speaks of.
  <1>4. CASE aig' = aig /\ pc' \notin {"aigsim", "flush", "restore", "remove"}
    BY <1>1, <1>2, <1>3, <1>4 DEF ConservedInv, NeuronsConserved
  <1>5. CASE Redirect
    <2>1. Printing'
      <3>1. /\ cur \in AigFiles /\ cur' = cur /\ printed' = printed
            /\ simOut' = simOut /\ stdout' = Stem[cur]
        BY <1>1, <1>5 DEF Redirect, disk, TypeInv, TypeOK
      <3>2. Len(simOut[Stem[cur]]) \in Nat
        BY <1>1, <3>1, NeuronAssumption DEF TypeInv, TypeOK
      <3>3. printed = 0
        BY <1>5 DEF Redirect, ConservedInv
      <3> QED
        BY <3>1, <3>2, <3>3 DEF Printing
    <2>2. pc' = "aigsim" /\ aig' = aig
      BY <1>5 DEF Redirect, disk
    <2> QED
      BY <1>1, <1>2, <1>3, <2>1, <2>2 DEF ConservedInv, NeuronsConserved
  <1>6. CASE AigsimPrint
    <2>1. Printing'
      BY <1>1, <1>6, PrintStep DEF ConservedInv, AigsimPrint
    <2>2. pc' = "aigsim" /\ aig' = aig
      BY <1>6 DEF AigsimPrint
    <2> QED
      BY <1>1, <1>2, <1>3, <2>1, <2>2 DEF ConservedInv, NeuronsConserved
  <1>7. CASE AigsimEnd
    <2>1. Recorded(cur)
      BY <1>1, <1>7, AllPrinted DEF ConservedInv, AigsimEnd
    <2>2. cur \in AigFiles /\ cur' = cur /\ pc' = "flush" /\ aig' = aig
      BY <1>1, <1>7 DEF AigsimEnd, TypeInv, TypeOK
    <2>3. Recorded(cur)'
      BY <1>2, <2>1, <2>2
    <2> QED
      BY <1>1, <1>2, <1>3, <2>2, <2>3 DEF ConservedInv, NeuronsConserved
  <1>8. CASE FlushStdout \/ RestoreStdout
    <2>1. /\ pc \in {"flush", "restore"} /\ pc' \in {"restore", "remove"}
          /\ cur' = cur /\ aig' = aig
      BY <1>8 DEF FlushStdout, RestoreStdout, iteration, disk
    <2>2. cur \in AigFiles /\ Recorded(cur)
      BY <1>1, <2>1 DEF ConservedInv, TypeInv, TypeOK
    <2> QED
      BY <1>1, <1>2, <1>3, <2>1, <2>2 DEF ConservedInv, NeuronsConserved
  <1>9. CASE RemoveAig
    <2>1. /\ cur \in AigFiles /\ Recorded(cur)
          /\ pc' = "readdir" /\ aig \subseteq aig' \cup {cur}
      BY <1>1, <1>9 DEF RemoveAig, ConservedInv, TypeInv, TypeOK
    <2> QED
      BY <1>1, <1>2, <1>3, <2>1 DEF ConservedInv, NeuronsConserved
  <1>10. CASE AigsimFails
    BY <1>10 DEF AigsimFails
  <1>11. CASE UNCHANGED simVars
    <2>1. UNCHANGED <<aig, simOut, pc, cur, stdout, printed>>
      BY <1>11 DEF simVars
    <2> QED
      BY <1>1, <1>3, <2>1 DEF ConservedInv, NeuronsConserved, Printing, Recorded, Row
  <1>12. CASE \/ Launch \/ Iterate \/ ReadAig \/ ReadAigRejected \/ ReadAigNull
              \/ OpenOut \/ OpenOutFails \/ RedirectFails \/ Kill
    <2>1. aig' = aig /\ pc' \notin {"aigsim", "flush", "restore", "remove"}
      BY <1>12 DEF Launch, OpenDir, OpenDirFails, Iterate, SkipEntry, TakeEntry,
           EndOfDir, ReadAig, ReadAigRejected, ReadAigNull, OpenOut, OpenOutFails,
           RedirectFails, Kill, Exit, Die, Gone, disk, process
    <2> QED
      BY <1>4, <2>1
  <1> QED
    BY <1>5, <1>6, <1>7, <1>8, <1>9, <1>10, <1>11, <1>12
       DEF Next, Step, Prepare, Simulate, Finish, Idle

\* As long as aigsim itself does its work, no neuron is lost: not by kills at
\* any point, not by starting again, not for lack of descriptors, not when
\* two AIGs share an output name.
THEOREM Conservation ==
    ASSUME "aigsim" \notin MayFail
    PROVE  Spec => []NeuronsConserved
  <1>1. Init => ConservedInv
    BY ConservedInit
  <1>2. ConservedInv /\ [Next]_simVars => ConservedInv'
    BY ConservedNext
  <1>3. ConservedInv => NeuronsConserved
    BY DEF ConservedInv
  <1> QED
    BY <1>1, <1>2, <1>3, PTL DEF Spec

(***************************************************************************)
(* Descriptors.  Each neuron costs the one of its fopen, and two more      *)
(* while it is simulated; what a run has spent and what its remaining      *)
(* neurons will cost never exceeds one per neuron of the layer.            *)
(***************************************************************************)
Ahead == Cardinality(toList \cap AigFiles)
Budget == LoopFds + Cardinality(AigFiles)

FdInv ==
    /\ TypeInv
    /\ pc \in {"readdir", "remove", "open"} => used + Ahead <= Budget
    /\ pc = "read" => used + Ahead + 1 <= Budget
    /\ pc = "redirect" => used + Ahead <= Budget + 1
    /\ pc \in {"aigsim", "flush", "restore"} =>
         used + Ahead <= Budget + 2 /\ saved = Terminal
    /\ pc \notin {"aigsim", "flush", "restore"} => stdout = Terminal

\* The neurons ahead and those of the layer are counted by natural numbers.
LEMMA AheadNat ==
    ASSUME TypeInv
    PROVE  /\ IsFiniteSet(toList \cap AigFiles)
           /\ Ahead \in Nat
           /\ Cardinality(AigFiles) \in Nat /\ Budget \in Nat
           /\ Ahead <= Cardinality(AigFiles)
  <1>1. toList \cap AigFiles \subseteq AigFiles
    OBVIOUS
  <1>2. IsFiniteSet(toList \cap AigFiles) /\ Ahead <= Cardinality(AigFiles)
    BY <1>1, FS_Subset, FilesAssumption DEF Ahead
  <1>3. Ahead \in Nat /\ Cardinality(AigFiles) \in Nat
    BY <1>2, FS_CardinalityType, FilesAssumption DEF Ahead
  <1> QED
    BY <1>2, <1>3 DEF Budget, LoopFds

\* With a descriptor per neuron and six more, none is ever missing.
LEMMA FdsThere ==
    ASSUME FdInv, FdLimit >= Cardinality(AigFiles) + 6
    PROVE  DescriptorsSuffice /\ StdoutRestored
  <1>1. /\ Ahead \in Nat /\ Cardinality(AigFiles) \in Nat
        /\ used \in Nat /\ FdLimit \in Nat /\ TypeInv
    BY AheadNat, EnvironmentAssumption DEF FdInv, TypeInv, TypeOK
  <1>2. pc \in {"read", "open", "redirect"} => used + 1 <= FdLimit
    BY <1>1 DEF FdInv, Budget, LoopFds
  <1>3. StdoutRestored
    BY DEF FdInv, StdoutRestored
  <1> QED
    BY <1>2, <1>3 DEF DescriptorsSuffice, FdFree

LEMMA FdInit == Init => FdInv
  BY TypeInvInit DEF Init, ProcessInit, FdInv

LEMMA FdNext ==
    FdLimit >= Cardinality(AigFiles) + 6 => (FdInv /\ [Next]_simVars => FdInv')
  <1> SUFFICES ASSUME FdLimit >= Cardinality(AigFiles) + 6, FdInv, [Next]_simVars
               PROVE  FdInv'
    OBVIOUS
  <1>1. TypeInv /\ TypeInv'
    BY TypeInvNext DEF FdInv
  <1>2. /\ Ahead \in Nat /\ Ahead' \in Nat /\ Budget \in Nat
        /\ used \in Nat /\ used' \in Nat
    <2>1. toList' \cap AigFiles \in SUBSET AigFiles
      OBVIOUS
    <2>2. Ahead' \in Nat
      BY <2>1, FS_Subset, FS_CardinalityType, FilesAssumption DEF Ahead
    <2> QED
      BY <1>1, <2>2, AheadNat, EnvironmentAssumption DEF TypeInv, TypeOK
  <1>3. FdFree(1) \/ pc \notin {"read", "open", "redirect"}
    BY FdsThere DEF DescriptorsSuffice
  \* The end of the process.
  <1>4. CASE Gone
    BY <1>1, <1>4 DEF Gone, FdInv
  <1>5. CASE OpenDir
    <2>1. toList' \cap AigFiles = aig
      BY <1>1, <1>5, FilesAssumption DEF OpenDir, TypeInv, TypeOK
    <2>2. Ahead' <= Cardinality(AigFiles)
      BY <1>1, <2>1, FS_Subset, FilesAssumption DEF Ahead, TypeInv, TypeOK
    <2>3. pc' = "readdir" /\ used' = LoopFds /\ stdout' = Terminal
      BY <1>5 DEF OpenDir, FdInv
    <2> QED
      BY <1>1, <1>2, <2>2, <2>3, AheadNat DEF FdInv, Budget, LoopFds
  <1>6. CASE SkipEntry
    <2>1. toList' \cap AigFiles = toList \cap AigFiles
      BY <1>6 DEF SkipEntry
    <2>2. /\ pc = "readdir" /\ pc' = pc /\ used' = used /\ stdout' = stdout
          /\ Ahead' = Ahead /\ Budget' = Budget
      BY <1>6, <2>1 DEF SkipEntry, Ahead, Budget
    <2> QED
      BY <1>1, <2>2 DEF FdInv
  <1>7. CASE TakeEntry
    <2>1. PICK f \in toList \cap AigFiles : toList' = toList \ {f}
      BY <1>7 DEF TakeEntry
    <2>2. toList' \cap AigFiles = (toList \cap AigFiles) \ {f}
      BY <2>1
    <2>3. Ahead' = Ahead - 1
      <3>1. IsFiniteSet(toList \cap AigFiles)
        BY <1>1, AheadNat
      <3>2. Cardinality((toList \cap AigFiles) \ {f}) = Cardinality(toList \cap AigFiles) - 1
        BY <2>1, <3>1, FS_RemoveElement
      <3> QED
        BY <2>2, <3>2 DEF Ahead
    <2>4. pc = "readdir" /\ pc' = "read" /\ used' = used /\ stdout' = stdout
      BY <1>7 DEF TakeEntry
    <2> QED
      BY <1>1, <1>2, <2>3, <2>4 DEF FdInv
  <1>8. CASE UNCHANGED <<toList, stdout>> /\ (ReadAig \/ OpenOut)
    <2>1. Ahead' = Ahead /\ used' = used + 1
      BY <1>8 DEF ReadAig, OpenOut, Ahead
    <2>2. \/ pc = "read" /\ pc' = "open"
          \/ pc = "open" /\ pc' = "redirect"
      BY <1>8 DEF ReadAig, OpenOut
    <2> QED
      BY <1>1, <1>2, <1>8, <2>1, <2>2 DEF FdInv
  <1>9. CASE Redirect
    <2>1. /\ pc = "redirect" /\ pc' = "aigsim" /\ Ahead' = Ahead
          /\ saved' = Terminal /\ used' = used + 1
      BY <1>3, <1>9 DEF Redirect, FdInv, Ahead
    <2> QED
      BY <1>1, <1>2, <2>1 DEF FdInv
  <1>10. CASE Simulate \/ FlushStdout
    <2>1. /\ pc \in {"aigsim", "flush"} /\ pc' \in {"aigsim", "flush", "restore"}
          /\ saved' = saved /\ used' = used /\ Ahead' = Ahead
      BY <1>10 DEF Simulate, AigsimPrint, AigsimEnd, AigsimFails, FlushStdout,
                   Ahead, iteration
    <2> QED
      BY <1>1, <1>2, <2>1 DEF FdInv
  <1>11. CASE RestoreStdout
    <2>1. saved = Terminal /\ saved # NoFile /\ pc = "restore"
      BY <1>11, FilesAssumption DEF RestoreStdout, FdInv
    <2>2. pc' = "remove" /\ stdout' = Terminal /\ used' = used - 2 /\ Ahead' = Ahead
      BY <1>11, <2>1 DEF RestoreStdout, Ahead
    <2> QED
      BY <1>1, <1>2, <2>1, <2>2 DEF FdInv
  <1>12. CASE RemoveAig
    <2>1. /\ pc = "remove" /\ pc' = "readdir" /\ used' = used /\ stdout' = stdout
          /\ Ahead' = Ahead
      BY <1>12 DEF RemoveAig, Ahead
    <2> QED
      BY <1>1, <1>2, <2>1 DEF FdInv
  <1>13. CASE UNCHANGED process
    <2>1. Ahead' = Ahead /\ UNCHANGED <<pc, used, saved, stdout>>
      BY <1>13 DEF process, Ahead
    <2> QED
      BY <1>1, <2>1 DEF FdInv
  <1>14. \/ Gone \/ UNCHANGED process
         \/ OpenDir \/ SkipEntry \/ TakeEntry \/ ReadAig \/ OpenOut \/ Redirect
         \/ Simulate \/ FlushStdout \/ RestoreStdout \/ RemoveAig
    BY DEF Next, Launch, OpenDirFails, Step, Iterate, EndOfDir, Prepare,
           ReadAigRejected, ReadAigNull, OpenOutFails, RedirectFails, Finish, Kill,
           Idle, Exit, Die, process, simVars
  <1>15. ReadAig \/ OpenOut => UNCHANGED <<toList, stdout>>
    BY DEF ReadAig, OpenOut
  <1> QED
    BY <1>4, <1>5, <1>6, <1>7, <1>8, <1>9, <1>10, <1>11, <1>12, <1>13, <1>14, <1>15

\* FdLimit = neurons + 6 is enough for fopen, open and dup to succeed for
\* every neuron of the layer ...
THEOREM DescriptorsAlwaysSuffice ==
    ASSUME FdLimit >= Cardinality(AigFiles) + 6
    PROVE  Spec => []DescriptorsSuffice
  <1>1. Init => FdInv
    BY FdInit
  <1>2. FdInv /\ [Next]_simVars => FdInv'
    BY FdNext
  <1>3. FdInv => DescriptorsSuffice
    BY FdsThere
  <1> QED
    BY <1>1, <1>2, <1>3, PTL DEF Spec

\* ... and then descriptor 1 is the terminal again after every neuron.
THEOREM StdoutAlwaysRestored ==
    ASSUME FdLimit >= Cardinality(AigFiles) + 6
    PROVE  Spec => []StdoutRestored
  <1>1. Init => FdInv
    BY FdInit
  <1>2. FdInv /\ [Next]_simVars => FdInv'
    BY FdNext
  <1>3. FdInv => StdoutRestored
    BY FdsThere
  <1> QED
    BY <1>1, <1>2, <1>3, PTL DEF Spec

(***************************************************************************)
(* Output files belong to their neurons.  What is needed besides FdInv:    *)
(* the AIGs that readdir has still to return exist, so does the one at     *)
(* hand, and while aigsim may write, descriptor 1 is the file of its own.  *)
(***************************************************************************)
OwnFileInv ==
    /\ FdInv
    /\ toList \cap AigFiles \subseteq aig \ {cur}
    /\ cur # NoFile => cur \in aig
    /\ pc \in {"aigsim", "flush", "restore"} => stdout = Stem[cur]

\* No two AIGs leave the same name when ".aig" is taken out of theirs.
StemsDiffer == \A f, g \in AigFiles : Stem[f] = Stem[g] => f = g

LEMMA OwnFileInit == Init => OwnFileInv
  BY FdInit DEF Init, DiskInit, ProcessInit, OwnFileInv

LEMMA OwnFileNext ==
    FdLimit >= Cardinality(AigFiles) + 6 =>
      (OwnFileInv /\ [Next]_simVars => OwnFileInv')
  <1> SUFFICES ASSUME FdLimit >= Cardinality(AigFiles) + 6, OwnFileInv, [Next]_simVars
               PROVE  OwnFileInv'
    OBVIOUS
  <1>1. FdInv' /\ TypeOK
    BY FdNext DEF OwnFileInv, FdInv, TypeInv
  <1>2. CASE Gone /\ aig' = aig
    BY <1>1, <1>2 DEF Gone, OwnFileInv
  <1>3. CASE OpenDir
    BY <1>1, <1>3, FilesAssumption DEF OpenDir, OwnFileInv, TypeOK
  <1>4. CASE SkipEntry
    BY <1>1, <1>4 DEF SkipEntry, disk, OwnFileInv
  <1>5. CASE TakeEntry
    <2>1. cur = NoFile
      BY <1>1, <1>5 DEF TakeEntry, TypeOK
    <2>2. PICK f \in toList \cap AigFiles : toList' = toList \ {f} /\ cur' = f
      BY <1>5 DEF TakeEntry
    <2> QED
      BY <1>1, <1>5, <2>1, <2>2 DEF TakeEntry, OwnFileInv
  <1>6. CASE ReadAig \/ OpenOut \/ Simulate \/ FlushStdout \/ RestoreStdout
    <2>1. UNCHANGED <<aig, toList, cur>>
      BY <1>6 DEF ReadAig, OpenOut, Simulate, AigsimPrint, AigsimEnd, AigsimFails,
                  FlushStdout, RestoreStdout, iteration, disk
    <2>2. \/ pc' \in {"open", "redirect", "remove"}
          \/ pc \in {"aigsim", "flush"} /\ stdout' = stdout
      BY <1>6 DEF ReadAig, OpenOut, Simulate, AigsimPrint, AigsimEnd, AigsimFails,
                  FlushStdout, RestoreStdout
    <2> QED
      BY <1>1, <2>1, <2>2 DEF OwnFileInv
  <1>7. CASE Redirect
    BY <1>1, <1>7 DEF Redirect, disk, OwnFileInv
  <1>8. CASE RemoveAig
    BY <1>1, <1>8, FilesAssumption DEF RemoveAig, OwnFileInv, TypeOK
  <1>9. CASE UNCHANGED <<aig, process>>
    BY <1>1, <1>9 DEF process, OwnFileInv
  <1>10. \/ Gone /\ aig' = aig
         \/ UNCHANGED <<aig, process>>
         \/ OpenDir \/ SkipEntry \/ TakeEntry \/ ReadAig \/ OpenOut \/ Redirect
         \/ Simulate \/ FlushStdout \/ RestoreStdout \/ RemoveAig
    BY DEF Next, Launch, OpenDirFails, Step, Iterate, EndOfDir, Prepare,
           ReadAigRejected, ReadAigNull, OpenOutFails, RedirectFails, Finish, Kill,
           Idle, Exit, Die, process, disk, simVars
  <1> QED
    BY <1>2, <1>3, <1>4, <1>5, <1>6, <1>7, <1>8, <1>9, <1>10

\* A step writes to no file but that of the neuron at hand.
LEMMA OthersKept ==
    ASSUME OwnFileInv, StemsDiffer, [Next]_simVars,
           NEW n \in AigFiles \ {cur}
    PROVE  simOut'[Stem[n]] = simOut[Stem[n]]
  <1>1. TypeInv /\ Stem[n] \in OutNames
    BY NeuronAssumption DEF OwnFileInv, FdInv
  <1>2. CASE UNCHANGED simOut
    BY <1>2
  <1>3. CASE \E lines \in Seq(Lines) : WriteTo(stdout, lines)
    <2>1. stdout # Stem[n]
      <3>1. CASE pc \in {"aigsim", "flush", "restore"}
        <4>1. stdout = Stem[cur] /\ cur \in AigFiles
          BY <1>1, <3>1 DEF OwnFileInv, TypeInv, TypeOK
        <4> QED
          BY <4>1 DEF StemsDiffer
      <3>2. CASE pc \notin {"aigsim", "flush", "restore"}
        BY <1>1, <3>2, FilesAssumption DEF OwnFileInv, FdInv
      <3> QED
        BY <3>1, <3>2
    <2> QED
      BY <1>1, <1>3, <2>1 DEF WriteTo
  <1> QED
    BY <1>1, <1>2, <1>3, StepWrites

\* Once its AIG is deleted a neuron's output file is final: no other neuron, no
\* failure and no later run adds a line to it.
THEOREM FrozenWhenDeleted ==
    ASSUME StemsDiffer, FdLimit >= Cardinality(AigFiles) + 6
    PROVE  Spec => FinishedFilesFrozen
  <1>1. Init => OwnFileInv
    BY OwnFileInit
  <1>2. OwnFileInv /\ [Next]_simVars => OwnFileInv'
    BY OwnFileNext
  <1>3. OwnFileInv /\ [Next]_simVars =>
          [\A n \in AigFiles \ aig : simOut'[Stem[n]] = simOut[Stem[n]]]_simVars
    <2> SUFFICES ASSUME OwnFileInv, [Next]_simVars, NEW n \in AigFiles \ aig
                 PROVE  simOut'[Stem[n]] = simOut[Stem[n]]
      OBVIOUS
    <2>1. n # cur
      BY FilesAssumption DEF OwnFileInv
    <2> QED
      BY <2>1, OthersKept
  <1> QED
    BY <1>1, <1>2, <1>3, PTL DEF Spec, FinishedFilesFrozen

(***************************************************************************)
(* What the output files hold.  The neuron at hand takes its file from     *)
(* empty over the first rows to what is expected; every other file is at   *)
(* one of the two ends.  This is stated of the files that exist, so that   *)
(* it holds beside a program that deletes finished ones as well.           *)
(***************************************************************************)
FileExact(n) ==
    IF n \in aig THEN simOut[Stem[n]] = <<>>
                ELSE Stem[n] \in simFiles => simOut[Stem[n]] \in Expected(n)

\* The banner waits in the buffer until the flush.
Waiting == IF Tty THEN <<>> ELSE Banner(cur)

ExactInv ==
    /\ OwnFileInv
    /\ \A n \in AigFiles \ {cur} : FileExact(n)
    /\ pc # "aigsim" => printed = 0
    /\ buffer = IF pc \in {"read", "open", "redirect", "aigsim", "flush"}
                THEN Waiting ELSE <<>>
    /\ pc \in {"read", "open", "redirect"} => simOut[Stem[cur]] = <<>>
    /\ pc = "aigsim" => simOut[Stem[cur]] = SubSeq(Rows(cur), 1, printed)
    /\ pc = "flush" => simOut[Stem[cur]] \in Simulated(cur)
    /\ pc \in {"restore", "remove"} => simOut[Stem[cur]] \in Expected(cur)

\* The program is stopped only before aigsim starts, and an AIG that it deletes
\* is gone.
Undisturbed ==
    /\ StemsDiffer
    /\ FdLimit >= Cardinality(AigFiles) + 6
    /\ KillPoints \subseteq {"readdir", "read", "open", "redirect"}
    /\ "remove" \notin MayFail

\* The rows of a neuron, and how a prefix of them grows.
LEMMA RowsGrow ==
    ASSUME NEW n \in AigFiles
    PROVE  /\ Rows(n) \in Seq(Lines) /\ Len(Rows(n)) = NumVectors
           /\ SubSeq(Rows(n), 1, 0) = <<>>
           /\ SubSeq(Rows(n), 1, NumVectors) = Rows(n)
           /\ \A k \in 0..(NumVectors - 1) :
                SubSeq(Rows(n), 1, k) \o <<Row(n, k + 1)>> = SubSeq(Rows(n), 1, k + 1)
  <1>1. NumVectors \in Nat /\ \A s \in 1..NumVectors : Row(n, s) \in Lines
    <2>1. ASSUME NEW s \in 1..NumVectors PROVE Row(n, s) \in Lines
      <3>1. <<Row(n, s)>> \in Seq(Lines)
        BY LineTypes
      <3> QED
        BY <3>1
    <2> QED
      BY <2>1, NeuronAssumption
  <1>2. Rows(n) \in Seq(Lines) /\ Len(Rows(n)) = NumVectors
    BY <1>1 DEF Rows
  <1>3. SubSeq(Rows(n), 1, 0) = <<>>
    BY <1>2
  <1>4. SubSeq(Rows(n), 1, NumVectors) = Rows(n)
    BY <1>2, SubSeqFull
  <1>5. ASSUME NEW k \in 0..(NumVectors - 1)
        PROVE  SubSeq(Rows(n), 1, k) \o <<Row(n, k + 1)>> = SubSeq(Rows(n), 1, k + 1)
    <2>1. Rows(n)[k + 1] = Row(n, k + 1)
      BY <1>1 DEF Rows
    <2> QED
      BY <1>1, <1>2, <2>1, SubSeqRecursiveSecond
  <1> QED
    BY <1>2, <1>3, <1>4, <1>5

\* What is expected of a file does not depend on the state.
LEMMA Constants ==
    \A n \in AigFiles :
      Expected(n)' = Expected(n) /\ Simulated(n)' = Simulated(n)
        /\ Rows(n)' = Rows(n) /\ Banner(n)' = Banner(n)
  BY DEF Expected, Simulated, Rows, Row, Trailer, Banner

LEMMA ExactInit == Init => ExactInv
  <1> SUFFICES ASSUME Init PROVE ExactInv
    OBVIOUS
  <1>1. \A n \in AigFiles : n \in aig /\ simOut[Stem[n]] = <<>>
    BY NeuronAssumption DEF Init, DiskInit
  <1> QED
    BY <1>1, OwnFileInit DEF Init, ProcessInit, ExactInv, FileExact

LEMMA ExactNext == Undisturbed => (ExactInv /\ [Next]_simVars => ExactInv')
  <1> SUFFICES ASSUME Undisturbed, ExactInv, [Next]_simVars
               PROVE  ExactInv'
    OBVIOUS
  <1>1. OwnFileInv /\ OwnFileInv' /\ FdInv /\ TypeOK /\ TypeOK'
    BY OwnFileNext DEF Undisturbed, ExactInv, OwnFileInv, FdInv, TypeInv
  <1>2. \A n \in AigFiles \ {cur} : simOut'[Stem[n]] = simOut[Stem[n]]
    BY <1>1, OthersKept DEF Undisturbed
  <1>3. cur \in AigFiles => Stem[cur] \in OutNames /\ Rows(cur) \in Seq(Lines)
    BY NeuronAssumption, RowsGrow
  <1> USE Constants
  \* The other files stay as they are, and none of them appears.
  <1>4. simFiles' = simFiles \/ (pc = "open" /\ simFiles' = simFiles \cup {Stem[cur]})
    BY DEF Next, Launch, OpenDir, OpenDirFails, Step, Iterate, SkipEntry, TakeEntry,
           EndOfDir, Prepare, ReadAig, ReadAigRejected, ReadAigNull, OpenOut,
           OpenOutFails, Redirect, RedirectFails, Simulate, AigsimPrint, AigsimEnd,
           AigsimFails, Finish, FlushStdout, RestoreStdout, RemoveAig, Kill, Idle,
           disk, simVars
  <1>5. \A n \in AigFiles \ {cur} : Stem[n] \in simFiles' => Stem[n] \in simFiles
    BY <1>1, <1>4 DEF TypeOK, Undisturbed, StemsDiffer
  <1>6. aig' = aig => \A n \in AigFiles \ {cur} : FileExact(n)'
    BY <1>2, <1>5 DEF ExactInv, FileExact
  \* The process ends, before aigsim has written anything.
  <1>7. CASE /\ Gone /\ aig' = aig
             /\ pc \in {"off", "readdir", "read", "open", "redirect"}
             /\ UNCHANGED simOut \/ \E lines : WriteTo(stdout, lines)
    <2>1. stdout = Terminal
      BY <1>1, <1>7 DEF FdInv
    <2>2. cur \in AigFiles => cur \in aig /\ simOut'[Stem[cur]] = simOut[Stem[cur]]
      BY <1>1, <1>3, <1>7, <2>1, FilesAssumption DEF WriteTo, OwnFileInv
    <2>3. cur \in AigFiles => simOut[Stem[cur]] = <<>>
      BY <1>1, <1>7, FilesAssumption DEF ExactInv, TypeOK
    <2>4. \A n \in AigFiles : FileExact(n)'
      BY <1>6, <1>7, <2>2, <2>3 DEF FileExact
    <2> QED
      BY <1>1, <1>7, <2>4 DEF Gone, ExactInv
  <1>8. CASE OpenDir \/ OpenDirFails \/ SkipEntry \/ UNCHANGED simVars
    <2>1. /\ UNCHANGED <<aig, simOut, cur, buffer, printed>>
          /\ \/ pc' = pc
             \/ pc = "off" /\ pc' = "readdir"
      BY <1>8 DEF OpenDir, OpenDirFails, SkipEntry, disk, process, simVars
    <2> QED
      BY <1>1, <1>6, <2>1
         DEF ExactInv, Waiting
  <1>9. CASE TakeEntry
    <2>1. PICK f \in toList \cap AigFiles : cur' = f /\ Emit(Banner(f))
      BY <1>9 DEF TakeEntry
    <2>2. cur = NoFile /\ cur \notin AigFiles /\ buffer = <<>> /\ aig' = aig
      BY <1>1, <1>9, FilesAssumption DEF TakeEntry, TypeOK, ExactInv
    <2>3. simOut'[Stem[f]] = <<>>
      BY <1>1, <1>2, <2>2, <2>1 DEF ExactInv, FileExact, OwnFileInv
    <2>4. \A n \in AigFiles : FileExact(n)'
      BY <1>6, <2>2
    <2>5. buffer' = Waiting'
      <3>1. CASE Tty
        <4>1. buffer' = buffer
          BY <2>1, <3>1, Zenon DEF Emit
        <4> QED
          BY <2>2, <3>1, <4>1 DEF Waiting
      <3>2. CASE ~Tty
        <4>1. buffer' = buffer \o Banner(f)
          BY <2>1, <3>2, Zenon DEF Emit
        <4>2. Banner(f) \in Seq(Lines)
          BY LineTypes
        <4> QED
          BY <2>1, <2>2, <3>2, <4>1, <4>2 DEF Waiting, Banner
      <3> QED
        BY <3>1, <3>2
    <2> QED
      BY <1>1, <1>9, <2>1, <2>3, <2>4, <2>5 DEF TakeEntry, ExactInv
  <1>10. CASE ReadAig \/ OpenOut \/ Redirect
    <2>1. /\ UNCHANGED <<aig, simOut, cur, buffer, printed>>
          /\ pc \in {"read", "open", "redirect"}
          /\ pc' \in {"open", "redirect", "aigsim"}
      BY <1>10 DEF ReadAig, OpenOut, Redirect, iteration, disk
    <2>2. cur \in AigFiles
      BY <1>1, <2>1 DEF TypeOK
    <2>3. simOut[Stem[cur]] = SubSeq(Rows(cur), 1, printed)
      BY <2>1, <2>2, RowsGrow DEF ExactInv
    <2> QED
      BY <1>1, <1>6, <2>1, <2>3 DEF ExactInv, Waiting
  <1>11. CASE AigsimPrint
    <2>1. /\ UNCHANGED <<aig, cur, buffer>> /\ pc = "aigsim" /\ pc' = "aigsim"
          /\ printed \in 0..(NumVectors - 1) /\ printed' = printed + 1
          /\ WriteTo(stdout, <<Row(cur, printed + 1)>>)
          /\ cur \in AigFiles /\ stdout = Stem[cur]
      BY <1>1, <1>11, NeuronAssumption DEF AigsimPrint, TypeOK, OwnFileInv
    <2>2. simOut'[Stem[cur]] = SubSeq(Rows(cur), 1, printed) \o <<Row(cur, printed + 1)>>
      BY <1>3, <2>1 DEF WriteTo, ExactInv
    <2>3. simOut'[Stem[cur]] = SubSeq(Rows(cur), 1, printed')
      BY <2>1, <2>2, RowsGrow
    <2> QED
      BY <1>1, <1>6, <2>1, <2>3 DEF ExactInv, Waiting
  <1>12. CASE AigsimEnd
    <2>1. /\ UNCHANGED <<aig, cur, buffer>> /\ pc = "aigsim" /\ pc' = "flush"
          /\ printed = NumVectors /\ printed' = 0
          /\ WriteTo(stdout, Trailer) /\ cur \in AigFiles /\ stdout = Stem[cur]
      BY <1>1, <1>12 DEF AigsimEnd, TypeOK, OwnFileInv
    <2>2. simOut'[Stem[cur]] = Rows(cur) \o Trailer
      BY <1>3, <2>1, RowsGrow DEF WriteTo, ExactInv
    <2>3. simOut'[Stem[cur]] \in Simulated(cur)
      BY <2>2 DEF Simulated
    <2> QED
      BY <1>1, <1>6, <2>1, <2>3
         DEF ExactInv, Waiting
  <1>13. CASE AigsimFails
    <2>1. /\ UNCHANGED <<aig, simOut, cur, buffer>> /\ pc = "aigsim" /\ pc' = "flush"
          /\ printed \in 0..NumVectors /\ printed' = 0 /\ "aigsim" \in MayFail
      BY <1>1, <1>13 DEF AigsimFails, TypeOK, disk
    <2>2. simOut[Stem[cur]] \in Simulated(cur)
      BY <2>1 DEF ExactInv, Simulated
    <2> QED
      BY <1>1, <1>6, <2>1, <2>2
         DEF ExactInv, Waiting
  <1>14. CASE FlushStdout
    <2>1. /\ UNCHANGED <<aig, cur, printed>> /\ pc = "flush" /\ pc' = "restore"
          /\ WriteTo(stdout, buffer) /\ buffer' = <<>>
          /\ cur \in AigFiles /\ stdout = Stem[cur]
      BY <1>1, <1>14 DEF FlushStdout, TypeOK, OwnFileInv, iteration
    <2>2. simOut'[Stem[cur]] = simOut[Stem[cur]] \o Waiting
      BY <1>3, <2>1 DEF WriteTo, ExactInv
    <2>3. simOut'[Stem[cur]] \in Expected(cur)
      BY <2>1, <2>2 DEF Expected, Waiting, ExactInv
    <2> QED
      BY <1>1, <1>6, <2>1, <2>3
         DEF ExactInv
  <1>15. CASE RestoreStdout
    <2>1. /\ UNCHANGED <<aig, simOut, cur, buffer, printed>>
          /\ pc = "restore" /\ pc' = "remove"
      BY <1>15 DEF RestoreStdout, disk
    <2> QED
      BY <1>1, <1>6, <2>1
         DEF ExactInv
  <1>16. CASE RemoveAig
    <2>1. /\ UNCHANGED <<simOut, buffer, printed>> /\ cur' = NoFile
          /\ aig' = aig \ {cur} /\ pc = "remove" /\ pc' = "readdir"
      BY <1>16 DEF RemoveAig, Undisturbed
    <2>2. \A n \in AigFiles : FileExact(n)'
      BY <1>2, <1>5, <2>1 DEF ExactInv, FileExact
    <2> QED
      BY <1>1, <2>1, <2>2 DEF ExactInv
  <1>17. /\ EndOfDir \/ ReadAigRejected \/ OpenOutFails \/ RedirectFails
              => \E lines : Exit(lines)
         /\ ReadAigNull \/ Kill => Die
    BY DEF EndOfDir, ReadAigRejected, OpenOutFails, RedirectFails, ReadAigNull, Kill
  <1>18. CASE \/ EndOfDir \/ ReadAigRejected \/ OpenOutFails \/ RedirectFails
              \/ ReadAigNull \/ Kill
    <2>1. /\ aig' = aig /\ pc \in {"off", "readdir", "read", "open", "redirect"}
      BY <1>18 DEF EndOfDir, ReadAigRejected, OpenOutFails, RedirectFails,
                   ReadAigNull, Kill, Undisturbed
    <2> QED
      BY <1>7, <1>17, <1>18, <2>1 DEF Exit, Die
  <1> QED
    BY <1>8, <1>9, <1>10, <1>11, <1>12, <1>13, <1>14, <1>15, <1>16, <1>18
       DEF Next, Launch, Step, Iterate, Prepare, Simulate, Finish, Idle

\* A neuron's output file is there when its AIG is deleted, and stays.
PresentInv ==
    /\ TypeInv
    /\ \A n \in AigFiles \ aig : Stem[n] \in simFiles
    /\ pc \in {"redirect", "aigsim", "flush", "restore", "remove"} => Stem[cur] \in simFiles

LEMMA PresentNext == PresentInv /\ [Next]_simVars => PresentInv'
  <1> SUFFICES ASSUME PresentInv, [Next]_simVars
               PROVE  PresentInv'
    OBVIOUS
  <1>1. TypeInv'
    BY TypeInvNext DEF PresentInv
  <1>2. CASE RemoveAig
    BY <1>1, <1>2 DEF RemoveAig, PresentInv
  <1>3. CASE OpenOut
    BY <1>1, <1>3 DEF OpenOut, iteration, PresentInv
  <1>4. CASE ~RemoveAig /\ ~OpenOut
    <2>1. UNCHANGED <<aig, simFiles>>
      BY <1>4 DEF Next, Launch, OpenDir, OpenDirFails, Step, Iterate, SkipEntry, TakeEntry,
           EndOfDir, Prepare, ReadAig, ReadAigRejected, ReadAigNull,
           OpenOutFails, Redirect, RedirectFails, Simulate, AigsimPrint, AigsimEnd,
           AigsimFails, Finish, FlushStdout, RestoreStdout, Kill, Idle, disk, simVars
    <2>2. pc' \in {"redirect", "aigsim", "flush", "restore", "remove"} =>
            cur' = cur /\ pc \in {"redirect", "aigsim", "flush", "restore", "remove"}
      BY <1>4 DEF Next, Launch, OpenDir, OpenDirFails, Step, Iterate, SkipEntry, TakeEntry,
           EndOfDir, Prepare, ReadAig, ReadAigRejected, ReadAigNull,
           OpenOutFails, Redirect, RedirectFails, Simulate, AigsimPrint, AigsimEnd,
           AigsimFails, Finish, FlushStdout, RestoreStdout, Kill, Idle, Exit, Die, Gone,
           iteration, process, disk, simVars
    <2> QED
      BY <1>1, <2>1, <2>2 DEF PresentInv
  <1> QED
    BY <1>2, <1>3, <1>4

\* Interrupted before aigsim starts, started again, and with any call but
\* remove failing, the program leaves in every output file what it would have
\* left in one go, once.
THEOREM OutputsAlwaysExact ==
    ASSUME Undisturbed
    PROVE  Spec => []OutputsExact
  <1>1. Init => ExactInv
    BY ExactInit
  <1>2. ExactInv /\ [Next]_simVars => ExactInv'
    BY ExactNext
  <1>3. Init => PresentInv
    BY TypeInvInit DEF Init, DiskInit, ProcessInit, PresentInv
  <1>4. ExactInv /\ PresentInv => OutputsExact
    BY DEF ExactInv, PresentInv, FileExact, OutputsExact
  <1> QED
    BY <1>1, <1>2, <1>3, <1>4, PresentNext, PTL DEF Spec
=============================================================================
