------------------------ MODULE JoinOutputs_proofs ------------------------
(***************************************************************************)
(* Theorems about createInputsFromSimulated.cpp (modules JoinOutputs and   *)
(* JoinHistory).                                                           *)
(***************************************************************************)
EXTENDS JoinHistory, SetInduction, SequenceTheorems

(***************************************************************************)
(* The order of the columns.                                               *)
(***************************************************************************)
\* Every name has one place.
LEMMA Places ==
    /\ \A n \in OutNames : Place(n) \in 1..Len(SortedNames) /\ SortedNames[Place(n)] = n
    /\ \A m, n \in OutNames : Place(m) = Place(n) => m = n
    /\ Len(SortedNames) \in Nat
  <1>1. \A n \in OutNames : Place(n) \in 1..Len(SortedNames) /\ SortedNames[Place(n)] = n
    BY JoinAssumption DEF Place
  <1>2. \A m, n \in OutNames : Place(m) = Place(n) => m = n
    BY <1>1, Zenon
  <1>3. Len(SortedNames) \in Nat
    BY JoinAssumption
  <1> QED
    BY <1>1, <1>2, <1>3

LEMMA FiniteNames == \A S \in SUBSET OutNames : IsFiniteSet(S) /\ Cardinality(S) \in Nat
  <1> SUFFICES ASSUME NEW S \in SUBSET OutNames
               PROVE  IsFiniteSet(S) /\ Cardinality(S) \in Nat
    OBVIOUS
  <1> DEFINE place == [n \in S |-> Place(n)]
  <1>1. place \in Injection(S, 1..Len(SortedNames))
    BY Places DEF Injection, IsInjective
  <1>2. IsFiniteSet(1..Len(SortedNames))
    BY Places, FS_Interval
  <1> HIDE DEF place
  <1> QED
    BY <1>1, <1>2, FS_Injection, FS_CardinalityType

\* Among some names there is one that comes last.
LEMMA LastName ==
    ASSUME NEW S \in SUBSET OutNames, S # {}
    PROVE  \E m \in S : \A n \in S : Place(n) <= Place(m)
  <1> DEFINE places == {Place(n) : n \in S}
  <1>1. places \in SUBSET Nat /\ places # {} /\ \A k \in places : k <= Len(SortedNames)
    BY Places
  <1>2. PICK k \in places : \A j \in places : j <= k
    <2> HIDE DEF places
    <2> QED
      BY <1>1, Places, GreatestNatural
  <1> QED
    BY <1>2

\* Every set of names can be put in order: append the last to the others.
LEMMA OrderExists ==
    ASSUME NEW S \in SUBSET OutNames
    PROVE  \E s \in [1..Cardinality(S) -> S] : IsInOrder(s, S)
  <1> DEFINE N == Cardinality(OutNames)
             ordered(T) == \E s \in [1..Cardinality(T) -> T] : IsInOrder(s, T)
             F == {n \in Nat : \A T \in SUBSET OutNames : Cardinality(T) = n => ordered(T)}
  <1>1. 0 \in F
    <2> SUFFICES ASSUME NEW T \in SUBSET OutNames, Cardinality(T) = 0
                 PROVE  ordered(T)
      OBVIOUS
    <2>1. T = {}
      BY FiniteNames, FS_EmptySet
    <2>2. <<>> \in [1..Cardinality(T) -> T] /\ IsInOrder(<<>>, T)
      BY <2>1 DEF IsInOrder
    <2> QED
      BY <2>2
  <1>2. ASSUME NEW n \in Nat, n \in F
        PROVE  n + 1 \in F
    <2> SUFFICES ASSUME NEW T \in SUBSET OutNames, Cardinality(T) = n + 1
                 PROVE  ordered(T)
      OBVIOUS
    <2>1. T # {}
      BY FS_EmptySet
    <2>2. PICK m \in T : \A k \in T : Place(k) <= Place(m)
      BY <2>1, LastName
    <2> DEFINE U == T \ {m}
    <2>3. U \in SUBSET OutNames /\ Cardinality(U) = n
      BY FiniteNames, FS_RemoveElement
    <2>4. PICK s \in [1..n -> U] : IsInOrder(s, U)
      <3>1. ordered(U)
        BY <1>2, <2>3
      <3> QED
        BY <2>3, <3>1
    <2> DEFINE t == [i \in 1..(n + 1) |-> IF i = n + 1 THEN m ELSE s[i]]
    <2>5. t \in [1..(n + 1) -> T]
      OBVIOUS
    <2>6. \A k \in T : \E i \in DOMAIN t : t[i] = k
      <3> SUFFICES ASSUME NEW k \in T PROVE \E i \in 1..(n + 1) : t[i] = k
        OBVIOUS
      <3>1. CASE k = m
        <4>1. n + 1 \in 1..(n + 1) /\ t[n + 1] = k
          BY <3>1
        <4> QED
          BY <4>1
      <3>2. CASE k # m
        <4>1. PICK i \in 1..n : s[i] = k
          BY <2>4, <3>2 DEF IsInOrder
        <4>2. i \in 1..(n + 1) /\ t[i] = k
          BY <4>1
        <4> QED
          BY <4>2
      <3> QED
        BY <3>1, <3>2
    <2>7. \A i, j \in DOMAIN t : i < j => Place(t[i]) < Place(t[j])
      <3> SUFFICES ASSUME NEW i \in 1..(n + 1), NEW j \in 1..(n + 1), i < j
                   PROVE  Place(t[i]) < Place(t[j])
        OBVIOUS
      <3>1. i \in 1..n /\ t[i] = s[i] /\ s[i] \in U
        OBVIOUS
      <3>2. CASE j = n + 1
        <4>1. Place(s[i]) <= Place(m) /\ Place(s[i]) # Place(m)
          BY <2>2, <3>1, Places
        <4>2. Place(s[i]) \in Nat /\ Place(m) \in Nat
          BY <3>1, Places
        <4> QED
          BY <3>1, <3>2, <4>1, <4>2
      <3>3. CASE j # n + 1
        BY <2>4, <3>1, <3>3 DEF IsInOrder
      <3> QED
        BY <3>2, <3>3
    <2> HIDE DEF t
    <2> QED
      BY <2>5, <2>6, <2>7 DEF IsInOrder
  <1>3. Nat \subseteq F
    <2> HIDE DEF F
    <2> QED
      BY <1>1, <1>2, InductionOnNat
  <1>4. Cardinality(S) \in Nat
    BY FiniteNames
  <1> QED
    BY <1>3, <1>4

\* What sort() yields: every file once, in the order of the names.
LEMMA InOrderCorrect ==
    ASSUME NEW S \in SUBSET OutNames
    PROVE  /\ InOrder(S) \in Seq(S) /\ Len(InOrder(S)) = Cardinality(S)
           /\ {InOrder(S)[k] : k \in 1..Len(InOrder(S))} = S
           /\ \A j, k \in 1..Len(InOrder(S)) :
                j < k => Place(InOrder(S)[j]) < Place(InOrder(S)[k])
           /\ \A j, k \in 1..Len(InOrder(S)) : InOrder(S)[j] = InOrder(S)[k] => j = k
  <1> DEFINE s == InOrder(S)
  <1>1. s \in [1..Cardinality(S) -> S] /\ IsInOrder(s, S)
    BY OrderExists DEF InOrder
  <1>2. s \in Seq(S) /\ Len(s) = Cardinality(S) /\ DOMAIN s = 1..Len(s)
    BY <1>1, FiniteNames
  <1> HIDE DEF s
  <1>3. {s[k] : k \in 1..Len(s)} = S
    BY <1>1, <1>2 DEF IsInOrder
  <1>4. \A j, k \in 1..Len(s) : j < k => Place(s[j]) < Place(s[k])
    BY <1>1, <1>2 DEF IsInOrder
  <1>5. ASSUME NEW j \in 1..Len(s), NEW k \in 1..Len(s), s[j] = s[k]
        PROVE  j = k
    <2>1. Place(s[j]) \in Nat /\ Place(s[k]) = Place(s[j])
      BY <1>2, <1>5, Places
    <2>2. ~(j < k) /\ ~(k < j)
      BY <1>4, <2>1
    <2> QED
      BY <1>2, <2>2
  <1> QED
    BY <1>2, <1>3, <1>4, <1>5 DEF s

(***************************************************************************)
(* The number a line yields.                                               *)
(***************************************************************************)
\* The lines up to s that hold a character to take.
Held(lines, s) == {i \in 1..s : i \in DOMAIN lines /\ lines[i].kind # "blank"}

LEMMA LastHeld ==
    ASSUME NEW lines \in Seq(Lines), NEW s \in Nat, Held(lines, s) # {}
    PROVE  LET m == Max(Held(lines, s)) IN
           /\ m \in 1..Len(lines) /\ m <= s /\ \A i \in Held(lines, s) : i <= m
           /\ Taken(lines, s) = lines[m].val
  <1> DEFINE held == Held(lines, s)
  <1>1. held \in SUBSET Nat /\ \A i \in held : i <= s /\ i \in 1..Len(lines)
    BY DEF Held
  <1>2. Taken(lines, s) = lines[Max(held)].val
    BY DEF Taken, Held
  <1> HIDE DEF held
  <1>3. \E m \in held : \A i \in held : i <= m
    BY <1>1, GreatestNatural DEF held
  <1>4. Max(held) \in held /\ \A i \in held : i <= Max(held)
    BY <1>1, <1>3 DEF Max
  <1> QED
    BY <1>1, <1>2, <1>4 DEF held

\* A line that holds a character yields its own number ...
LEMMA TakenOwn ==
    ASSUME NEW lines \in Seq(Lines), NEW s \in 1..Len(lines), lines[s].kind # "blank"
    PROVE  Taken(lines, s) = lines[s].val
  <1>1. s \in Nat /\ s \in Held(lines, s)
    BY DEF Held
  <1>2. Max(Held(lines, s)) = s
    BY <1>1, LastHeld
  <1> QED
    BY <1>1, <1>2, LastHeld

\* ... and what is taken is always a number.
LEMMA TakenType ==
    ASSUME NEW lines \in Seq(Lines), NEW s \in Nat, stale \in Int
    PROVE  Taken(lines, s) \in Int
  <1>1. CASE Held(lines, s) = {}
    BY <1>1 DEF Taken, Held
  <1>2. CASE Held(lines, s) # {}
    <2>1. PICK m \in 1..Len(lines) : Taken(lines, s) = lines[m].val
      BY <1>2, LastHeld
    <2>2. lines[m] \in Lines
      OBVIOUS
    <2> QED
      BY <2>1, <2>2 DEF Lines
  <1> QED
    BY <1>1, <1>2

LEMMA ContentType ==
    ASSUME FolderOK, NEW n \in OutNames
    PROVE  Content(n) \in Seq(Lines)
  BY DEF FolderOK, Content

\* A column has a number per vector.
LEMMA ColumnType ==
    ASSUME FolderOK, NEW n \in OutNames, stale \in Int, NEW column \in Columns(n)
    PROVE  column \in [1..numSims -> Int]
  <1>1. CASE n \in Unreadable
    <2>1. PICK end \in Garbage \cup {stale} :
            column = [s \in 1..numSims |-> IF s % 2 = 1 THEN end ELSE stale]
      BY <1>1 DEF Columns
    <2>2. end \in Int
      BY JoinAssumption
    <2> QED
      BY <2>1, <2>2
  <1>2. CASE n \notin Unreadable
    <2>1. column = [s \in 1..numSims |-> Taken(simOut[n], s)]
      BY <1>2 DEF Columns
    <2>2. simOut[n] \in Seq(Lines)
      BY DEF FolderOK
    <2> QED
      BY <2>1, <2>2, TakenType
  <1> QED
    BY <1>1, <1>2

(***************************************************************************)
(* Type correctness.  There are no columns before the files are counted,   *)
(* no empty list of files after that, and a column per file in the end; no *)
(* row is counted before the first one is written.                         *)
(***************************************************************************)
JoinShape ==
    /\ joinPc \in {"off", "count"} => matrix = <<>>
    /\ joinPc \in {"read", "delete", "write"} => names # <<>>
    /\ joinPc = "delete" => matrix # <<>>
    /\ joinPc = "write" => Len(matrix) = Len(names)
    /\ joinPc # "write" => sim = 0

JoinTypeInv == JoinTypeOK /\ JoinShape

LEMMA JoinTypeInit == FolderOK /\ JoinInit => JoinTypeInv
  BY JoinAssumption DEF JoinInit, JoinTypeInv, JoinTypeOK, JoinShape, JoinPoints

\* A program that has ended leaves every variable with its type.
LEMMA JoinGoneType ==
    ASSUME JoinTypeInv, JoinGone, UNCHANGED <<simFiles, simOut, joined, joins>>
    PROVE  JoinTypeInv'
  <1>1. FolderOK'
    BY DEF JoinTypeInv, JoinTypeOK, FolderOK
  <1>2. stale' \in Int
    BY JoinAssumption DEF JoinGone
  <1>3. /\ joinPc' = "off" /\ names' = <<>> /\ numSims' = 0 /\ matrix' = <<>> /\ sim' = 0
        /\ names' \in Seq(OutNames) /\ matrix' \in Seq([1..numSims' -> Int])
        /\ Len(matrix') <= Len(names')
    BY DEF JoinGone
  <1>4. joined' \in Seq(Seq(Int)) /\ joins' \in 0..MaxJoins
    BY DEF JoinTypeInv, JoinTypeOK
  <1> QED
    BY <1>1, <1>2, <1>3, <1>4 DEF JoinTypeInv, JoinTypeOK, JoinShape

\* The row that WriteRow appends.
LEMMA RowWritten ==
    ASSUME JoinTypeInv, WriteRow
    PROVE  /\ Len(joined) \in Nat /\ Len(joined) < numSims /\ sim = Len(joined)
           /\ joined' \in Seq(Seq(Int)) /\ Len(joined') = Len(joined) + 1
           /\ \A s \in 1..Len(joined) : joined'[s] = joined[s]
           /\ joined'[Len(joined')] = [k \in 1..Len(names) |-> matrix[k][Len(joined')]]
  <1> DEFINE s == Len(joined) + 1
             row == [k \in 1..Len(names) |-> matrix[k][s]]
  <1>0. Len(joined) \in Nat /\ Len(joined) < numSims /\ sim = Len(joined)
    BY DEF WriteRow, JoinTypeInv, JoinTypeOK
  <1>1. /\ s \in 1..numSims /\ Len(matrix) = Len(names) /\ Len(names) \in Nat
        /\ joined \in Seq(Seq(Int)) /\ Len(joined) \in Nat
    BY <1>0 DEF WriteRow, JoinTypeInv, JoinTypeOK, JoinShape
  <1>2. \A k \in 1..Len(names) : matrix[k][s] \in Int
    BY <1>1 DEF JoinTypeInv, JoinTypeOK
  <1>3. row \in Seq(Int)
    BY <1>1, <1>2
  <1>4. joined' = Append(joined, row)
    BY <1>0 DEF WriteRow
  <1> HIDE DEF row
  <1>5. /\ joined' \in Seq(Seq(Int)) /\ Len(joined') = s
        /\ \A i \in 1..Len(joined) : joined'[i] = joined[i]
        /\ joined'[s] = row
    BY <1>1, <1>3, <1>4
  <1> QED
    BY <1>0, <1>5 DEF row

LEMMA JoinTypeNext == JoinTypeInv /\ [JoinNext]_joinVars => JoinTypeInv'
  <1> SUFFICES ASSUME JoinTypeInv, [JoinNext]_joinVars
               PROVE  JoinTypeInv'
    OBVIOUS
  <1> USE DEF JoinTypeInv
  <1>1. CASE ListFolder
    <2>1. names' \in Seq(OutNames) /\ Len(names') \in Nat
      <3>1. simFiles \in SUBSET OutNames
        BY DEF JoinTypeOK, FolderOK
      <3>2. InOrder(simFiles) \in Seq(simFiles)
        BY <3>1, InOrderCorrect
      <3>3. InOrder(simFiles) \in Seq(OutNames)
        BY <3>1, <3>2, SeqMonotonic
      <3> QED
        BY <1>1, <3>3 DEF ListFolder
    <2>2. matrix = <<>>
      BY <1>1 DEF ListFolder, JoinShape
    <2> QED
      BY <1>1, <2>1, <2>2, JoinAssumption
         DEF ListFolder, JoinTypeOK, JoinShape, JoinPoints, FolderOK
  <1>2. CASE ListFolderFails
    BY <1>2, JoinAssumption
       DEF ListFolderFails, locals, JoinTypeOK, JoinShape, JoinPoints, FolderOK
  <1>3. CASE CountSims
    <2>1. numSims' \in Nat
      BY <1>3, ContentType DEF CountSims, JoinTypeOK
    <2>2. matrix = <<>>
      BY <1>3 DEF CountSims, JoinShape
    <2> QED
      BY <1>3, <2>1, <2>2 DEF CountSims, JoinTypeOK, JoinShape, JoinPoints, FolderOK
  <1>4. CASE CountSimsNothing \/ OpenJoinedFails \/ Return \/ JoinKill
    BY <1>4, JoinGoneType DEF CountSimsNothing, OpenJoinedFails, Return, JoinKill
  <1>5. CASE ReadColumn
    <2>1. /\ Len(matrix) \in Nat /\ Len(matrix) + 1 \in 1..Len(names) /\ numSims \in Nat
          /\ names[Len(matrix) + 1] \in OutNames
      BY <1>5 DEF ReadColumn, JoinTypeOK
    <2>2. PICK column \in Columns(names[Len(matrix) + 1]) :
            /\ matrix' = Append(matrix, column)
            /\ stale' = IF numSims = 0 THEN stale ELSE column[numSims]
      BY <1>5 DEF ReadColumn
    <2>3. FolderOK /\ stale \in Int
      BY DEF JoinTypeOK
    <2>4. column \in [1..numSims -> Int]
      BY <2>1, <2>3, ColumnType
    <2>5. stale' \in Int
      BY <2>1, <2>2, <2>3, <2>4
    <2> DEFINE Column == [1..numSims -> Int]
    <2>6. matrix \in Seq(Column) /\ column \in Column /\ matrix' = Append(matrix, column)
      BY <2>2, <2>4 DEF JoinTypeOK
    <2> HIDE DEF Column
    <2>7. matrix' \in Seq(Column) /\ Len(matrix') = Len(matrix) + 1 /\ matrix' # <<>>
      BY <2>6
    <2>8. Len(matrix') <= Len(names)
      BY <2>1, <2>7
    <2>9. /\ joinPc = "read" /\ joinPc' = "delete"
          /\ UNCHANGED <<simFiles, simOut, joined, names, numSims, sim, joins>>
      BY <1>5 DEF ReadColumn
    <2>10. JoinTypeOK'
      BY <2>3, <2>5, <2>7, <2>8, <2>9 DEF JoinTypeOK, JoinPoints, FolderOK, Column
    <2> QED
      BY <2>7, <2>9, <2>10 DEF JoinShape
  <1>6. CASE Delete
    <2> DEFINE n == names[Len(matrix)]
    <2>1. \/ UNCHANGED folder
          \/ simFiles' = simFiles \ {n} /\ simOut' = [simOut EXCEPT ![n] = <<>>]
      BY <1>6 DEF Delete
    <2>2. FolderOK'
      <3>1. <<>> \in Seq(Lines)
        OBVIOUS
      <3> QED
        BY <2>1, <3>1 DEF folder, JoinTypeOK, FolderOK
    <2> QED
      BY <1>6, <2>2 DEF Delete, locals, JoinTypeOK, JoinShape, JoinPoints
  <1>7. CASE OpenJoined
    BY <1>7 DEF OpenJoined, locals, JoinTypeOK, JoinShape, JoinPoints, FolderOK
  <1>8. CASE WriteRow
    <2>1. /\ Len(joined) < numSims /\ Len(joined) \in Nat /\ sim = Len(joined)
          /\ joined' \in Seq(Seq(Int)) /\ Len(joined') = Len(joined) + 1
      BY <1>8, RowWritten
    <2> QED
      BY <1>8, <2>1 DEF WriteRow, locals, JoinTypeOK, JoinShape, JoinPoints, FolderOK
  <1>9. CASE UNCHANGED joinVars
    BY <1>9 DEF joinVars, JoinTypeOK, JoinShape, FolderOK
  <1> QED
    BY <1>1, <1>2, <1>3, <1>4, <1>5, <1>6, <1>7, <1>8, <1>9
       DEF JoinNext, JoinLaunch, JoinStep, JoinIdle

\* Every variable keeps its type, whatever is in the folder, fails or is killed.
THEOREM JoinTypeCorrect == JoinSpec => []JoinTypeOK
  <1>1. JoinTypeInv => JoinTypeOK
    BY DEF JoinTypeInv
  <1> QED
    BY <1>1, JoinTypeInit, JoinTypeNext, PTL DEF JoinSpec

(***************************************************************************)
(* Nothing is lost: what is deleted was read, what is truncated can be     *)
(* written again.                                                          *)
(***************************************************************************)
\* Column c holds what the lines tell: line s of them, if it holds a character,
\* stands in row s.
Agrees(c, lines, rows) ==
    \A s \in 1..rows : s <= Len(lines) /\ lines[s].kind # "blank" => c[s] = lines[s].val

\* Before a file is deleted the last column is the one of its lines.
LastColumnInv ==
    joinPc = "delete" =>
      LET n == names[Len(matrix)] IN
      n \notin Unreadable => Agrees(matrix[Len(matrix)], simOut[n], numSims)

\* The column that ReadColumn appends.
LEMMA ColumnRead ==
    ASSUME JoinTypeInv, ReadColumn
    PROVE  LET m == Len(matrix) + 1
               n == names[m]
               c == matrix'[m]
           IN  /\ m \in 1..Len(names) /\ n \in OutNames
               /\ Len(matrix') = m /\ \A k \in 1..Len(matrix) : matrix'[k] = matrix[k]
               /\ n \notin Unreadable => Agrees(c, simOut[n], numSims)
  <1> DEFINE m == Len(matrix) + 1
             n == names[m]
  <1>1. m \in 1..Len(names) /\ n \in OutNames /\ Len(matrix) \in Nat /\ FolderOK
        /\ stale \in Int
    BY DEF ReadColumn, JoinTypeInv, JoinTypeOK
  <1>2. PICK column \in Columns(n) : matrix' = Append(matrix, column)
    BY DEF ReadColumn
  <1>3. ASSUME n \notin Unreadable
        PROVE  Agrees(column, simOut[n], numSims)
    <2>1. simOut[n] \in Seq(Lines) /\ column = [s \in 1..numSims |-> Taken(simOut[n], s)]
      BY <1>1, <1>2, <1>3 DEF Columns, FolderOK
    <2> SUFFICES ASSUME NEW s \in 1..numSims, s <= Len(simOut[n]), simOut[n][s].kind # "blank"
                 PROVE  column[s] = simOut[n][s].val
      BY DEF Agrees
    <2>2. s \in Nat /\ s \in 1..Len(simOut[n])
      BY <2>1
    <2>3. Taken(simOut[n], s) = simOut[n][s].val
      BY <2>1, <2>2, TakenOwn
    <2> QED
      BY <2>1, <2>3
  <1>4. column \in [1..numSims -> Int]
    BY <1>1, ColumnType
  <1>5. /\ Len(matrix') = m /\ \A k \in 1..Len(matrix) : matrix'[k] = matrix[k]
        /\ matrix'[m] = column
    BY <1>1, <1>2, <1>4 DEF JoinTypeInv, JoinTypeOK
  <1> QED
    BY <1>1, <1>3, <1>5

LEMMA LastColumnNext ==
    JoinTypeInv /\ LastColumnInv /\ [JoinNext]_joinVars => LastColumnInv'
  <1> SUFFICES ASSUME JoinTypeInv, LastColumnInv, [JoinNext]_joinVars
               PROVE  LastColumnInv'
    OBVIOUS
  <1>1. CASE ReadColumn
    <2> DEFINE m == Len(matrix) + 1
    <2>1. /\ m \in 1..Len(names)
          /\ Len(matrix') = m
          /\ names[m] \notin Unreadable => Agrees(matrix'[m], simOut[names[m]], numSims)
      BY <1>1, ColumnRead
    <2> QED
      BY <1>1, <2>1 DEF ReadColumn, LastColumnInv, Agrees
  <1>2. CASE ~ReadColumn /\ JoinNext /\ ~UNCHANGED joinVars
    <2>1. joinPc' # "delete"
      BY <1>2 DEF JoinNext, JoinLaunch, JoinStep, JoinIdle, ListFolder, ListFolderFails,
                  CountSims, CountSimsNothing, Delete, OpenJoined, OpenJoinedFails,
                  WriteRow, Return, JoinKill, JoinGone
    <2> QED
      BY <2>1 DEF LastColumnInv
  <1>3. CASE UNCHANGED joinVars
    BY <1>3 DEF joinVars, LastColumnInv, Agrees
  <1> QED
    BY <1>1, <1>2, <1>3

\* Lines 42-51: a file that can be read is deleted only when its lines are a
\* column of the matrix.
THEOREM NothingUnreadDeleted == JoinSpec => DeletedOnlyWhenRead
  <1> DEFINE Step == \A n \in simFiles \ (simFiles' \cup Unreadable) :
                       \E k \in 1..Len(matrix) :
                         /\ names[k] = n
                         /\ \A s \in 1..numSims :
                              s <= Len(simOut[n]) /\ simOut[n][s].kind # "blank" =>
                                matrix[k][s] = simOut[n][s].val
  <1>1. JoinInit => LastColumnInv
    BY DEF JoinInit, LastColumnInv
  <1>2. JoinTypeInv /\ LastColumnInv /\ [JoinNext]_joinVars => [Step]_joinVars
    <2> SUFFICES ASSUME JoinTypeInv, LastColumnInv, JoinNext,
                        NEW n \in simFiles \ (simFiles' \cup Unreadable)
                 PROVE  \E k \in 1..Len(matrix) :
                          names[k] = n /\ Agrees(matrix[k], simOut[n], numSims)
      BY DEF Agrees
    <2>1. Delete /\ n = names[Len(matrix)]
      BY DEF JoinNext, JoinLaunch, JoinStep, JoinIdle, ListFolder, ListFolderFails,
             CountSims, CountSimsNothing, ReadColumn, Delete, OpenJoined, OpenJoinedFails,
             WriteRow, Return, JoinKill, joinVars, folder
    <2>2. Agrees(matrix[Len(matrix)], simOut[n], numSims)
      BY <2>1 DEF Delete, LastColumnInv
    <2>3. Len(matrix) \in 1..Len(matrix)
      BY <2>1 DEF Delete, JoinTypeInv, JoinTypeOK, JoinShape
    <2> QED
      BY <2>1, <2>2, <2>3
  <1> QED
    BY <1>1, <1>2, JoinTypeInit, JoinTypeNext, LastColumnNext, PTL
       DEF JoinSpec, DeletedOnlyWhenRead

\* Line 55: the joined file is truncated only when a column of every file is at
\* hand.
THEOREM NothingMissingTruncated == JoinSpec => TruncatedOnlyForAll
  <1> DEFINE Step == joined' # joined /\ joined' = <<>> =>
                       /\ names # <<>>
                       /\ Len(matrix) = Len(names)
                       /\ \A k \in 1..Len(matrix) : DOMAIN matrix[k] = 1..numSims
  <1>1. JoinTypeInv /\ [JoinNext]_joinVars => [Step]_joinVars
    <2> SUFFICES ASSUME JoinTypeInv, JoinNext, joined' # joined, joined' = <<>>
                 PROVE  /\ names # <<>>
                        /\ Len(matrix) = Len(names)
                        /\ \A k \in 1..Len(matrix) : DOMAIN matrix[k] = 1..numSims
      OBVIOUS
    <2>1. ~WriteRow
      BY RowWritten
    <2>2. OpenJoined
      BY <2>1 DEF JoinNext, JoinLaunch, JoinStep, JoinIdle, ListFolder, ListFolderFails,
             CountSims, CountSimsNothing, ReadColumn, Delete, OpenJoinedFails,
             Return, JoinKill, joinVars
    <2> QED
      BY <2>2 DEF OpenJoined, JoinTypeInv, JoinTypeOK, JoinShape
  <1> QED
    BY <1>1, JoinTypeInit, JoinTypeNext, PTL DEF JoinSpec, TruncatedOnlyForAll

(***************************************************************************)
(* What the joined file holds in the end.                                  *)
(***************************************************************************)
\* File k of the list has not been deleted yet.
Kept(k) == k > Len(matrix) \/ (joinPc = "delete" /\ k = Len(matrix))

\* While the program runs, its list is that of the folder it found, in order, the
\* files it has not deleted are as it found them, and the columns, and the rows
\* made of them, agree with what it found.
StackInv ==
    joinPc # "off" =>
      /\ given.files \subseteq OutNames
      /\ names = InOrder(given.files)
      /\ \A k \in 1..Len(names) : Kept(k) => simOut[names[k]] = given.lines[names[k]]
      /\ joinPc # "count" /\ names[1] \notin Unreadable =>
           numSims = Len(given.lines[names[1]])
      /\ \A k \in 1..Len(matrix) :
           names[k] \notin Unreadable => Agrees(matrix[k], given.lines[names[k]], numSims)
      /\ joinPc = "write" =>
           \A s \in 1..Len(joined) : joined[s] = [k \in 1..Len(names) |-> matrix[k][s]]

\* The list holds every file once.
LEMMA NamesOnce ==
    ASSUME JoinTypeInv, StackInv, joinPc # "off"
    PROVE  /\ \A j, k \in 1..Len(names) : names[j] = names[k] => j = k
           /\ {names[k] : k \in 1..Len(names)} = given.files
           /\ \A j, k \in 1..Len(names) : j < k => Place(names[j]) < Place(names[k])
  BY InOrderCorrect DEF StackInv

LEMMA StackNext ==
    JoinTypeInv /\ StackInv /\ [HistoryNext]_<<joinVars, given>> => StackInv'
  <1> SUFFICES ASSUME JoinTypeInv, StackInv, [HistoryNext]_<<joinVars, given>>,
                      joinPc' # "off"
               PROVE  StackInv'
    BY DEF StackInv
  <1>1. CASE HistoryNext /\ ListFolder
    <2>1. /\ joinPc' = "count" /\ names' = InOrder(simFiles) /\ simOut' = simOut
          /\ given' = Folder /\ matrix' = <<>>
      BY <1>1 DEF ListFolder, HistoryNext, JoinTypeInv, JoinShape
    <2>2. given'.files = simFiles /\ given'.lines = simOut /\ simFiles \subseteq OutNames
      BY <2>1 DEF Folder, JoinTypeInv, JoinTypeOK, FolderOK
    <2> QED
      BY <2>1, <2>2 DEF StackInv
  <1>2. CASE HistoryNext /\ CountSims
    <2>1. /\ joinPc = "count" /\ joinPc' = "read" /\ names # <<>>
          /\ numSims' = Len(Content(names[1])) /\ matrix = <<>>
          /\ UNCHANGED <<simOut, names, matrix, given>>
      BY <1>2 DEF CountSims, HistoryNext, JoinTypeInv, JoinShape
    <2>2. Len(names) \in Nat /\ 1 \in 1..Len(names) /\ Len(matrix) = 0
      BY <2>1 DEF JoinTypeInv, JoinTypeOK
    <2>3. \A k \in 1..Len(names) : simOut[names[k]] = given.lines[names[k]]
      BY <2>1, <2>2 DEF StackInv, Kept
    <2>4. names[1] \notin Unreadable => numSims' = Len(given.lines[names[1]])
      BY <2>1, <2>2, <2>3 DEF Content
    <2> QED
      BY <2>1, <2>2, <2>3, <2>4 DEF StackInv
  <1>3. CASE HistoryNext /\ ReadColumn
    <2> DEFINE m == Len(matrix) + 1
    <2>1. /\ m \in 1..Len(names)
          /\ Len(matrix') = m /\ \A k \in 1..Len(matrix) : matrix'[k] = matrix[k]
          /\ names[m] \notin Unreadable => Agrees(matrix'[m], simOut[names[m]], numSims)
      BY <1>3, ColumnRead
    <2>2. Len(matrix) \in Nat /\ Len(names) \in Nat
      BY DEF JoinTypeInv, JoinTypeOK
    <2>3. /\ joinPc = "read" /\ joinPc' = "delete"
          /\ UNCHANGED <<simOut, names, numSims, given>>
      BY <1>3 DEF ReadColumn, HistoryNext
    <2>4. simOut[names[m]] = given.lines[names[m]]
      BY <2>1, <2>2, <2>3 DEF StackInv, Kept
    <2>5. ASSUME NEW k \in 1..Len(matrix'), names[k] \notin Unreadable
          PROVE  Agrees(matrix'[k], given.lines[names[k]], numSims)
      <3>1. CASE k = m
        BY <2>1, <2>4, <2>5, <3>1
      <3>2. CASE k # m
        <4>1. k \in 1..Len(matrix) /\ matrix'[k] = matrix[k]
          BY <2>1, <2>2, <3>2
        <4> QED
          BY <2>3, <2>5, <4>1 DEF StackInv
      <3> QED
        BY <3>1, <3>2
    <2>6. \A k \in 1..Len(names) : Kept(k)' => Kept(k)
      BY <2>1, <2>2, <2>3 DEF Kept
    <2> QED
      BY <2>3, <2>5, <2>6 DEF StackInv, Agrees
  <1>4. CASE HistoryNext /\ Delete
    <2> DEFINE n == names[Len(matrix)]
    <2>1. /\ joinPc = "delete" /\ joinPc' = "read"
          /\ UNCHANGED <<names, numSims, matrix, given>>
          /\ simOut' = simOut \/ simOut' = [simOut EXCEPT ![n] = <<>>]
      BY <1>4 DEF Delete, HistoryNext, folder, locals
    <2>2. /\ simOut \in [OutNames -> Seq(Lines)] /\ names \in Seq(OutNames)
          /\ Len(matrix) \in Nat /\ Len(matrix) \in 1..Len(names)
      BY <2>1 DEF JoinTypeInv, JoinTypeOK, JoinShape, FolderOK
    <2>3. ASSUME NEW k \in 1..Len(names), Kept(k)'
          PROVE  simOut'[names[k]] = given.lines[names[k]]
      <3>1. Kept(k) /\ k # Len(matrix)
        BY <2>1, <2>2, <2>3 DEF Kept
      <3>2. names[k] # n
        BY <2>1, <2>2, <3>1, NamesOnce
      <3>3. simOut'[names[k]] = simOut[names[k]]
        BY <2>1, <2>2, <3>2
      <3> QED
        BY <2>1, <3>1, <3>3 DEF StackInv
    <2> QED
      BY <2>1, <2>3 DEF StackInv, Agrees
  <1>5. CASE HistoryNext /\ OpenJoined
    <2>1. /\ joinPc = "read" /\ joinPc' = "write" /\ joined' = <<>>
          /\ UNCHANGED <<simOut, names, numSims, matrix, given>>
      BY <1>5 DEF OpenJoined, HistoryNext, locals
    <2>2. \A k \in 1..Len(names) : Kept(k)' => Kept(k)
      BY <2>1 DEF Kept
    <2> QED
      BY <2>1, <2>2 DEF StackInv, Agrees
  <1>6. CASE HistoryNext /\ WriteRow
    <2>1. /\ joinPc = "write" /\ joinPc' = "write"
          /\ UNCHANGED <<simOut, names, numSims, matrix, given>>
      BY <1>6 DEF WriteRow, HistoryNext, locals
    <2>2. /\ Len(joined') = Len(joined) + 1 /\ Len(joined) \in Nat
          /\ \A s \in 1..Len(joined) : joined'[s] = joined[s]
          /\ joined'[Len(joined')] = [k \in 1..Len(names) |-> matrix[k][Len(joined')]]
      BY <1>6, RowWritten DEF JoinTypeInv, JoinTypeOK
    <2>3. ASSUME NEW s \in 1..Len(joined')
          PROVE  joined'[s] = [k \in 1..Len(names) |-> matrix[k][s]]
      <3>1. CASE s = Len(joined')
        BY <2>2, <3>1
      <3>2. CASE s # Len(joined')
        <4>1. s \in 1..Len(joined)
          BY <2>2, <3>2
        <4> QED
          BY <2>1, <2>2, <4>1 DEF StackInv
      <3> QED
        BY <3>1, <3>2
    <2>4. \A k \in 1..Len(names) : Kept(k)' => Kept(k)
      BY <2>1 DEF Kept
    <2> QED
      BY <2>1, <2>3, <2>4 DEF StackInv, Agrees
  <1>7. CASE UNCHANGED <<joinVars, given>>
    BY <1>7 DEF joinVars, StackInv, Kept, Agrees
  <1>8. CASE HistoryNext /\ (ListFolderFails \/ JoinIdle)
    BY <1>8 DEF ListFolderFails, JoinIdle, joinVars
  <1>9. CASE HistoryNext /\ (CountSimsNothing \/ OpenJoinedFails \/ Return \/ JoinKill)
    BY <1>9 DEF CountSimsNothing, OpenJoinedFails, Return, JoinKill, JoinGone
  <1> QED
    BY <1>1, <1>2, <1>3, <1>4, <1>5, <1>6, <1>7, <1>8, <1>9
       DEF HistoryNext, JoinNext, JoinLaunch, JoinStep

\* Lines 28-62: the finished file is the columns of the files that were there,
\* side by side in the order of the names, whatever is missing or malformed.
THEOREM JoinStacksInOrder == HistorySpec => []StackedInOrder
  <1>1. JoinInit => StackInv
    BY DEF JoinInit, StackInv
  <1>2. [HistoryNext]_<<joinVars, given>> => [JoinNext]_joinVars
    BY DEF HistoryNext, joinVars
  <1>3. JoinTypeInv /\ StackInv => StackedInOrder
    <2> SUFFICES ASSUME JoinTypeInv, StackInv, joinPc = "write", sim = numSims
                 PROVE  /\ {names[k] : k \in 1..Len(names)} = given.files
                        /\ \A j, k \in 1..Len(names) : j < k => Place(names[j]) < Place(names[k])
                        /\ names[1] \notin Unreadable =>
                             Len(joined) = Len(given.lines[names[1]])
                        /\ \A s \in 1..Len(joined), k \in 1..Len(names) :
                             names[k] \notin Unreadable /\ s <= Len(given.lines[names[k]])
                               /\ given.lines[names[k]][s].kind # "blank" =>
                                 joined[s][k] = given.lines[names[k]][s].val
      BY DEF StackedInOrder
    <2>0. Len(joined) = numSims
      BY DEF JoinTypeInv, JoinTypeOK
    <2>1. ASSUME NEW s \in 1..Len(joined), NEW k \in 1..Len(names),
                 names[k] \notin Unreadable, s <= Len(given.lines[names[k]]),
                 given.lines[names[k]][s].kind # "blank"
          PROVE  joined[s][k] = given.lines[names[k]][s].val
      <3>1. k \in 1..Len(matrix) /\ s \in 1..numSims
        BY <2>0 DEF JoinTypeInv, JoinShape
      <3>2. matrix[k][s] = given.lines[names[k]][s].val
        BY <2>1, <3>1 DEF StackInv, Agrees
      <3>3. joined[s][k] = matrix[k][s]
        BY DEF StackInv
      <3> QED
        BY <3>2, <3>3
    <2>2. names[1] \notin Unreadable => Len(joined) = Len(given.lines[names[1]])
      BY <2>0 DEF StackInv
    <2> QED
      BY <2>1, <2>2, NamesOnce
  <1> QED
    BY <1>1, <1>2, <1>3, JoinTypeInit, JoinTypeNext, StackNext, PTL DEF HistorySpec
=============================================================================
