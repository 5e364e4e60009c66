----------------------------- MODULE AigerFile -----------------------------
(***************************************************************************)
(* Files in AIGER format: aiger_read_generic and aiger_write_generic.      *)
(*                                                                         *)
(* A file is its mode, the counts of its header, its lines as sequences of *)
(* numbers, the codes of the ands of a binary file, and its symbol table.  *)
(* A line that is cut or has something else than numbers is a line of the  *)
(* wrong length; so is one behind the end of the file.  The sizes of the   *)
(* justice properties, a section of its own before their literals, are no  *)
(* lines here: a property is the line of its literals.  Wrong sizes group  *)
(* the same literals otherwise, leave some of them for the section behind  *)
(* or take some from there; each is another sequence of lines.  After an   *)
(* error the library is only good for reporting it, so what an item that   *)
(* fails has added before it fails is left out.                            *)
(***************************************************************************)
EXTENDS Aiger

CONSTANTS
    GroupBits,  \* bits of a delta in a byte of its code: 7
    WordBits,   \* bits of unsigned: 32
    MaxGroups,  \* bytes of the code of a word: 5
    LastLimit   \* bound on a byte after so many: 8

\* Powers of two.  (The provers know no '^'.)
Power[k \in 0..WordBits] == IF k = 0 THEN 1 ELSE 2 * Power[k - 1]
Word == Power[WordBits]
Group == Power[GroupBits]

ASSUME WordAssumption ==
    /\ WordBits \in Nat /\ GroupBits \in 1..WordBits /\ MaxGroups \in Nat
    /\ MaxGroups * GroupBits >= WordBits /\ (MaxGroups - 1) * GroupBits < WordBits

VARIABLES file, line

(***************************************************************************)
(* Deltas.  A code is the sequence of its groups; all its bytes but the    *)
(* last say that it goes on.                                               *)
(***************************************************************************)
WriteDelta(delta) ==
    LET code[n \in 0..delta] ==
          IF n < Group THEN <<n>> ELSE <<n % Group>> \o code[n \div Group]
    IN  code[delta]

\* Bits that are shifted out of a word are lost; a shift by more than the bits
\* of a word shifts by the rest.  Such a shift can only meet the last group.
Shifted(group, i) == (group * Power[(GroupBits * i) % WordBits]) % Word

\* Mutant: the limit is applied to the last byte of a word.
DeltaAcceptedLimited(code, whole) ==
    whole /\ code # <<>> /\ ~(Len(code) = MaxGroups /\ Last(code) >= LastLimit)

\* The code is not cut ("whole") and its length and last byte are accepted.
DeltaAccepted(code, whole) ==
    /\ whole /\ code # <<>>
    /\ Len(code) - 1 <= MaxGroups
    /\ ~(Len(code) - 1 = MaxGroups /\ Last(code) >= LastLimit)

\* '|=' collects the bits of all groups.
ReadDelta(code) ==
    LET bit(k) == \E i \in 1..Len(code) : (Shifted(code[i], i - 1) \div Power[k]) % 2 = 1
        sum[k \in 0..WordBits] ==
          IF k = 0 THEN 0 ELSE sum[k - 1] + (IF bit(k - 1) THEN Power[k - 1] ELSE 0)
    IN  sum[WordBits]

(***************************************************************************)
(* Reading.                                                                *)
(***************************************************************************)
\* aiger_read_number goes on from 2^32 with 0, in the header and the symbol
\* table too.
Wrapped(n) == n % Word
Numbers == IF line <= Len(file.lines)
           THEN [k \in 1..Len(file.lines[line]) |-> Wrapped(file.lines[line][k])]
           ELSE <<>>

\* Mutant: aiger_already_defined is not called.
DefinableTwice(lit) == lit # 0 /\ ~IsNeg(lit) /\ Var(lit) <= aig.maxvar

\* The literal can be defined: unsigned, within the header's bound, new.
Definable(lit) ==
    lit # 0 /\ ~IsNeg(lit) /\ Var(lit) <= aig.maxvar /\ types[Var(lit)].is = "none"
InRange(lit) == Var(lit) <= aig.maxvar

Header ==
    [ maxvar  |-> Wrapped(file.header.maxvar),  inputs |-> Wrapped(file.header.inputs),
      latches |-> Wrapped(file.header.latches), ands   |-> Wrapped(file.header.ands),
      symbols |-> [kind \in ToSet(Kinds) |-> Wrapped(file.header.symbols[kind])] ]
Ascii == file.mode = "ascii"

\* An item is added, or the file is refused.
Read(ok, add) == IF ok THEN add /\ at' = at ELSE at' = "failed" /\ UNCHANGED <<aig, types>>

ReadHeader ==
    /\ at = "open"
    /\ IF ~Ascii /\ (Header.inputs + Header.latches + Header.ands) % Word # Header.maxvar
       THEN at' = "failed" /\ UNCHANGED <<aig, types>>
       ELSE /\ at' = "read"
            /\ aig' = [EmptyGraph EXCEPT !.maxvar = Header.maxvar]
            /\ types' = [v \in 0..Header.maxvar |-> Untyped]
    /\ line' = 1
    /\ UNCHANGED <<stack, file>>

InputsRead == Len(aig.inputs) = Header.inputs
LatchesRead == InputsRead /\ Len(aig.latches) = Header.latches
KindsRead(n) == LatchesRead /\ \A m \in 1..n : Len(aig.symbols[Kinds[m]]) = Header.symbols[Kinds[m]]
SymbolsRead == KindsRead(Len(Kinds))
AndsRead == SymbolsRead /\ Len(aig.ands) = Header.ands

ReadInput ==
    /\ at = "read" /\ ~InputsRead
    /\ IF Ascii
       THEN /\ Read(Len(Numbers) = 1 /\ Definable(Numbers[1]), AddInput(Numbers[1]))
            /\ line' = line + 1
       ELSE AddInput(2 * (Len(aig.inputs) + 1)) /\ UNCHANGED <<at, line>>
    /\ UNCHANGED <<stack, file>>

\* "lit next [reset]"; a binary file leaves lit out.  The reset value is taken
\* as it is.
ReadLatch ==
    /\ at = "read" /\ InputsRead /\ ~LatchesRead
    /\ LET ns == IF Ascii THEN Numbers
                 ELSE <<2 * (Header.inputs + Len(aig.latches) + 1)>> \o Numbers IN
       Read( /\ Len(ns) \in {2, 3}
             /\ Ascii => Definable(ns[1])
             /\ InRange(ns[2]),
             AddLatch(ns[1], ns[2], IF Len(ns) = 3 THEN ns[3] ELSE 0) )
    /\ line' = line + 1
    /\ UNCHANGED <<stack, file>>

\* The literals of a justice property are not compared with the bound.
ReadSymbol ==
    /\ at = "read" /\ LatchesRead
    /\ \E n \in 1..Len(Kinds) :
         /\ KindsRead(n - 1) /\ ~KindsRead(n)
         /\ LET lits == Numbers IN
            Read( IF Kinds[n] = "justice" THEN line <= Len(file.lines)
                  ELSE Len(lits) = 1 /\ InRange(lits[1]),
                  AddSymbol(Kinds[n], lits) )
    /\ line' = line + 1
    /\ UNCHANGED <<stack, file>>

ReadAsciiAnd ==
    /\ at = "read" /\ SymbolsRead /\ ~AndsRead /\ Ascii
    /\ LET ns == Numbers IN
       Read( Len(ns) = 3 /\ Definable(ns[1]) /\ InRange(ns[2]) /\ InRange(ns[3]),
             AddAnd(ns[1], ns[2], ns[3]) )
    /\ line' = line + 1
    /\ UNCHANGED <<stack, file>>

\* Two deltas: from the and to its first operand, from there to the second.
ReadBinaryAnd ==
    /\ at = "read" /\ SymbolsRead /\ ~AndsRead /\ ~Ascii
    /\ LET n == Len(aig.ands) + 1
           lhs == 2 * (Header.inputs + Header.latches + n)
           here(k) == 2 * n - 2 + k
           accepted(k) == here(k) <= Len(file.codes) /\
                          DeltaAccepted(file.codes[here(k)], ~file.cut \/ here(k) < Len(file.codes))
           delta(k) == ReadDelta(file.codes[here(k)])
           rhs0 == lhs - delta(1) IN
       Read( /\ accepted(1) /\ delta(1) <= lhs
             /\ accepted(2) /\ delta(2) <= rhs0,
             AddAnd(lhs, rhs0, rhs0 - delta(2)) )
    /\ UNCHANGED <<stack, file, line>>

\* The symbol table: each entry names an entry of the graph not yet named.  Of
\* what comes before it in the file nothing may be left.
SizeOf(kind) == IF kind = "input" THEN Len(aig.inputs)
                ELSE IF kind = "latch" THEN Len(aig.latches)
                ELSE IF kind \in ToSet(Kinds) THEN Len(aig.symbols[kind]) ELSE 0
NamesSeen ==
    [k \in 1..Len(file.names) |-> [file.names[k] EXCEPT !.place = Wrapped(@ - 1) + 1]]
ReadNames ==
    /\ at = "read" /\ AndsRead
    /\ IF /\ line > Len(file.lines) /\ (Ascii \/ Len(file.codes) = 2 * Header.ands)
          /\ \A k \in 1..Len(file.names) : NamesSeen[k].place <= SizeOf(NamesSeen[k].kind)
          /\ IsInjective(NamesSeen)
       THEN aig' = [aig EXCEPT !.names = ToSet(NamesSeen)] /\ at' = "check"
       ELSE at' = "failed" /\ UNCHANGED aig
    /\ UNCHANGED <<types, stack, file, line>>

ReadStep == \/ ReadHeader \/ ReadInput \/ ReadLatch \/ ReadSymbol
            \/ ReadAsciiAnd \/ ReadBinaryAnd \/ ReadNames

(***************************************************************************)
(* Writing.                                                                *)
(***************************************************************************)
HeaderOf(a) ==
    [ maxvar |-> a.maxvar, inputs |-> Len(a.inputs), latches |-> Len(a.latches),
      ands |-> Len(a.ands), symbols |-> [k \in ToSet(Kinds) |-> Len(a.symbols[k])] ]

\* Mutant: only a reset value of 1 is written.
LatchLineShort(latch, compact) ==
    (IF compact THEN <<>> ELSE <<latch.lit>>) \o <<latch.next>>
      \o (IF latch.reset = 1 THEN <<1>> ELSE <<>>)

\* A reset value of 0 is not written.
LatchLine(latch, compact) ==
    (IF compact THEN <<>> ELSE <<latch.lit>>) \o <<latch.next>>
      \o (IF latch.reset = 0 THEN <<>> ELSE <<latch.reset>>)

Lines(a, compact) ==
    (IF compact THEN <<>> ELSE [k \in 1..Len(a.inputs) |-> <<a.inputs[k]>>])
      \o [k \in 1..Len(a.latches) |-> LatchLine(a.latches[k], compact)]
      \o FlattenSeq([n \in 1..Len(Kinds) |-> a.symbols[Kinds[n]]])

AsciiFile(a) ==
    [ mode |-> "ascii", header |-> HeaderOf(a), codes |-> <<>>, cut |-> FALSE,
      lines |-> Lines(a, FALSE) \o
                  [k \in 1..Len(a.ands) |-> <<a.ands[k].lhs, a.ands[k].rhs0, a.ands[k].rhs1>>],
      names |-> SetToSeq(a.names) ]

\* The deltas count from the place of an and, not from its literal.
BinaryFile(a) ==
    LET lhs(k) == MaxInputOrLatch(a) + 2 * k IN
    [ mode |-> "binary", header |-> HeaderOf(a), lines |-> Lines(a, TRUE), cut |-> FALSE,
      codes |-> FlattenSeq([k \in 1..Len(a.ands) |->
                  <<WriteDelta(lhs(k) - a.ands[k].rhs0),
                    WriteDelta(a.ands[k].rhs0 - a.ands[k].rhs1)>>]),
      names |-> SetToSeq(a.names) ]
=============================================================================
