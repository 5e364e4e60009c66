----------------------------- MODULE AigerTools -----------------------------
(***************************************************************************)
(* Programs on the AIGER library, as far as they work on the graph:        *)
(* aigsim, which reads a file and brings it into the form it can simulate, *)
(* and aigtoaig, which reads a file and writes it again.  What aigtoaig    *)
(* writes is read once more, as the next program of a pipeline would.      *)
(***************************************************************************)
EXTENDS AigerFile, AigerCheck, AigerReencode

Tools == {"aigsim", "toBinary", "toAscii"}

CONSTANT Files(_)  \* the files a program may be given

\* A name of the symbol table; a letter that names nothing is "and" here.
Names == [kind : {"input", "latch", "and"} \cup ToSet(Kinds), place : Nat \ {0}]

\* A file is a header and lines of numbers, whatever they are.  The one bound is
\* memory: the variables that the reader takes from the header have literals
\* within a word, so there are less than 2^31 of them.
IsFile(f) ==
    /\ f.mode \in {"ascii", "binary"} /\ f.cut \in BOOLEAN
    /\ f.header \in [ maxvar : Nat, inputs : Nat, latches : Nat, ands : Nat,
                      symbols : [ToSet(Kinds) -> Nat] ]
    /\ 2 * Wrapped(f.header.maxvar) + 1 < Word
    /\ f.mode = "binary" =>
         Wrapped(f.header.inputs) + Wrapped(f.header.latches) + Wrapped(f.header.ands) < Word
    /\ f.lines \in Seq(Seq(Nat)) /\ f.codes \in Seq(Seq(Nat))
    /\ f.names \in Seq(Names)
ASSUME FilesAssumption == \A t \in Tools : \A f \in Files(t) : IsFile(f)

VARIABLES
    tool,     \* "aigsim", "toBinary" or "toAscii"
    pass,     \* 1, and 2 when the written file is read
    given     \* the graph of the first pass, when it was found correct

graphVars == <<aig, types, stack, at, file, line>>
searchVars == <<root, code, new, visit>>
toolVars == <<graphVars, searchVars, tool, pass, given>>

ToolsInit ==
    /\ tool \in Tools
    /\ file \in Files(tool)
    /\ aig = EmptyGraph /\ types = NoTypes /\ stack = <<>> /\ at = "open" /\ line = 1
    /\ root = 0 /\ code = NoCode /\ new = 0 /\ visit = 0
    /\ pass = 1 /\ given = EmptyGraph

Reading  == ReadStep /\ UNCHANGED <<searchVars, tool, pass, given>>
Checking == CheckStep /\ UNCHANGED <<file, line, code, new, visit, tool, pass, given>>
Recoded  == ReencodeStep /\ UNCHANGED <<file, line, root, tool, pass, given>>

Keep == /\ at = "checked" /\ pass = 1
        /\ given' = aig

\* aigsim, main: a graph without bad states takes its outputs for them.
MoveOutputs ==
    /\ Keep /\ tool = "aigsim"
    /\ aig' = IF aig.symbols["bad"] # <<>> THEN aig
              ELSE [aig EXCEPT !.symbols["bad"] = aig.symbols["output"],
                               !.names = @ \cup {[n EXCEPT !.kind = "bad"] :
                                                   n \in {m \in @ : m.kind = "output"}}]
    /\ at' = "reencode"
    /\ UNCHANGED <<types, stack, file, line, searchVars, tool, pass>>

\* aiger_write_binary re-encodes first.
PrepareBinary ==
    /\ Keep /\ tool = "toBinary"
    /\ at' = "reencode"
    /\ UNCHANGED <<aig, types, stack, file, line, searchVars, tool, pass>>

\* The file is written, and the library is reset and reads it.
Write(f) ==
    /\ file' = f
    /\ aig' = EmptyGraph /\ types' = NoTypes
    /\ at' = "open" /\ line' = 1 /\ pass' = 2
    /\ UNCHANGED <<stack, searchVars, tool>>

WriteAscii  == Keep /\ tool = "toAscii" /\ Write(AsciiFile(aig))
WriteBinary == at = "reencoded" /\ tool = "toBinary" /\ UNCHANGED given /\ Write(BinaryFile(aig))

Stopped == \/ at \in {"failed", "undefined"}
           \/ at = "checked" /\ pass = 2
           \/ at = "reencoded" /\ tool = "aigsim"

ToolStep == \/ Reading \/ Checking \/ Recoded
            \/ MoveOutputs \/ PrepareBinary \/ WriteAscii \/ WriteBinary
ToolsNext == ToolStep \/ (Stopped /\ UNCHANGED toolVars)
ToolsSpec == ToolsInit /\ [][ToolsNext]_toolVars /\ WF_toolVars(ToolStep)

(***************************************************************************)
(* Properties.                                                             *)
(***************************************************************************)
LitsOf(a) == 0..(2 * a.maxvar + 1)
IsGraph(a) ==
    a \in [ maxvar  : Nat,
           inputs  : Seq(LitsOf(a)),
           latches : Seq([lit : LitsOf(a), next : LitsOf(a), reset : 0..(Word - 1)]),
           symbols : [ToSet(Kinds) -> Seq(Seq(LitsOf(a)))],
           ands    : Seq([lhs : LitsOf(a), rhs0 : LitsOf(a), rhs1 : LitsOf(a)]),
           names   : SUBSET Names ]
Types == [is : {"none", "input", "latch", "and"}, idx : Nat, mark : BOOLEAN, onstack : BOOLEAN]

\* Every variable has its type, and every array an entry for all that is looked
\* up in it: literals are of the graph's variables, types is large enough for
\* them, also after re-encoding has set maxvar anew, and no more numbers are
\* handed out than there are variables.  Only re-encoding leaves its arrays, and
\* only for a reset value beyond the literals of the graph, which the reader takes
\* from a file because the test is an assertion.
ToolsTypeOK ==
    /\ IsGraph(aig) /\ IsGraph(given)
    /\ 0..aig.maxvar \subseteq DOMAIN types
    /\ types \in [DOMAIN types -> Types]
    /\ stack \in Seq(0..aig.maxvar)
    /\ at = "recode" => code \in [0..aig.maxvar -> LitsOf(aig)] /\ new \in 2..(2 * aig.maxvar + 2)
    /\ at = "undefined" => \E l \in ToSet(aig.latches) : Var(l.reset) > aig.maxvar
    /\ root \in Nat /\ line \in Nat
    /\ tool \in Tools /\ pass \in {1, 2}

\* types[v].idx leads to the entry that defines v, between any two calls (a
\* search is a call): it survives the sorting of the ands.
TypesAgree ==
    at \notin {"failed", "recode", "undefined"} =>
      \A v \in 1..aig.maxvar :
        LET t == types[v] IN
        CASE t.is = "input" -> aig.inputs[t.idx] = 2 * v
          [] t.is = "latch" -> aig.latches[t.idx].lit = 2 * v
          [] t.is = "and"   -> aig.ands[t.idx].lhs = 2 * v
          [] t.is = "none"  -> 2 * v \notin ToSet(Sources(aig)) \cup {g.lhs : g \in ToSet(aig.ands)}

\* aiger.h:224-231: aiger_check fails exactly if a used literal is undefined or
\* the ands depend on each other in a cycle.
Verdict ==
    \/ at' \notin {"checked", "failed"}
    \/ (at' = "checked") <=> (AllDefined /\ Acyclic)
CheckVerdict == [][(at \in {"check", "cycles"}) => Verdict]_toolVars

\* Whatever the file says: a graph that is accepted has the entries its header
\* announces, counted modulo 2^32 as every number is read, and no variable is
\* defined twice, or beyond the maximum.  The maximum is the header's, unless a
\* literal of a justice property, which is compared with nothing, has raised it.
LhsLits(a) == [k \in 1..Len(a.ands) |-> a.ands[k].lhs]
AcceptedAsAnnounced ==
    at = "check" =>
      LET defined == Sources(aig) \o LhsLits(aig) IN
      /\ HeaderOf(aig) = [Header EXCEPT !.maxvar = aig.maxvar]
      /\ aig.maxvar # Header.maxvar =>
           \E lit \in ToSet(FlattenSeq(aig.symbols["justice"])) :
             Var(lit) = aig.maxvar /\ aig.maxvar > Header.maxvar
      /\ IsInjective(defined)
      /\ \A lit \in ToSet(defined) : ~IsNeg(lit) /\ Var(lit) \in 1..aig.maxvar
      /\ \A lit \in ToSet(Sources(aig)) : Var(lit) <= Header.maxvar


\* The gates that the latches, by next or reset value, and the symbols of a graph
\* depend on.
Cones(a) ==
    LET gates == ToSet(a.ands)
        reads(S) == {Var(g.rhs0) : g \in {h \in gates : Var(h.lhs) \in S}}
                      \cup {Var(g.rhs1) : g \in {h \in gates : Var(h.lhs) \in S}}
        reach[n \in 0..Len(a.ands)] ==
          IF n = 0
          THEN (UNION {{Var(l.next), Var(l.reset)} : l \in ToSet(a.latches)})
                 \cup {Var(lit) : lit \in ToSet(SymbolLits(a))}
          ELSE reach[n - 1] \cup reads(reach[n - 1])
    IN  {g \in gates : Var(g.lhs) \in reach[Len(a.ands)]}

\* aiger.h:254-267: the variables are in the order the formats and aigsim rely
\* on, the ands right behind the latches, and ands outside all cones are gone.
\* A graph that has the form already is left as it is, dead ands, unused
\* variables and all.
ReencodedForm ==
    at = "reencoded" =>
      /\ IsReencoded(aig)
      /\ ~IsReencoded(given) =>
           /\ aig.maxvar = Len(aig.inputs) + Len(aig.latches) + Len(aig.ands)
           /\ Len(aig.ands) = Cardinality(Cones(given))

\* aigsim.c:274 simulates the new graph for the old one: latches, resets and
\* symbols have the functions they had.
FunctionsKept ==
    at = "reencoded" =>
      SameFunctions(given, aig, IF tool = "aigsim" THEN ToSet(Kinds) \ {"bad"} ELSE ToSet(Kinds))

\* What aigtoaig writes is read again and says the same, with one exception:
\* aiger_is_reencoded does not look at maxvar, so a graph that has the form
\* already and variables that nothing defines is written with a header the
\* binary format forbids (FORMAT:444), and the reader refuses it.
UnusedVariables(a) == a.maxvar > Len(a.inputs) + Len(a.latches) + Len(a.ands)
WrittenIsRead ==
    pass = 2 =>
      LET refused == tool = "toBinary" /\ IsReencoded(given) /\ UnusedVariables(given) IN
      /\ at = "failed" => refused
      /\ at = "checked" => /\ ~refused
                           /\ SameFunctions(given, aig, ToSet(Kinds))
                           /\ aig.names = given.names

\* Every delta of a word is read as it was written, though the limit on the
\* last byte counts one byte further than a word goes.  (It does not depend on
\* the file, and is looked at for files without ands only.)
DeltasKept ==
    at = "open" /\ Header.ands = 0 =>
      \A delta \in 0..(Word - 1) :
        DeltaAccepted(WriteDelta(delta), TRUE) /\ ReadDelta(WriteDelta(delta)) = delta

\* Reading, checking and re-encoding come to an end, whatever the file, or leave
\* what C defines.
ToolEnds == <>Stopped
=============================================================================
