---------------------------- MODULE MCAigerTools ----------------------------
(***************************************************************************)
(* Files for AigerTools: small graphs in both formats, and damaged files.  *)
(***************************************************************************)
EXTENDS AigerTools

Some(o, b, c, j, f) == [output |-> o, bad |-> b, constraint |-> c, justice |-> j, fairness |-> f]
Announce(m, i, l, a, symbols) ==
    [maxvar |-> m, inputs |-> i, latches |-> l, ands |-> a, symbols |-> symbols]
File(mode, header, lines, codes) ==
    [mode |-> mode, header |-> header, lines |-> lines, codes |-> codes, cut |-> FALSE, names |-> <<>>]
Output == Some(1, 0, 0, 0, 0)

\* Two inputs, two ands and an output in any order, and one variable that
\* nothing defines where the header allows it: cycles, constants and dead ands.
Orders == { <<2, 4, 6, 8>>, <<4, 2, 8, 6>>, <<8, 2, 4, 6>>, <<6, 4, 2, 8>> }
Literals(m) == {1, 5, 6, 9} \cup (IF m = 5 THEN {10} ELSE {})
Pairs(m) == { <<x, y>> : x \in Literals(m), y \in Literals(m) }
TwoAnds ==
    { File("ascii", Announce(m, 2, 0, 2, Output),
           << <<o[1]>>, <<o[2]>>, <<out>>, <<o[3]>> \o p, <<o[4]>> \o q >>, <<>>) :
        m \in {4, 5}, o \in Orders, p \in Pairs(4), q \in Pairs(5), out \in {6, 9} }

\* Three ands: longer cycles, ands shared by two others, an unused variable.
ThreePairs == { <<2, 3>>, <<4, 6>>, <<6, 9>>, <<9, 4>>, <<2, 4>>, <<6, 3>> }
ThreeAnds ==
    { File("ascii", Announce(m, 1, 0, 3, Output),
           << <<2>>, <<8>>, <<o[1]>> \o p, <<o[2]>> \o q, <<o[3]>> \o r >>, <<>>) :
        m \in {4, 5}, o \in {<<4, 6, 8>>, <<8, 4, 6>>}, p \in ThreePairs, q \in ThreePairs, r \in ThreePairs }

\* An input, a latch and an and in any order, and symbols of every kind.  A reset
\* value should be 0, 1 or the latch; others are an and, negated or not, a variable
\* that nothing defines and one beyond the maximum.
Symbols(x, y) ==
    { [of |-> Some(1, 1, 0, 0, 0), lits |-> << <<x>>, <<y>> >>],
      [of |-> Some(0, 0, 1, 1, 0), lits |-> << <<x>>, <<y, x>> >>],
      [of |-> Some(1, 0, 0, 1, 1), lits |-> << <<y>>, <<>>, <<x>> >>] }
Resets(latch, and) == {<<>>, <<1>>, <<latch>>, <<and>>, <<latch + 1>>}
Latches ==
    UNION { { [File("ascii", Announce(3, 1, 1, 1, s.of),
                    << <<o[1]>>, <<o[2], next>> \o reset >> \o s.lits \o << <<o[3]>> \o p >>, <<>>)
                 EXCEPT !.names = << [kind |-> "output", place |-> 1] >>] :
              next \in {1, 2, 7}, reset \in Resets(o[2], o[3] + 1),
              p \in {<<2, 5>>, <<7, 4>>, <<3, 1>>}, s \in Symbols(o[2] + 1, o[3]) } :
            o \in {<<2, 4, 6>>, <<6, 2, 4>>, <<4, 6, 2>>, <<2, 6, 4>>} }

\* Two latches whose reset values take part in the numbering of two ands.
Dependent ==
    { File("ascii", Announce(6, 0, 2, 2, Output),
           << <<8, 4, r>>, <<4, 1, s>>, <<out>>, <<6, 4, 9>>, <<2, 6, 8>> >>, <<>>) :
        r \in {2, 3, 6, 11, 14}, s \in {2, 7, 10, 12, 255}, out \in {0, 3, 7} }

\* A binary file: an input, a latch and two ands, with codes that are the
\* shortest, longer than needed, longer than a word, or cut.  A code that
\* fills the bytes of a word and goes on is accepted.
Short == {<<0>>, <<2>>, <<5>>, <<0, 1>>}
Codes == Short \cup {<<2, 0>>, <<1, 0, 0>>, <<1, 0, 4>>, <<2, 0, 0, 1>>, <<2, 0, 0, 2>>, <<0, 0, 0, 0, 0>>}
Binaries ==
    { [File("binary", Announce(4, 1, 1, 2, Output), << <<6, 1>>, <<9>> >>, <<c, d, e, f>>)
         EXCEPT !.cut = cut] :
        c \in Codes, d \in Short, e \in Short, f \in Codes, cut \in BOOLEAN }

\* A good file with one number changed, a number or a line missing or too
\* many, a header that announces something else, or a bad symbol table.
\* 260 is 4 for a reader with words of 8 bits, and 257 entries are one.
Good == File("ascii", Announce(4, 1, 1, 2, Some(1, 1, 0, 1, 0)),
             << <<2>>, <<4, 9>>, <<7>>, <<8>>, <<8, 5>>, <<6, 4, 3>>, <<8, 6, 2>> >>, <<>>)
Places == 1..Len(Good.lines)
Name(kind, place) == [kind |-> kind, place |-> place]
Damaged ==
    { [Good EXCEPT !.lines[k][m] = n] : k \in Places, m \in 1..1, n \in {0, 1, 2, 6, 10, 11, 260, 262} }
      \cup { [Good EXCEPT !.lines[k][2] = n] : k \in {2, 5, 6, 7}, n \in {0, 3, 8, 10, 265} }
      \cup { [Good EXCEPT !.lines[k][2] = 20] : k \in {2, 5, 6, 7} }
      \cup { [Good EXCEPT !.lines[k] = Front(@)] : k \in Places }
      \cup { [Good EXCEPT !.lines[k] = Append(@, 1)] : k \in Places }
      \cup { [Good EXCEPT !.lines = RemoveAt(@, k)] : k \in Places }
      \cup { [Good EXCEPT !.lines = Append(@, <<8, 2, 4>>)] }
      \cup { [Good EXCEPT !.header[count] = n] : count \in {"maxvar", "inputs", "latches", "ands"}, n \in 0..4 }
      \cup { [Good EXCEPT !.header[count] = 256 + n] : count \in {"maxvar", "inputs", "latches", "ands"}, n \in 0..4 }
      \cup { [Good EXCEPT !.header.symbols[kind] = n] : kind \in ToSet(Kinds), n \in (0..2) \cup (256..258) }
      \cup { [Good EXCEPT !.names = names] :
               names \in { <<Name("input", 1), Name("bad", 1)>>, <<Name("and", 1)>>, <<Name("latch", 2)>>, <<Name("latch", 257)>>,
                           <<Name("justice", 1), Name("justice", 1)>>, <<Name("bad", 1), Name("bad", 257)>> } }

\* A justice property, read without a bound, names a variable beyond the
\* maximum; the and that defines it may come then.
Beyond ==
    { File("ascii", Announce(4, 1, 1, 2, Some(1, 0, 0, 1, 0)),
           << <<2>>, <<4, 7>>, <<6>>, justice, <<6, 4, 3>>, <<lhs, 6, 2>> >>, <<>>) :
        justice \in {<<8, 5>>, <<20, 5>>, <<21>>}, lhs \in {8, 18, 20, 22} }

BeyondFiles(t) == Beyond

MCFiles(t) ==
    CASE t = "aigsim"   -> Latches \cup TwoAnds
      [] t = "toBinary" -> Latches \cup Dependent \cup ThreeAnds \cup Beyond
      [] t = "toAscii"  -> Binaries \cup Damaged \cup Dependent \cup Beyond
=============================================================================
