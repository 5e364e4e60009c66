----------------------------- MODULE StrRemove -----------------------------
(***************************************************************************)
(* strremove of networkSimulatorAiger.c: takes every occurrence of sub out *)
(* of a C string, in place.  It names the output file of an AIG, so it     *)
(* decides which file the rows of a neuron go to.                          *)
(***************************************************************************)
EXTENDS Integers, Sequences

CONSTANTS
    Letters,   \* the characters of strings
    Nul,       \* the terminator
    Subs,      \* the strings to remove
    MaxLength  \* bound on the length of str

ASSUME StringAssumption ==
    /\ Nul \notin Letters
    /\ Subs \subseteq Seq(Letters)
    /\ MaxLength \in Nat

VARIABLES
    str,   \* the characters at str[0], str[1], ..., with the terminator
    sub,
    p,     \* offset of the pointer p from str
    size,
    found, \* has strstr just found an occurrence at p?
    given, \* str as it was passed
    done

removeVars == <<str, sub, p, size, found, given, done>>

\* Strings in memory: from offset i to the terminator.
StrLen(s, i) == (CHOOSE j \in i..(Len(s) - 1) :
                   s[j + 1] = Nul /\ \A k \in i..(j - 1) : s[k + 1] # Nul) - i
CString(s, i) == SubSeq(s, i + 1, i + StrLen(s, i))
OccursAt(s, t, i) == Len(t) <= StrLen(s, i) /\ SubSeq(s, i + 1, i + Len(t)) = t

\* memmove(str + to, str + from, n)
Memmove(s, to, from, n) ==
    [j \in 1..Len(s) |-> IF j - 1 \in to..(to + n - 1) THEN s[j + from - to] ELSE s[j]]

\* while ((p = strstr(p, sub)) != NULL)
Strstr ==
    /\ ~done /\ ~found /\ Len(sub) > 0
    /\ \E i \in p..(p + StrLen(str, p)) :
         /\ OccursAt(str, sub, i)
         /\ \A k \in p..(i - 1) : ~OccursAt(str, sub, k)
         /\ p' = i
    /\ found' = TRUE
    /\ UNCHANGED <<str, sub, size, given, done>>

\* Mutant: the terminator is not counted.
NewSizeShort ==
    IF size = 0 THEN p + StrLen(str, p + Len(sub)) ELSE size - Len(sub)

\* What is left of the string, the terminator included.
NewSize ==
    IF size = 0 THEN p + StrLen(str, p + Len(sub)) + 1 ELSE size - Len(sub)

\* Mutant: the pointer is moved on past the gap that was just closed.
RemoveAdvancing ==
    /\ found
    /\ size' = NewSize
    /\ str' = Memmove(str, p, p + Len(sub), NewSize - p)
    /\ p' = IF StrLen(str', p) = 0 THEN p ELSE p + 1
    /\ found' = FALSE
    /\ UNCHANGED <<sub, given, done>>

RemoveOccurrence ==
    /\ found
    /\ size' = NewSize
    /\ str' = Memmove(str, p, p + Len(sub), NewSize - p)
    /\ found' = FALSE
    /\ UNCHANGED <<sub, p, given, done>>

Return ==
    /\ ~done /\ ~found
    /\ Len(sub) > 0 => \A i \in p..(p + StrLen(str, p)) : ~OccursAt(str, sub, i)
    /\ done' = TRUE
    /\ UNCHANGED <<str, sub, p, size, found, given>>

Words == UNION {[1..n -> Letters] : n \in 0..MaxLength}

RemoveInit ==
    /\ given \in Words /\ sub \in Subs
    /\ str = Append(given, Nul)
    /\ p = 0 /\ size = 0 /\ found = FALSE /\ done = FALSE

RemoveStep == Strstr \/ RemoveOccurrence \/ Return
RemoveNext == RemoveStep \/ (done /\ UNCHANGED removeVars)

RemoveSpec == RemoveInit /\ [][RemoveNext]_removeVars /\ WF_removeVars(RemoveStep)

(***************************************************************************)
(* Properties.                                                             *)
(***************************************************************************)
\* The string t without its occurrences of u, taken from left to right.
Without(t, u) ==
    LET from[i \in 1..(Len(t) + 1)] ==
          IF i > Len(t) THEN <<>>
          ELSE IF Len(u) > 0 /\ i + Len(u) - 1 <= Len(t)
                    /\ SubSeq(t, i, i + Len(u) - 1) = u
               THEN from[i + Len(u)]
               ELSE <<t[i]>> \o from[i + 1]
    IN  from[1]

\* Lines 85-88, throughout the loop: what stands before p is final, what stands
\* from p on is as it was given, the string is terminated within its array,
\* size, once set, is its length with the terminator, and memmove reads and
\* writes within the array.
LoopInvariant ==
    /\ \E j \in p..(Len(str) - 1) : str[j + 1] = Nul
    /\ SubSeq(str, 1, p) \o Without(CString(str, p), sub) = Without(given, sub)
    /\ size # 0 => size = p + StrLen(str, p) + 1
    /\ found => p + Len(sub) + (NewSize - p) <= Len(str) /\ NewSize >= p + 1

\* strremove returns, and what it returns is the string without the
\* occurrences of sub it was given with; one that the removal itself brings
\* together may remain.
ReturnsWithout == <>(done /\ CString(str, 0) = Without(given, sub))
=============================================================================
