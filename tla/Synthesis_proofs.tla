-------------------------- MODULE Synthesis_proofs --------------------------
(***************************************************************************)
(* Theorems about abcSynthesis.cpp and abcExe.cpp (modules AbcSynthesis    *)
(* and AbcScript).                                                         *)
(***************************************************************************)
EXTENDS AbcScript, SequenceTheorems, TLAPS

(***************************************************************************)
(* Types.                                                                  *)
(***************************************************************************)
\* The network of a PLA in one of its forms, and none at all.
LEMMA NetworkTypes ==
    /\ NoNetwork \in Networks
    /\ \A f \in PlaFiles, form \in {"none", "sop", "min", "hash", "torn"} :
         [of |-> {f}, form |-> form] \in Networks
    /\ \A n \in Networks, form \in {"none", "sop", "min", "hash", "torn"} :
         [n EXCEPT !.form = form] \in Networks
  BY DEF NoNetwork, Networks

\* The file of the network at hand.
LEMMA NetworkFileOf ==
    ASSUME NEW f \in PlaFiles, network.of = {f}
    PROVE  NetworkFile = f
  BY DEF NetworkFile

LEMMA SynthTypeInit == SynthInit => SynthTypeOK
  BY SynthesisAssumption, NetworkTypes DEF SynthInit, SynthTypeOK, SynthPoints

\* A program that has ended leaves every variable with its type.
LEMMA SynthGoneType ==
    ASSUME SynthTypeOK, SynthGone, pla' \subseteq PlaFiles,
           aigs' \in [AigNames -> Networks], UNCHANGED syntheses
    PROVE  SynthTypeOK'
  BY NetworkTypes DEF SynthGone, SynthTypeOK, SynthPoints

LEMMA SynthTypeNext == SynthTypeOK /\ [SynthNext]_synthVars => SynthTypeOK'
  <1> SUFFICES ASSUME SynthTypeOK, [SynthNext]_synthVars
               PROVE  SynthTypeOK'
    OBVIOUS
  <1>1. CASE ParseArguments \/ ParseArgumentsFails
    <2>1. syntheses' \in 0..MaxSyntheses
      BY <1>1, SynthesisAssumption DEF ParseArguments, ParseArgumentsFails, SynthTypeOK
    <2>2. UNCHANGED <<pla, aigs, network>>
      BY <1>1 DEF ParseArguments, ParseArgumentsFails
    <2>3. /\ optimize' \in BOOLEAN /\ todo' \subseteq PlaFiles
          /\ synthPc' \in {"source", "off"}
      BY <1>1 DEF ParseArguments, ParseArgumentsFails, SynthTypeOK
    <2> QED
      BY <2>1, <2>2, <2>3 DEF SynthTypeOK, SynthPoints
  <1>2. CASE \E command : Fails(command)
    BY <1>2, SynthGoneType DEF Fails, SynthTypeOK
  <1>3. CASE SourceAliases
    BY <1>2, <1>3 DEF SourceAliases, SynthTypeOK, SynthPoints
  <1>4. CASE ReadPla
    <2>1. PICK f \in todo :
            \/ /\ todo' = todo \ {f}
               /\ network' = [of |-> {f}, form |-> "sop"]
               /\ synthPc' = "print"
               /\ UNCHANGED <<pla, aigs, optimize, syntheses>>
            \/ Fails("read_pla")
      BY <1>4 DEF ReadPla
    <2>2. f \in PlaFiles
      BY DEF SynthTypeOK
    <2>3. [of |-> {f}, form |-> "sop"] \in Networks
      BY <2>2, NetworkTypes
    <2> QED
      BY <1>2, <2>1, <2>2, <2>3 DEF SynthTypeOK, SynthPoints
  <1>5. CASE PrintStats
    BY <1>2, <1>5 DEF PrintStats, SynthTypeOK, SynthPoints
  <1>6. CASE Optimize
    <2>1. CASE synthPc' = "off"
      BY <1>2, <1>6, <2>1 DEF Optimize
    <2>2. CASE synthPc' # "off"
      <3>1. /\ network' = [network EXCEPT !.form = IF optimize THEN "min" ELSE "hash"]
            /\ synthPc = "optimize" /\ synthPc' = "write"
            /\ UNCHANGED <<pla, aigs, optimize, todo, syntheses>>
        BY <1>6, <2>2 DEF Optimize, Fails, SynthGone
      <3>2. network' \in Networks /\ network'.of = network.of
        BY <3>1, NetworkTypes DEF SynthTypeOK, Networks
      <3> QED
        BY <3>1, <3>2 DEF SynthTypeOK, SynthPoints
    <2> QED
      BY <2>1, <2>2
  <1>7. CASE WriteAiger
    <2>1. CASE synthPc' = "off"
      BY <1>2, <1>7, <2>1 DEF WriteAiger
    <2>2. CASE synthPc' # "off"
      BY <1>7, <2>2 DEF WriteAiger, Fails, SynthGone, SynthTypeOK, SynthPoints
    <2> QED
      BY <2>1, <2>2
  <1>8. CASE NoName \/ EndSynthesis
    BY <1>8, SynthGoneType DEF NoName, EndSynthesis, SynthTypeOK
  <1>9. CASE RemovePla
    BY <1>9 DEF RemovePla, SynthTypeOK, SynthPoints
  <1>10. CASE SynthKill
    <2>1. [network EXCEPT !.form = "torn"] \in Networks
      BY NetworkTypes DEF SynthTypeOK
    <2>2. aigs' \in [AigNames -> Networks]
      BY <1>10, <2>1 DEF SynthKill, SynthTypeOK
    <2> QED
      BY <1>10, <2>2, SynthGoneType DEF SynthKill, SynthTypeOK
  <1>11. CASE UNCHANGED synthVars
    BY <1>11 DEF synthVars, SynthTypeOK
  <1> QED
    BY <1>1, <1>3, <1>4, <1>5, <1>6, <1>7, <1>8, <1>9, <1>10, <1>11
       DEF SynthNext, SynthStep, SynthIdle

\* Every variable keeps its type, and ABC holds the network of one file from its
\* reading to the deletion of the file.
THEOREM SynthTypeCorrect == SynthSpec => []SynthTypeOK
  BY SynthTypeInit, SynthTypeNext, PTL DEF SynthSpec

(***************************************************************************)
(* No function is lost.  The files of the list exist, and so does the one  *)
(* at hand, which is not in the list any more; it is minimised before it   *)
(* is written, and written before it is deleted.                           *)
(***************************************************************************)
\* The names of the AIG files of two PLA files differ.
NamesDiffer == \A f, g \in PlaFiles : AigName[f] = AigName[g] => f = g

SynthInv ==
    /\ SynthTypeOK
    /\ optimize = TRUE
    /\ todo \subseteq pla
    /\ synthPc \in {"print", "optimize", "write", "remove"} =>
         NetworkFile \in pla \ todo
    /\ synthPc \in {"write", "remove"} => network = Whole(NetworkFile)
    /\ synthPc = "remove" => aigs[AigName[NetworkFile]] = Whole(NetworkFile)

LEMMA SynthInvNext == SynthInv /\ [SynthNext]_synthVars => SynthInv'
  <1> SUFFICES ASSUME SynthInv, [SynthNext]_synthVars
               PROVE  SynthInv'
    OBVIOUS
  <1>1. SynthTypeOK /\ SynthTypeOK'
    BY SynthTypeNext DEF SynthInv
  <1>2. CASE SynthGone
    BY <1>1, <1>2 DEF SynthGone, SynthInv
  <1>3. CASE ParseArguments \/ ParseArgumentsFails
    BY <1>1, <1>3 DEF ParseArguments, ParseArgumentsFails, SynthInv, NetworkFile
  <1>4. CASE SourceAliases
    BY <1>1, <1>2, <1>4 DEF SourceAliases, Fails, SynthInv
  <1>5. CASE ReadPla /\ ~SynthGone
    <2>1. PICK f \in todo : /\ todo' = todo \ {f}
                            /\ network' = [of |-> {f}, form |-> "sop"]
                            /\ synthPc' = "print"
                            /\ UNCHANGED <<pla, aigs, optimize, syntheses>>
      BY <1>5 DEF ReadPla, Fails
    <2>2. NetworkFile' = f
      BY <1>1, <2>1 DEF NetworkFile, SynthTypeOK
    <2> QED
      BY <1>1, <2>1, <2>2 DEF SynthInv
  <1>6. CASE PrintStats
    BY <1>1, <1>2, <1>6 DEF PrintStats, Fails, SynthInv, NetworkFile
  <1>7. CASE Optimize /\ ~SynthGone
    <2>1. /\ network' = [network EXCEPT !.form = "min"]
          /\ synthPc = "optimize" /\ synthPc' = "write"
          /\ UNCHANGED <<pla, aigs, optimize, todo, syntheses>>
      BY <1>7 DEF Optimize, Fails, SynthInv
    <2>2. PICK f \in PlaFiles : network.of = {f}
      BY <1>1, <2>1 DEF SynthTypeOK
    <2>3. network' = [of |-> {f}, form |-> "min"]
      BY <1>1, <2>1, <2>2 DEF SynthTypeOK, Networks
    <2>4. NetworkFile = f /\ NetworkFile' = f
      BY <2>2, <2>3 DEF NetworkFile
    <2> QED
      BY <1>1, <2>1, <2>3, <2>4 DEF SynthInv, Whole
  <1>8. CASE WriteAiger /\ ~SynthGone
    <2>1. /\ aigs' = [aigs EXCEPT ![AigName[NetworkFile]] = network]
          /\ synthPc = "write" /\ synthPc' = "remove"
          /\ UNCHANGED <<pla, optimize, network, todo, syntheses>>
      BY <1>8 DEF WriteAiger, Fails
    <2>2. NetworkFile \in PlaFiles /\ NetworkFile' = NetworkFile
      BY <1>1, <2>1 DEF SynthInv, SynthTypeOK, NetworkFile
    <2> QED
      BY <1>1, <2>1, <2>2, SynthesisAssumption DEF SynthInv, SynthTypeOK, Whole
  <1>9. CASE NoName \/ EndSynthesis \/ SynthKill
    BY <1>2, <1>9 DEF NoName, EndSynthesis, SynthKill
  <1>10. CASE RemovePla
    BY <1>1, <1>10 DEF RemovePla, SynthInv
  <1>11. CASE UNCHANGED synthVars
    BY <1>1, <1>11 DEF synthVars, SynthInv, NetworkFile, Whole
  <1> QED
    BY <1>2, <1>3, <1>4, <1>5, <1>6, <1>7, <1>8, <1>9, <1>10, <1>11
       DEF SynthNext, SynthStep, SynthIdle

\* Lines 104-112: a PLA goes only when its AIG is complete, and that AIG stays,
\* whatever command fails and wherever the program is killed and started again.
THEOREM SynthesisConserves ==
    ASSUME NamesDiffer
    PROVE  SynthSpec => PlaConserved
  <1>1. SynthInit => SynthInv
    BY SynthTypeInit DEF SynthInit, SynthInv
  <1>2. SynthInv /\ [SynthNext]_synthVars =>
          [\A f \in PlaFiles \ pla' :
             f \in pla \/ aigs[AigName[f]] = Whole(f) =>
               aigs'[AigName[f]] = Whole(f)]_synthVars
    <2> SUFFICES ASSUME SynthInv, SynthNext, NEW f \in PlaFiles \ pla',
                        f \in pla \/ aigs[AigName[f]] = Whole(f)
                 PROVE  aigs'[AigName[f]] = Whole(f)
      OBVIOUS
    <2>1. CASE f \in pla
      <3>1. RemovePla
        BY <2>1 DEF SynthNext, ParseArguments, ParseArgumentsFails, SynthStep, SourceAliases,
               ReadPla, PrintStats, Optimize, WriteAiger, NoName, EndSynthesis, SynthKill,
               SynthIdle, synthVars, Fails
      <3> QED
        BY <2>1, <3>1 DEF RemovePla, SynthInv
    <2>2. CASE f \notin pla
      <3>1. \/ UNCHANGED aigs
            \/ /\ synthPc = "write"
               /\ \E n : aigs' = [aigs EXCEPT ![AigName[NetworkFile]] = n]
        BY DEF SynthNext, ParseArguments, ParseArgumentsFails, SynthStep, SourceAliases,
               ReadPla, PrintStats, Optimize, WriteAiger, NoName, RemovePla, EndSynthesis,
               SynthKill, SynthIdle, synthVars, Fails
      <3>2. CASE synthPc = "write"
        <4>1. NetworkFile \in pla /\ NetworkFile \in PlaFiles
          BY <3>2 DEF SynthInv, SynthTypeOK
        <4>2. AigName[NetworkFile] # AigName[f]
          BY <2>2, <4>1 DEF NamesDiffer
        <4> QED
          BY <2>2, <3>1, <4>2, SynthesisAssumption DEF SynthInv, SynthTypeOK
      <3> QED
        BY <2>2, <3>1, <3>2
    <2> QED
      BY <2>1, <2>2
  <1> QED
    BY <1>1, <1>2, SynthInvNext, PTL DEF SynthSpec, PlaConserved

(***************************************************************************)
(* The AIGs have the networks of their own PLAs.  abcSynthesis keeps it    *)
(* because the network at hand is the one of the name cut out of its path. *)
(***************************************************************************)
LEMMA AigsOfNext ==
    ASSUME NamesDiffer, SynthTypeOK, AigsOfTheirPlas, [SynthNext]_synthVars
    PROVE  AigsOfTheirPlas'
  <1>1. CASE UNCHANGED aigs
    BY <1>1 DEF AigsOfTheirPlas
  <1>2. CASE aigs' # aigs
    <2>1. PICK n : /\ n.of = network.of
                   /\ synthPc = "write"
                   /\ aigs' = [aigs EXCEPT ![AigName[NetworkFile]] = n]
      <3>1. \/ aigs' = [aigs EXCEPT ![AigName[NetworkFile]] = network]
            \/ aigs' = [aigs EXCEPT ![AigName[NetworkFile]] = [network EXCEPT !.form = "torn"]]
        BY <1>2 DEF SynthNext, ParseArguments, ParseArgumentsFails, SynthStep, SourceAliases,
               ReadPla, PrintStats, Optimize, WriteAiger, NoName, RemovePla, EndSynthesis,
               SynthKill, SynthIdle, synthVars, Fails
      <3>2. synthPc = "write"
        BY <1>2 DEF SynthNext, ParseArguments, ParseArgumentsFails, SynthStep, SourceAliases,
               ReadPla, PrintStats, Optimize, WriteAiger, NoName, RemovePla, EndSynthesis,
               SynthKill, SynthIdle, synthVars, Fails
      <3>3. [network EXCEPT !.form = "torn"].of = network.of
        BY DEF SynthTypeOK, Networks
      <3> QED
        BY <3>1, <3>2, <3>3
    <2>2. PICK f \in PlaFiles : network.of = {f}
      BY <2>1 DEF SynthTypeOK
    <2>3. NetworkFile = f
      BY <2>2 DEF NetworkFile
    <2> SUFFICES ASSUME NEW g \in PlaFiles
                 PROVE  aigs'[AigName[g]].of \subseteq {g}
      BY DEF AigsOfTheirPlas
    <2>4. /\ AigName[f] \in AigNames /\ AigName[g] \in AigNames
          /\ aigs \in [AigNames -> Networks]
      BY SynthesisAssumption DEF SynthTypeOK
    <2>5. CASE g = f
      <3>1. aigs'[AigName[g]] = n
        BY <2>1, <2>3, <2>4, <2>5
      <3> QED
        BY <2>1, <2>2, <2>5, <3>1
    <2>6. CASE g # f
      <3>1. aigs'[AigName[g]] = aigs[AigName[g]]
        BY <2>1, <2>3, <2>4, <2>6 DEF NamesDiffer
      <3> QED
        BY <3>1 DEF AigsOfTheirPlas
    <2> QED
      BY <2>5, <2>6
  <1> QED
    BY <1>1, <1>2

\* abcSynthesis.cpp, lines 98-107: whatever command of abcSynthesis fails and wherever it is killed
\* and started again, no AIG holds the network of another file.
THEOREM SynthesisNamesAigs ==
    ASSUME NamesDiffer
    PROVE  SynthSpec => []AigsOfTheirPlas
  <1>1. SynthInit => AigsOfTheirPlas
    BY SynthesisAssumption DEF SynthInit, AigsOfTheirPlas, NoNetwork
  <1> QED
    BY <1>1, SynthTypeInit, SynthTypeNext, AigsOfNext, PTL DEF SynthSpec

(***************************************************************************)
(* The script.  Every command follows from the one before it, so what ABC  *)
(* holds in front of a line can be read off the line before.               *)
(***************************************************************************)
CommandNames == {"read_pla", "print_stats", "strash", "write_aiger", "empty"}
Lines == [name : CommandNames, file : PlaFiles]

\* The command d stands behind c.
Follows(c, d) ==
    \/ c.name = "read_pla"    /\ d.name = "print_stats" /\ d.file = c.file
    \/ c.name = "print_stats" /\ d.name = "strash"      /\ d.file = c.file
    \/ c.name = "strash"      /\ d.name = "write_aiger" /\ d.file = c.file
    \/ c.name = "write_aiger" /\ d.name = "empty"       /\ d.file = c.file
    \/ c.name = "empty"       /\ d.name = "read_pla"

Chained(s) ==
    /\ s \in Seq(Lines)
    /\ s # <<>> => s[1].name = "read_pla"
    /\ \A i \in 1..(Len(s) - 1) : Follows(s[i], s[i + 1])

Closed(s) == s # <<>> => s[Len(s)].name = "empty"

\* What ABC holds behind the command c; exactly, when none has failed.
HeldBehind(c) ==
    /\ c.name = "empty" => network = NoNetwork
    /\ c.name # "empty" => network = NoNetwork \/ network.of = {c.file}
    /\ ~failed /\ c.name \in {"read_pla", "print_stats"} =>
         network = [of |-> {c.file}, form |-> "sop"]
    /\ ~failed /\ c.name \in {"strash", "write_aiger"} =>
         network = [of |-> {c.file}, form |-> "hash"]

Translated(f) == aigs[AigName[f]] = [of |-> {f}, form |-> "hash"]

ScriptType ==
    /\ pla \subseteq PlaFiles /\ unlisted \subseteq pla
    /\ aigs \in [AigNames -> Networks] /\ network \in Networks
    /\ phase \in {"write", "shell", "over"}
    /\ failed \in BOOLEAN

ScriptShape ==
    /\ Chained(script)
    /\ \A i \in 1..Len(script) : script[i].file \in pla
    /\ phase = "write" => Closed(script) /\ ip = 1
    /\ \A f \in pla \ unlisted :
         \E i \in 1..Len(script) : script[i].name = "write_aiger" /\ script[i].file = f

ShellInv ==
    /\ ip \in 1..(Len(script) + 1)
    /\ ip = 1 => network = NoNetwork
    /\ ip > 1 => HeldBehind(script[ip - 1])
    /\ ~failed => \A i \in 1..(ip - 1) :
                    script[i].name = "write_aiger" => Translated(script[i].file)
    /\ phase = "over" /\ ~failed => ip = Len(script) + 1

ScriptInv == ScriptType /\ ScriptShape /\ ShellInv /\ AigsOfTheirPlas

\* The five commands of a file.
LEMMA CommandsOf ==
    ASSUME NEW f \in PlaFiles
    PROVE  /\ CommandsFor(f) \in Seq(Lines) /\ Len(CommandsFor(f)) = 5
           /\ \A k \in 1..5 : CommandsFor(f)[k] \in Lines
           /\ CommandsFor(f)[1] = Command("read_pla", f)
           /\ CommandsFor(f)[2] = Command("print_stats", f)
           /\ CommandsFor(f)[3] = Command("strash", f)
           /\ CommandsFor(f)[4] = Command("write_aiger", f)
           /\ CommandsFor(f)[5] = Command("empty", f)
  <1> DEFINE names == <<"read_pla", "print_stats", "strash", "write_aiger", "empty">>
  <1>1. \A k \in 1..5 : CommandsFor(f)[k] = Command(names[k], f)
    BY DEF CommandsFor
  <1>2. \A k \in 1..5 : CommandsFor(f)[k] \in Lines
    BY <1>1 DEF Command, Lines, CommandNames
  <1>3. CommandsFor(f) = [k \in 1..5 |-> CommandsFor(f)[k]]
    BY DEF CommandsFor
  <1>4. CommandsFor(f) \in [1..5 -> Lines]
    BY <1>2, <1>3
  <1>5. CommandsFor(f) \in Seq(Lines)
    BY <1>4, SeqDef
  <1>6. Len(CommandsFor(f)) = 5
    BY <1>4, <1>5, LenProperties
  <1> QED
    BY <1>1, <1>2, <1>5, <1>6

\* Each follows from the one before, and all are of that file.
LEMMA CommandsFollow ==
    ASSUME NEW f \in PlaFiles
    PROVE  /\ CommandsFor(f)[1].name = "read_pla"
           /\ \A k \in 1..4 : Follows(CommandsFor(f)[k], CommandsFor(f)[k + 1])
           /\ \A k \in 1..5 : CommandsFor(f)[k].file = f
  <1>1. \A k \in 1..5 : k = 1 \/ k = 2 \/ k = 3 \/ k = 4 \/ k = 5
    OBVIOUS
  <1>2. /\ CommandsFor(f)[1] = Command("read_pla", f)
        /\ CommandsFor(f)[2] = Command("print_stats", f)
        /\ CommandsFor(f)[3] = Command("strash", f)
        /\ CommandsFor(f)[4] = Command("write_aiger", f)
        /\ CommandsFor(f)[5] = Command("empty", f)
    BY CommandsOf
  <1>3. \A k \in 1..5 : CommandsFor(f)[k].file = f
    BY <1>1, <1>2 DEF Command
  <1>4. \A k \in 1..4 : Follows(CommandsFor(f)[k], CommandsFor(f)[k + 1])
    <2> SUFFICES ASSUME NEW k \in 1..4
                 PROVE  Follows(CommandsFor(f)[k], CommandsFor(f)[k + 1])
      OBVIOUS
    <2>1. CASE k = 1
      BY <1>2, <2>1 DEF Follows, Command
    <2>2. CASE k = 2
      BY <1>2, <2>2 DEF Follows, Command
    <2>3. CASE k = 3
      BY <1>2, <2>3 DEF Follows, Command
    <2>4. CASE k = 4
      BY <1>2, <2>4 DEF Follows, Command
    <2> QED
      BY <2>1, <2>2, <2>3, <2>4
  <1> QED
    BY <1>2, <1>3, <1>4 DEF Command

\* The first commands of a file behind a script that ends with a whole file.
LEMMA ChainAppended ==
    ASSUME NEW s, Chained(s), Closed(s), NEW f \in PlaFiles, NEW n \in 0..5,
           NEW t \in Seq(Lines), Len(t) = n,
           \A k \in 1..n : t[k] = CommandsFor(f)[k]
    PROVE  /\ Chained(s \o t) /\ Len(s \o t) = Len(s) + n
           /\ \A i \in 1..Len(s) : (s \o t)[i] = s[i]
           /\ \A k \in 1..n : (s \o t)[Len(s) + k] = CommandsFor(f)[k]
  <1>1. /\ s \in Seq(Lines) /\ s \o t \in Seq(Lines) /\ Len(s \o t) = Len(s) + n
        /\ Len(s) \in Nat
        /\ \A i \in 1..Len(s) : (s \o t)[i] = s[i]
    BY DEF Chained
  <1>2. \A k \in 1..n : (s \o t)[Len(s) + k] = CommandsFor(f)[k]
    BY <1>1
  <1>3. s \o t # <<>> => (s \o t)[1].name = "read_pla"
    <2>1. CASE s # <<>>
      BY <1>1, <2>1 DEF Chained
    <2>2. CASE s = <<>> /\ n > 0
      <3>1. (s \o t)[1] = CommandsFor(f)[1]
        BY <1>2, <2>2
      <3> QED
        BY <3>1, CommandsFollow
    <2>3. CASE s = <<>> /\ n = 0
      BY <2>3
    <2> QED
      BY <2>1, <2>2, <2>3
  <1>4. ASSUME NEW i \in 1..(Len(s \o t) - 1)
        PROVE  Follows((s \o t)[i], (s \o t)[i + 1])
    <2>1. CASE i < Len(s)
      BY <1>1, <2>1 DEF Chained
    <2>2. CASE i = Len(s)
      <3>1. (s \o t)[i] = s[Len(s)] /\ s # <<>>
        BY <1>1, <2>2
      <3>2. (s \o t)[i + 1] = CommandsFor(f)[1]
        BY <1>1, <1>2, <2>2
      <3> QED
        BY <3>1, <3>2, CommandsFollow DEF Closed, Follows
    <2>3. CASE i > Len(s)
      <3>1. PICK k \in 1..(n - 1) : i = Len(s) + k
        <4>1. i - Len(s) \in 1..(n - 1) /\ i = Len(s) + (i - Len(s))
          BY <1>1, <2>3
        <4> QED
          BY <4>1
      <3>2. /\ (s \o t)[i] = CommandsFor(f)[k]
            /\ (s \o t)[i + 1] = CommandsFor(f)[k + 1]
        <4>1. k \in 1..n /\ k + 1 \in 1..n /\ i + 1 = Len(s) + (k + 1)
          BY <1>1, <3>1
        <4> QED
          BY <1>2, <3>1, <4>1
      <3>3. k \in 1..4
        OBVIOUS
      <3>4. Follows(CommandsFor(f)[k], CommandsFor(f)[k + 1])
        BY <3>3, CommandsFollow
      <3> QED
        BY <3>2, <3>4
    <2> QED
      BY <1>1, <2>1, <2>2, <2>3
  <1> QED
    BY <1>1, <1>2, <1>3, <1>4 DEF Chained

LEMMA ScriptBegins == SynthInit /\ ScriptInit => ScriptInv
  <1> SUFFICES ASSUME SynthInit, ScriptInit
               PROVE  ScriptInv
    OBVIOUS
  <1>1. ScriptType
    BY NetworkTypes DEF SynthInit, ScriptInit, ScriptType
  <1>2. ScriptShape
    BY DEF SynthInit, ScriptInit, ScriptShape, Chained, Closed
  <1>3. ShellInv
    BY DEF SynthInit, ScriptInit, ShellInv
  <1>4. AigsOfTheirPlas
    BY SynthesisAssumption DEF SynthInit, AigsOfTheirPlas, NoNetwork
  <1> QED
    BY <1>1, <1>2, <1>3, <1>4 DEF ScriptInv

\* The program: the shell has not begun, and finds a chain of commands.
LEMMA WritingInv ==
    ASSUME ScriptInv, WriteCommands \/ BreakOff \/ EndScript
    PROVE  ScriptInv'
  <1>1. /\ phase = "write" /\ ip = 1 /\ Closed(script) /\ network = NoNetwork
        /\ UNCHANGED <<ip, failed, pla, aigs, network>>
        /\ phase' \in {"write", "shell"}
    BY DEF ScriptInv, ScriptShape, ShellInv, WriteCommands, BreakOff, EndScript, synthVars
  <1>2. ScriptType'
    <2>1. unlisted' \subseteq unlisted
      BY DEF WriteCommands, BreakOff, EndScript
    <2> QED
      BY <1>1, <2>1 DEF ScriptInv, ScriptType
  <1>3. AigsOfTheirPlas'
    BY <1>1 DEF ScriptInv, AigsOfTheirPlas
  <1>4. ScriptShape'
    <2>1. CASE EndScript
      BY <2>1 DEF EndScript, ScriptInv, ScriptShape, synthVars
    <2>2. ASSUME NEW f \in unlisted, NEW n \in 0..5, NEW t \in Seq(Lines), Len(t) = n,
                 \A k \in 1..n : t[k] = CommandsFor(f)[k], script' = script \o t
          PROVE  /\ Chained(script')
                 /\ Len(script') = Len(script) + n /\ Len(script) \in Nat
                 /\ \A i \in 1..Len(script) : script'[i] = script[i]
                 /\ \A k \in 1..n : script'[Len(script) + k] = CommandsFor(f)[k]
                 /\ \A i \in 1..Len(script') : script'[i].file \in pla
                 /\ \A g \in pla \ unlisted :
                      \E i \in 1..Len(script') :
                        script'[i].name = "write_aiger" /\ script'[i].file = g
      <3>1. f \in PlaFiles /\ f \in pla /\ Chained(script)
        BY DEF ScriptInv, ScriptType, ScriptShape
      <3>2. /\ Chained(script')
            /\ Len(script') = Len(script) + n /\ Len(script) \in Nat
            /\ \A i \in 1..Len(script) : script'[i] = script[i]
            /\ \A k \in 1..n : script'[Len(script) + k] = CommandsFor(f)[k]
        <4>1. Len(script) \in Nat
          BY <3>1 DEF Chained
        <4> QED
          BY <1>1, <2>2, <3>1, <4>1, ChainAppended
      <3>3. \A k \in 1..n : CommandsFor(f)[k].file = f
        <4>1. \A k \in 1..n : k \in 1..5
          OBVIOUS
        <4> QED
          BY <3>1, <4>1, CommandsFollow
      <3>4. ASSUME NEW i \in 1..Len(script')
            PROVE  script'[i].file \in pla
        <4>1. CASE i <= Len(script)
          BY <3>2, <4>1 DEF ScriptInv, ScriptShape
        <4>2. CASE i > Len(script)
          <5>1. PICK k \in 1..n : i = Len(script) + k
            <6>1. i - Len(script) \in 1..n /\ i = Len(script) + (i - Len(script))
              BY <3>2, <4>2
            <6> QED
              BY <6>1
          <5> QED
            BY <3>1, <3>2, <3>3, <5>1
        <4> QED
          BY <3>2, <4>1, <4>2
      <3>5. ASSUME NEW g \in pla \ unlisted
            PROVE  \E i \in 1..Len(script') :
                     script'[i].name = "write_aiger" /\ script'[i].file = g
        <4>1. PICK i \in 1..Len(script) :
                script[i].name = "write_aiger" /\ script[i].file = g
          BY DEF ScriptInv, ScriptShape
        <4> QED
          BY <3>2, <4>1
      <3> QED
        BY <3>2, <3>4, <3>5
    <2>3. CASE WriteCommands
      <3>1. PICK f \in unlisted : /\ script' = script \o CommandsFor(f)
                                  /\ unlisted' = unlisted \ {f}
        BY <2>3 DEF WriteCommands
      <3>2. f \in PlaFiles /\ f \in pla
        BY DEF ScriptInv, ScriptType
      <3>3. CommandsFor(f) \in Seq(Lines) /\ Len(CommandsFor(f)) = 5
        BY <3>2, CommandsOf
      <3>4. /\ Chained(script')
            /\ Len(script') = Len(script) + 5 /\ Len(script) \in Nat
            /\ \A k \in 1..5 : script'[Len(script) + k] = CommandsFor(f)[k]
            /\ \A i \in 1..Len(script') : script'[i].file \in pla
            /\ \A g \in pla \ unlisted :
                 \E i \in 1..Len(script') :
                   script'[i].name = "write_aiger" /\ script'[i].file = g
        <4> DEFINE t == CommandsFor(f)
        <4>1. /\ t \in Seq(Lines) /\ Len(t) = 5 /\ script' = script \o t
              /\ \A k \in 1..5 : t[k] = CommandsFor(f)[k]
          BY <3>1, <3>3
        <4> HIDE DEF t
        <4>2. 5 \in 0..5
          OBVIOUS
        <4> QED
          BY <2>2, <4>1, <4>2
      <3>5. script'[Len(script) + 4] = Command("write_aiger", f)
        BY <3>2, <3>4, CommandsOf
      <3>6. \E i \in 1..Len(script') :
              script'[i].name = "write_aiger" /\ script'[i].file = f
        <4>1. Len(script) + 4 \in 1..Len(script')
          BY <3>4
        <4> QED
          BY <3>5, <4>1 DEF Command
      <3>7. script'[Len(script')] = Command("empty", f)
        BY <3>2, <3>4, CommandsOf
      <3>8. Closed(script')
        BY <3>7 DEF Closed, Command
      <3> QED
        BY <1>1, <3>1, <3>4, <3>6, <3>8 DEF ScriptShape
    <2>4. CASE BreakOff
      <3>1. PICK f \in unlisted, n \in 0..4 : script' = script \o SubSeq(CommandsFor(f), 1, n)
        BY <2>4 DEF BreakOff
      <3>2. f \in PlaFiles
        BY DEF ScriptInv, ScriptType
      <3> DEFINE t == SubSeq(CommandsFor(f), 1, n)
      <3>3. /\ t \in Seq(Lines) /\ Len(t) = n
            /\ \A k \in 1..n : t[k] = CommandsFor(f)[k]
        <4>1. CommandsFor(f) \in Seq(Lines) /\ Len(CommandsFor(f)) = 5
          BY <3>2, CommandsOf
        <4>2. \A k \in 1..n : CommandsFor(f)[k] \in Lines
          <5>1. \A k \in 1..n : k \in 1..5
            OBVIOUS
          <5> QED
            BY <3>2, <5>1, CommandsOf
        <4>3. t \in Seq(Lines) /\ Len(t) = n
          BY <4>2, SubSeqProperties
        <4>4. \A k \in 1..n : t[k] = CommandsFor(f)[k]
          BY <4>2, SubSeqProperties
        <4> QED
          BY <4>3, <4>4
      <3>4. phase' = "shell" /\ unlisted' = unlisted
        BY <2>4 DEF BreakOff
      <3> HIDE DEF t
      <3>5. /\ Chained(script')
            /\ \A i \in 1..Len(script') : script'[i].file \in pla
            /\ \A g \in pla \ unlisted :
                 \E i \in 1..Len(script') :
                   script'[i].name = "write_aiger" /\ script'[i].file = g
        <4>1. n \in 0..5 /\ script' = script \o t
          BY <3>1 DEF t
        <4> QED
          BY <2>2, <3>3, <4>1
      <3> QED
        BY <1>1, <3>4, <3>5 DEF ScriptShape
    <2> QED
      BY <2>1, <2>3, <2>4
  <1>5. ShellInv'
    <2>1. Len(script') \in Nat
      BY <1>4 DEF ScriptShape, Chained
    <2> QED
      BY <1>1, <2>1 DEF ShellInv
  <1> QED
    BY <1>2, <1>3, <1>4, <1>5 DEF ScriptInv

\* In front of the line the shell is at, the network is that of the command before;
\* and unless a command has failed by itself, the line can be executed.
LEMMA AtLine ==
    ASSUME ScriptInv, ip <= Len(script)
    PROVE  /\ Line \in Lines /\ Line.file \in pla /\ Line.file \in PlaFiles
           /\ Line.name = "read_pla" => network = NoNetwork
           /\ Line.name # "read_pla" =>
                network = NoNetwork \/ network.of = {Line.file}
           /\ ~failed /\ Line.name \in {"print_stats", "strash"} =>
                network = [of |-> {Line.file}, form |-> "sop"]
           /\ ~failed /\ Line.name \in {"write_aiger", "empty"} =>
                network = [of |-> {Line.file}, form |-> "hash"]
           /\ ~failed => Executable
  <1>1. /\ ip \in 1..Len(script) /\ script \in Seq(Lines)
        /\ Line \in Lines /\ Line.file \in pla /\ Line.file \in PlaFiles
    BY DEF ScriptInv, ScriptType, ScriptShape, ShellInv, Chained, Line
  <1>2. CASE ip = 1
    <2>1. Line.name = "read_pla" /\ network = NoNetwork
      BY <1>1, <1>2 DEF ScriptInv, ScriptShape, ShellInv, Chained, Line
    <2> QED
      BY <1>1, <2>1 DEF Executable
  <1>3. CASE ip > 1
    <2> DEFINE c == script[ip - 1]
    <2>1. HeldBehind(c)
      BY <1>3 DEF ScriptInv, ShellInv
    <2>2. Follows(c, Line)
      <3>1. ip - 1 \in 1..(Len(script) - 1) /\ (ip - 1) + 1 = ip
        BY <1>1, <1>3
      <3> QED
        BY <3>1 DEF ScriptInv, ScriptShape, Chained, Line
    <2> HIDE DEF c
    <2>3. /\ Line.name = "read_pla" => network = NoNetwork
          /\ Line.name # "read_pla" =>
               network = NoNetwork \/ network.of = {Line.file}
          /\ ~failed /\ Line.name \in {"print_stats", "strash"} =>
               network = [of |-> {Line.file}, form |-> "sop"]
          /\ ~failed /\ Line.name \in {"write_aiger", "empty"} =>
               network = [of |-> {Line.file}, form |-> "hash"]
      BY <2>1, <2>2 DEF HeldBehind, Follows
    <2>4. ~failed => Executable
      <3> SUFFICES ASSUME ~failed
                   PROVE  Executable
        OBVIOUS
      <3>1. CASE Line.name = "read_pla"
        BY <1>1, <3>1 DEF Executable
      <3>2. CASE Line.name \in {"print_stats", "strash"}
        <4>1. network.form = "sop" /\ NoNetwork.form = "none"
          BY <2>3, <3>2 DEF NoNetwork
        <4>2. network # NoNetwork
          BY <4>1
        <4>3. CASE Line.name = "print_stats"
          BY <4>2, <4>3 DEF Executable
        <4>4. CASE Line.name = "strash"
          BY <4>2, <4>4 DEF Executable
        <4> QED
          BY <3>2, <4>3, <4>4
      <3>3. CASE Line.name = "write_aiger"
        BY <2>3, <3>3 DEF Executable
      <3>4. CASE Line.name = "empty"
        BY <3>4 DEF Executable
      <3>5. Line.name \in CommandNames
        BY <1>1 DEF Lines
      <3> QED
        BY <3>1, <3>2, <3>3, <3>4, <3>5 DEF CommandNames
    <2> QED
      BY <1>1, <2>3, <2>4
  <1> QED
    BY <1>1, <1>2, <1>3

\* What ABC holds and has written behind a line it executes.
LEMMA ExecuteInv ==
    ASSUME NamesDiffer, ScriptInv, Execute
    PROVE  ScriptInv'
  <1>1. PICK c : c = Line
    OBVIOUS
  <1>2. /\ phase = "shell" /\ ip <= Len(script) /\ Executable
        /\ network' = CASE c.name = "read_pla" -> [of |-> {c.file}, form |-> "sop"]
                        [] c.name = "strash"   -> [network EXCEPT !.form = "hash"]
                        [] c.name = "empty"    -> NoNetwork
                        [] OTHER               -> network
        /\ aigs' = IF c.name # "write_aiger" THEN aigs
                   ELSE [aigs EXCEPT ![AigName[c.file]] = network]
        /\ ip' = ip + 1
        /\ UNCHANGED <<script, unlisted, phase, failed, pla>>
    BY <1>1 DEF Execute
  <1>3. /\ c.name \in CommandNames /\ c.file \in pla /\ c.file \in PlaFiles
        /\ c.name = "read_pla" => network = NoNetwork
        /\ c.name # "read_pla" => network = NoNetwork \/ network.of = {c.file}
        /\ ~failed /\ c.name \in {"print_stats", "strash"} =>
             network = [of |-> {c.file}, form |-> "sop"]
        /\ ~failed /\ c.name \in {"write_aiger", "empty"} =>
             network = [of |-> {c.file}, form |-> "hash"]
    BY <1>1, <1>2, AtLine DEF Lines
  <1>4. /\ network \in Networks /\ aigs \in [AigNames -> Networks]
        /\ ip \in 1..Len(script) /\ Len(script) \in Nat
        /\ AigName[c.file] \in AigNames
    BY <1>2, <1>3, SynthesisAssumption
       DEF ScriptInv, ScriptType, ScriptShape, ShellInv, Chained
  <1>5. network # NoNetwork => network.of = {c.file} \/ c.name = "read_pla"
    BY <1>3
  <1>6. c.name = "write_aiger" => network.of = {c.file}
    BY <1>1, <1>2, <1>5 DEF Executable, NoNetwork
  <1>7. network' \in Networks /\ HeldBehind(c)'
    <2>1. CASE c.name = "read_pla"
      BY <1>2, <1>3, <2>1, NetworkTypes DEF HeldBehind
    <2>2. CASE c.name = "print_stats"
      BY <1>2, <1>3, <1>4, <2>2 DEF HeldBehind
    <2>3. CASE c.name = "strash"
      <3>1. network' = [network EXCEPT !.form = "hash"]
        BY <1>2, <2>3
      <3>2. network # NoNetwork
        BY <1>1, <1>2, <2>3 DEF Executable
      <3>3. network' \in Networks /\ network'.of = {c.file}
        BY <1>3, <1>4, <2>3, <3>1, <3>2, NetworkTypes DEF Networks
      <3>4. ~failed => network' = [of |-> {c.file}, form |-> "hash"]
        BY <1>3, <2>3, <3>1
      <3> QED
        BY <1>2, <2>3, <3>3, <3>4 DEF HeldBehind
    <2>4. CASE c.name = "write_aiger"
      BY <1>2, <1>3, <1>4, <2>4 DEF HeldBehind
    <2>5. CASE c.name = "empty"
      BY <1>2, <2>5, NetworkTypes DEF HeldBehind
    <2> QED
      BY <1>3, <2>1, <2>2, <2>3, <2>4, <2>5 DEF CommandNames
  <1>8. ScriptType'
    <2>1. aigs' \in [AigNames -> Networks]
      BY <1>2, <1>4
    <2> QED
      BY <1>2, <1>7, <2>1 DEF ScriptInv, ScriptType
  <1>9. ScriptShape'
    BY <1>2 DEF ScriptInv, ScriptShape
  <1>10. AigsOfTheirPlas'
    <2> SUFFICES ASSUME NEW f \in PlaFiles
                 PROVE  aigs'[AigName[f]].of \subseteq {f}
      BY DEF AigsOfTheirPlas
    <2>1. CASE c.name = "write_aiger" /\ f = c.file
      BY <1>2, <1>4, <1>6, <2>1
    <2>2. CASE ~(c.name = "write_aiger" /\ f = c.file)
      <3>1. aigs'[AigName[f]] = aigs[AigName[f]]
        BY <1>2, <1>3, <1>4, <2>2, SynthesisAssumption DEF NamesDiffer
      <3> QED
        BY <3>1 DEF ScriptInv, AigsOfTheirPlas
    <2> QED
      BY <2>1, <2>2
  <1>11. ASSUME ~failed, NEW i \in 1..ip, script[i].name = "write_aiger"
         PROVE  aigs'[AigName[script[i].file]] = [of |-> {script[i].file}, form |-> "hash"]
    <2>1. script[i].file \in PlaFiles
      BY <1>4 DEF ScriptInv, ScriptType, ScriptShape
    <2>2. CASE c.name = "write_aiger" /\ script[i].file = c.file
      BY <1>2, <1>3, <1>4, <1>11, <2>2
    <2>3. CASE ~(c.name = "write_aiger" /\ script[i].file = c.file)
      <3>1. i \in 1..(ip - 1)
        BY <1>1, <1>4, <1>11, <2>3 DEF Line
      <3>2. aigs'[AigName[script[i].file]] = aigs[AigName[script[i].file]]
        BY <1>2, <1>3, <1>4, <2>1, <2>3, SynthesisAssumption DEF NamesDiffer
      <3> QED
        BY <1>11, <3>1, <3>2 DEF ScriptInv, ShellInv, Translated
    <2> QED
      BY <2>2, <2>3
  <1>12. ShellInv'
    <2>1. ip' \in 1..(Len(script') + 1) /\ ip' > 1 /\ ip' - 1 = ip
      BY <1>2, <1>4
    <2>2. HeldBehind(script[ip - 1])'
      <3>1. script'[ip' - 1] = c
        BY <1>1, <1>2, <2>1 DEF Line
      <3> QED
        BY <1>7, <3>1 DEF HeldBehind
    <2>3. (~failed => \A i \in 1..(ip - 1) :
                        script[i].name = "write_aiger" => Translated(script[i].file))'
      BY <1>2, <1>11, <2>1 DEF Translated
    <2>4. phase' # "over" /\ ip' # 1
      BY <1>2, <1>4
    <2>5. (\/ failed
           \/ \A i \in 1..(ip - 1) :
                script[i].name = "write_aiger" => Translated(script[i].file))'
      BY <2>3
    <2> QED
      BY <2>1, <2>2, <2>4, <2>5, Zenon DEF ShellInv
  <1> QED
    BY <1>8, <1>9, <1>10, <1>12 DEF ScriptInv

\* A command that fails leaves the network; read_pla begins with none.
LEMMA PassOverInv ==
    ASSUME ScriptInv, Refuse \/ FailToExecute
    PROVE  ScriptInv'
  <1>1. PICK c : c = Line
    OBVIOUS
  <1>2. /\ phase = "shell" /\ ip <= Len(script) /\ GoOnOrGiveUp
        /\ UNCHANGED <<script, unlisted, pla, aigs, network>>
        /\ phase' \in {"shell", "over"} /\ failed' \in BOOLEAN
    BY DEF Refuse, FailToExecute, GoOnOrGiveUp, synthVars, ScriptInv, ScriptType
  <1>3. failed' = TRUE
    <2>1. CASE Refuse
      BY <1>2, <2>1, AtLine DEF Refuse, ScriptInv, ScriptType
    <2>2. CASE FailToExecute
      BY <2>2 DEF FailToExecute
    <2> QED
      BY <2>1, <2>2
  <1>4. c.name # "empty"
    BY <1>1, ShellAssumption DEF Refuse, FailToExecute, Executable, Commands
  <1>5. network = NoNetwork \/ network.of = {c.file}
    BY <1>1, <1>2, AtLine
  <1>6. HeldBehind(c)'
    BY <1>2, <1>3, <1>4, <1>5 DEF HeldBehind
  <1>7. ShellInv'
    <2>1. ip \in 1..Len(script) /\ Len(script) \in Nat
      BY <1>2 DEF ScriptInv, ScriptShape, ShellInv, Chained
    <2>2. CASE ip' = ip + 1
      <3>1. ip' \in 1..(Len(script') + 1) /\ ip' > 1 /\ ip' - 1 = ip
        BY <1>2, <2>1, <2>2
      <3>2. HeldBehind(script[ip - 1])'
        <4>1. script'[ip' - 1] = c
          BY <1>1, <1>2, <3>1 DEF Line
        <4> QED
          BY <1>6, <4>1 DEF HeldBehind
      <3> QED
        BY <1>3, <3>1, <3>2 DEF ShellInv
    <2>3. CASE ip' = ip
      <3>1. ip > 1 => HeldBehind(script[ip - 1])'
        <4>1. ip > 1 => HeldBehind(script[ip - 1])
          BY DEF ScriptInv, ShellInv
        <4> QED
          BY <1>2, <1>3, <2>3, <4>1 DEF HeldBehind
      <3> QED
        BY <1>2, <1>3, <2>1, <2>3, <3>1 DEF ScriptInv, ShellInv
    <2> QED
      BY <1>2, <2>2, <2>3 DEF GoOnOrGiveUp
  <1>8. ScriptType' /\ ScriptShape' /\ AigsOfTheirPlas'
    BY <1>2 DEF ScriptInv, ScriptType, ScriptShape, AigsOfTheirPlas
  <1> QED
    BY <1>7, <1>8 DEF ScriptInv

LEMMA EndShellInv ==
    ASSUME ScriptInv, EndShell \/ UNCHANGED <<synthVars, scriptVars>>
    PROVE  ScriptInv'
  <1>1. /\ UNCHANGED <<script, unlisted, ip, failed, pla, aigs, network>>
        /\ \/ phase = "shell" /\ ip > Len(script) /\ phase' = "over"
           \/ phase' = phase
    BY DEF EndShell, synthVars, scriptVars
  <1>2. ScriptType' /\ ScriptShape' /\ AigsOfTheirPlas'
    BY <1>1 DEF ScriptInv, ScriptType, ScriptShape, AigsOfTheirPlas
  <1>3. Len(script) \in Nat
    BY DEF ScriptInv, ScriptShape, Chained
  <1>4. ShellInv'
    BY <1>1, <1>3 DEF ScriptInv, ShellInv, HeldBehind, Translated
  <1> QED
    BY <1>2, <1>4 DEF ScriptInv

LEMMA ScriptInvariant ==
    ASSUME NamesDiffer
    PROVE  ScriptSpec => []ScriptInv
  <1>1. ScriptInv /\ [ScriptStep]_<<synthVars, scriptVars>> => ScriptInv'
    BY WritingInv, ExecuteInv, PassOverInv, EndShellInv DEF ScriptStep
  <1> QED
    BY <1>1, ScriptBegins, PTL DEF ScriptSpec

\* abcExe.cpp, lines 51-82: whatever command fails in the shell, whether it goes on
\* behind it or gives up, and wherever the script breaks off, no AIG holds the
\* network of another file -- because the script empties the network.
THEOREM ScriptNamesAigs ==
    ASSUME NamesDiffer
    PROVE  ScriptSpec => []AigsOfTheirPlas
  <1>1. ScriptInv => AigsOfTheirPlas
    BY DEF ScriptInv
  <1> QED
    BY <1>1, ScriptInvariant, PTL

\* Every file whose commands are in the script has its AIG when the shell is done
\* with it and no command failed by itself.
THEOREM ScriptAlwaysTranslates ==
    ASSUME NamesDiffer
    PROVE  ScriptSpec => []ScriptTranslates
  <1>1. ScriptInv => ScriptTranslates
    <2> SUFFICES ASSUME ScriptInv, phase = "over", ~failed, NEW f \in pla \ unlisted
                 PROVE  aigs[AigName[f]] = [of |-> {f}, form |-> "hash"]
      BY DEF ScriptTranslates
    <2>1. PICK i \in 1..Len(script) :
            script[i].name = "write_aiger" /\ script[i].file = f
      BY DEF ScriptInv, ScriptShape
    <2>2. i \in 1..(ip - 1)
      BY DEF ScriptInv, ScriptShape, ShellInv, Chained
    <2> QED
      BY <2>1, <2>2 DEF ScriptInv, ShellInv, Translated
  <1> QED
    BY <1>1, ScriptInvariant, PTL
=============================================================================
