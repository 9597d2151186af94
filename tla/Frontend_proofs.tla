--------------------------- MODULE Frontend_proofs --------------------------
(***************************************************************************)
(* main, its builds and the build context, for every Dockerfile, number of *)
(* builds, context and ignore file: the types of all variables; what is    *)
(* parsed is what the text says, and what is refused could not be          *)
(* accepted; grouping loses, repeats and reorders nothing; the report of a *)
(* benchmark has the samples of its builds and the right statistics of     *)
(* them; a walk leaves out what the rules exclude and nothing else.        *)
(*                                                                         *)
(* One invariant for each part says what its loop has done so far: LexOK   *)
(* of Tokenize, ParseOK of parse, Grouping of buildDockerfile, TextRead of *)
(* what all three have of the text, MainOK and CountsOK of main and its    *)
(* trackers, ReadOK of the builds of one text, Walking of WalkFiles.       *)
(***************************************************************************)
EXTENDS Frontend, SequenceLemmas, FiniteSetTheorems

\* the instructions of each stage
Parts == [s \in DOMAIN stages |-> stages[s].insts]

\* a stage starts with its FROM and has no other
Staged(stage) ==
    /\ "insts" \in DOMAIN stage
    /\ stage.insts # <<>>
    /\ \A i \in DOMAIN stage.insts : stage.insts[i].op = "FROM" <=> i = 1

\* buildDockerfile is at the instruction cur
GroupedSoFar ==
    /\ cur \in 1..(Len(insts) + 1)
    /\ stages \in Seq(Range(stages))
    /\ globals \in Seq(Range(insts)) /\ Parts \in Seq(Seq(Range(insts)))
    /\ globals \o FlattenSeq(Parts) = SubSeq(insts, 1, cur - 1)
    /\ \A s \in DOMAIN stages : Staged(stages[s])

Grouping ==
    /\ insts \in Seq(Range(insts))
    /\ phase \in {"lex", "parse"} => globals = <<>> /\ stages = <<>>
    /\ phase \in {"group", "parsed"} => GroupedSoFar
    /\ phase = "parsed" => cur > Len(insts)

-----------------------------------------------------------------------------
(* Sequences whose elements are not said to be of any set.                 *)

\* A sequence grows.
LEMMA RangeAppend ==
    ASSUME NEW s, s \in Seq(Range(s)), NEW x
    PROVE  /\ Append(s, x) \in Seq(Range(Append(s, x)))
           /\ Len(Append(s, x)) = Len(s) + 1 /\ Len(s) \in Nat
           /\ \A i \in 1..Len(s) : Append(s, x)[i] = s[i]
           /\ Append(s, x)[Len(s) + 1] = x
<1> DEFINE S == Range(s) \cup {x}
<1>1. s \in Seq(S) /\ x \in S
  <2>1. Range(s) \subseteq S
    OBVIOUS
  <2>2. Seq(Range(s)) \subseteq Seq(S)
    BY <2>1, SeqMonotonic
  <2> QED
    BY <2>2
<1> HIDE DEF S
<1>2. /\ Append(s, x) \in Seq(S) /\ Len(Append(s, x)) = Len(s) + 1 /\ Len(s) \in Nat
      /\ \A i \in 1..Len(s) : Append(s, x)[i] = s[i]
      /\ Append(s, x)[Len(s) + 1] = x
  BY <1>1, AppendProperties, LenProperties
<1>3. Append(s, x) \in Seq(Range(Append(s, x)))
  BY <1>2, SeqOfRange
<1> QED
  BY <1>2, <1>3

\* One more instruction has been looked at.
LEMMA NextPrefix ==
    ASSUME NEW S, NEW s \in Seq(S), NEW k \in 1..Len(s)
    PROVE  SubSeq(s, 1, k) = Append(SubSeq(s, 1, k - 1), s[k])
<1>1. Len(s) \in Nat /\ s[k] \in S
  BY LenProperties, ElementOfSeq
<1>2. /\ SubSeq(s, 1, k) \in Seq(S) /\ Len(SubSeq(s, 1, k)) = k
      /\ \A i \in 1..k : SubSeq(s, 1, k)[i] = s[i]
      /\ SubSeq(s, 1, k - 1) \in Seq(S) /\ Len(SubSeq(s, 1, k - 1)) = k - 1
      /\ \A i \in 1..(k - 1) : SubSeq(s, 1, k - 1)[i] = s[i]
  BY <1>1, SubSeqProperties
<1>3. /\ Append(SubSeq(s, 1, k - 1), s[k]) \in Seq(S)
      /\ Len(Append(SubSeq(s, 1, k - 1), s[k])) = k
      /\ \A i \in 1..(k - 1) : Append(SubSeq(s, 1, k - 1), s[k])[i] = s[i]
      /\ Append(SubSeq(s, 1, k - 1), s[k])[k] = s[k]
  BY <1>1, <1>2, AppendProperties
<1>4. \A i \in 1..k : SubSeq(s, 1, k)[i] = Append(SubSeq(s, 1, k - 1), s[k])[i]
  BY <1>2, <1>3
<1> QED
  BY <1>2, <1>3, <1>4, SeqEqual

\* The instruction buildDockerfile looks at.
LEMMA AtHand ==
    ASSUME Grouping, More
    PROVE  /\ phase = "group" /\ GroupedSoFar
           /\ cur \in 1..Len(insts) /\ Len(insts) \in Nat
           /\ insts[cur] \in Range(insts) /\ insts \in Seq(Range(insts))
           /\ SubSeq(insts, 1, cur) = Append(SubSeq(insts, 1, cur - 1), insts[cur])
           /\ (cur + 1) - 1 = cur /\ cur + 1 \in 1..(Len(insts) + 1)
           /\ FlattenSeq(Parts) \in Seq(Range(insts))
<1>1. /\ phase = "group" /\ GroupedSoFar /\ insts \in Seq(Range(insts))
      /\ cur \in 1..Len(insts) /\ Len(insts) \in Nat
  BY LenProperties DEF Grouping, More, GroupedSoFar
<1>2. insts[cur] \in Range(insts)
  BY <1>1, ElementOfSeq
<1>3. FlattenSeq(Parts) \in Seq(Range(insts))
  <2>1. <<>> \in Seq(Range(insts))
    OBVIOUS
  <2> QED
    BY <1>1, <2>1, FlattenAppend DEF GroupedSoFar
<1> QED
  BY <1>1, <1>2, <1>3, NextPrefix

-----------------------------------------------------------------------------
(* buildDockerfile.                                                        *)

\* An ARG before the first FROM joins the global ones.
LEMMA GlobalGrouped ==
    ASSUME Grouping, GlobalArg
    PROVE  Grouping'
<1>1. /\ More /\ stages = <<>> /\ cur' = cur + 1
      /\ globals' = Append(globals, insts[cur])
      /\ UNCHANGED <<phase, insts, stages>>
  BY DEF GlobalArg, lexerVars
<1>2. /\ phase = "group" /\ GroupedSoFar /\ insts \in Seq(Range(insts))
      /\ insts[cur] \in Range(insts) /\ cur' \in 1..(Len(insts) + 1)
      /\ SubSeq(insts, 1, cur' - 1) = Append(SubSeq(insts, 1, cur - 1), insts[cur])
  BY <1>1, AtHand
<1>3. Parts = <<>> /\ Parts' = Parts /\ FlattenSeq(Parts) = <<>>
  <2>1. Parts = <<>>
    BY <1>1 DEF Parts
  <2> QED
    BY <1>1, <2>1 DEF Parts, FlattenSeq
<1>4. globals \in Seq(Range(insts)) /\ globals' \in Seq(Range(insts))
  BY <1>1, <1>2, AppendProperties DEF GroupedSoFar
<1>5. globals' \o FlattenSeq(Parts') = SubSeq(insts, 1, cur' - 1)
  <2>1. globals \o <<>> = globals /\ globals' \o <<>> = globals'
    BY <1>4, ConcatEmptySeq
  <2> QED
    BY <1>1, <1>2, <1>3, <2>1 DEF GroupedSoFar
<1> QED
  BY <1>1, <1>2, <1>3, <1>4, <1>5 DEF Grouping, GroupedSoFar

\* A FROM starts a stage.
LEMMA StageStarted ==
    ASSUME Grouping, NewStage
    PROVE  Grouping'
<1> DEFINE stage == [name |-> Alias(insts[cur].args), insts |-> <<insts[cur]>>]
           S     == Range(insts)
<1>1. /\ More /\ insts[cur].op = "FROM" /\ cur' = cur + 1
      /\ stages' = Append(stages, stage)
      /\ UNCHANGED <<phase, insts, globals>>
  BY DEF NewStage, lexerVars
<1>2. /\ phase = "group" /\ GroupedSoFar /\ insts \in Seq(S)
      /\ insts[cur] \in S /\ cur' \in 1..(Len(insts) + 1)
      /\ SubSeq(insts, 1, cur' - 1) = Append(SubSeq(insts, 1, cur - 1), insts[cur])
      /\ FlattenSeq(Parts) \in Seq(S)
  BY <1>1, AtHand
<1>3. /\ Len(stages) \in Nat /\ DOMAIN stages = 1..Len(stages)
      /\ stages' \in Seq(Range(stages')) /\ DOMAIN stages' = 1..(Len(stages) + 1)
      /\ \A s \in 1..Len(stages) : stages'[s] = stages[s]
      /\ stages'[Len(stages) + 1] = stage
  BY <1>1, <1>2, RangeAppend DEF GroupedSoFar
<1>9. stage.insts = <<insts[cur]>> /\ "insts" \in DOMAIN stage
  OBVIOUS
<1> HIDE DEF S, stage
<1>4. Parts \in Seq(Seq(S)) /\ Len(Parts) = Len(stages) /\ globals \in Seq(S)
      /\ <<insts[cur]>> \in Seq(S)
  BY <1>2, <1>3 DEF GroupedSoFar, Parts, S
<1>5. Parts' = Append(Parts, <<insts[cur]>>)
  <2>1. /\ Append(Parts, <<insts[cur]>>) \in Seq(Seq(S))
        /\ Len(Append(Parts, <<insts[cur]>>)) = Len(stages) + 1
        /\ \A s \in 1..Len(stages) : Append(Parts, <<insts[cur]>>)[s] = Parts[s]
        /\ Append(Parts, <<insts[cur]>>)[Len(stages) + 1] = <<insts[cur]>>
    BY <1>4, AppendProperties
  <2>2. DOMAIN Append(Parts, <<insts[cur]>>) = 1..(Len(stages) + 1)
    BY <2>1, LenProperties
  <2>3. \A s \in 1..(Len(stages) + 1) : Parts'[s] = Append(Parts, <<insts[cur]>>)[s]
    BY <1>3, <1>9, <2>1 DEF Parts
  <2>4. Parts' = [s \in 1..(Len(stages) + 1) |-> Parts'[s]]
    BY <1>3 DEF Parts
  <2>5. Append(Parts, <<insts[cur]>>) =
          [s \in 1..(Len(stages) + 1) |-> Append(Parts, <<insts[cur]>>)[s]]
    BY <2>1, <2>2
  <2> QED
    BY <2>3, <2>4, <2>5
<1>6. Parts' \in Seq(Seq(S)) /\ FlattenSeq(Parts') = FlattenSeq(Parts) \o <<insts[cur]>>
  BY <1>4, <1>5, FlattenAppend, AppendProperties
<1>7. globals' \o FlattenSeq(Parts') = SubSeq(insts, 1, cur' - 1)
  <2> DEFINE flat == FlattenSeq(Parts)
  <2>4. globals \in Seq(S) /\ flat \in Seq(S) /\ insts[cur] \in S
    BY <1>2, <1>4
  <2> HIDE DEF flat
  <2>5. flat \o <<insts[cur]>> = Append(flat, insts[cur])
    BY <2>4, ConcatAppend
  <2>6. globals \o Append(flat, insts[cur]) = Append(globals \o flat, insts[cur])
    BY <2>4, ConcatAppend
  <2>1. globals \o (FlattenSeq(Parts) \o <<insts[cur]>>)
          = Append(globals \o FlattenSeq(Parts), insts[cur])
    BY <2>5, <2>6 DEF flat
  <2>2. globals \o FlattenSeq(Parts) = SubSeq(insts, 1, cur - 1)
    BY <1>2 DEF GroupedSoFar
  <2>3. globals' = globals
    BY <1>1
  <2> QED
    BY <1>2, <1>6, <2>1, <2>2, <2>3
<1>8. \A s \in DOMAIN stages' : Staged(stages'[s])
  <2>1. Staged(stage)
    BY <1>1, <1>9 DEF Staged
  <2>2. ASSUME NEW s \in DOMAIN stages' PROVE Staged(stages'[s])
    <3>1. CASE s \in 1..Len(stages)
      BY <1>2, <1>3, <3>1 DEF GroupedSoFar
    <3>2. CASE s = Len(stages) + 1
      BY <1>3, <2>1, <3>2
    <3> QED
      BY <1>3, <3>1, <3>2
  <2> QED
    BY <2>2
<1> QED
  BY <1>1, <1>2, <1>3, <1>4, <1>6, <1>7, <1>8 DEF Grouping, GroupedSoFar, S

\* Everything else joins the last stage.
LEMMA StageExtended ==
    ASSUME Grouping, AddToStage
    PROVE  Grouping'
<1> DEFINE tip  == Len(stages)
           S    == Range(insts)
           more == Append(stages[tip].insts, insts[cur])
<1>1. /\ More /\ insts[cur].op # "FROM" /\ cur' = cur + 1 /\ stages # <<>>
      /\ stages' = [stages EXCEPT ![tip].insts = Append(@, insts[cur])]
      /\ UNCHANGED <<phase, insts, globals>>
  BY DEF AddToStage, lexerVars
<1>2. /\ phase = "group" /\ GroupedSoFar /\ insts \in Seq(S)
      /\ insts[cur] \in S /\ cur' \in 1..(Len(insts) + 1)
      /\ SubSeq(insts, 1, cur' - 1) = Append(SubSeq(insts, 1, cur - 1), insts[cur])
      /\ FlattenSeq(Parts) \in Seq(S)
  BY <1>1, AtHand
<1>3. /\ tip \in Nat /\ tip # 0 /\ tip \in 1..tip /\ DOMAIN stages = 1..tip
      /\ stages \in Seq(Range(stages))
  <2>1. stages \in Seq(Range(stages))
    BY <1>2 DEF GroupedSoFar
  <2>2. tip \in Nat /\ tip # 0
    BY <1>1, <2>1, EmptySeq, LenProperties
  <2> QED
    BY <2>1, <2>2, LenProperties
<1>4. Parts \in Seq(Seq(S)) /\ Len(Parts) = tip /\ globals \in Seq(S) /\ Parts # <<>>
      /\ Parts[tip] = stages[tip].insts /\ DOMAIN Parts = 1..tip
  BY <1>2, <1>3 DEF GroupedSoFar, Parts
<1>5. /\ DOMAIN stages' = 1..tip
      /\ stages'[tip].insts = more /\ "insts" \in DOMAIN stages'[tip]
      /\ \A s \in 1..tip : s # tip => stages'[s] = stages[s]
  <2>1. tip \in DOMAIN stages
    BY <1>3
  <2> HIDE DEF tip
  <2>2. /\ DOMAIN stages' = DOMAIN stages
        /\ \A s \in DOMAIN stages : s # tip => stages'[s] = stages[s]
        /\ stages'[tip] = [stages[tip] EXCEPT !.insts = Append(@, insts[cur])]
    BY <1>1, <2>1
  <2>3. "insts" \in DOMAIN stages[tip]
    BY <1>2, <2>1 DEF GroupedSoFar, Staged
  <2>4. stages'[tip].insts = more /\ "insts" \in DOMAIN stages'[tip]
    BY <2>2, <2>3
  <2> QED
    BY <1>3, <2>2, <2>4
<1> HIDE DEF tip, S
<1>6. Parts' = [Parts EXCEPT ![Len(Parts)] = Append(@, insts[cur])]
  BY <1>3, <1>4, <1>5 DEF Parts
<1>7. FlattenSeq(Parts') = Append(FlattenSeq(Parts), insts[cur])
  BY <1>2, <1>4, <1>6, FlattenExtend
<1>8. Parts' \in Seq(Seq(S))
  <2>1. Parts[tip] \in Seq(S)
    BY <1>3, <1>4, ElementOfSeq
  <2>2. Append(Parts[tip], insts[cur]) \in Seq(S)
    BY <1>2, <2>1, AppendProperties
  <2>3. Parts' = [Parts EXCEPT ![tip] = Append(Parts[tip], insts[cur])]
    BY <1>4, <1>6
  <2> QED
    BY <1>3, <1>4, <2>2, <2>3, ExceptSeq
<1>9. globals' \o FlattenSeq(Parts') = SubSeq(insts, 1, cur' - 1)
  <2> DEFINE flat == FlattenSeq(Parts)
  <2>4. globals \in Seq(S) /\ flat \in Seq(S) /\ insts[cur] \in S
    BY <1>2, <1>4
  <2> HIDE DEF flat
  <2>5. globals \o Append(flat, insts[cur]) = Append(globals \o flat, insts[cur])
    BY <2>4, ConcatAppend
  <2>1. globals \o Append(FlattenSeq(Parts), insts[cur])
          = Append(globals \o FlattenSeq(Parts), insts[cur])
    BY <2>5 DEF flat
  <2>2. globals \o FlattenSeq(Parts) = SubSeq(insts, 1, cur - 1)
    BY <1>2 DEF GroupedSoFar
  <2>3. globals' = globals
    BY <1>1
  <2> QED
    BY <1>2, <1>7, <2>1, <2>2, <2>3
<1>10. \A s \in DOMAIN stages' : Staged(stages'[s])
  <2>1. Staged(stages[tip]) /\ stages[tip].insts \in Seq(S)
    BY <1>2, <1>3, <1>4, ElementOfSeq DEF GroupedSoFar
  <2>2. /\ more # <<>> /\ DOMAIN more = 1..(Len(stages[tip].insts) + 1)
        /\ \A i \in 1..Len(stages[tip].insts) : more[i] = stages[tip].insts[i]
        /\ more[Len(stages[tip].insts) + 1] = insts[cur]
        /\ Len(stages[tip].insts) \in Nat \ {0}
        /\ DOMAIN stages[tip].insts = 1..Len(stages[tip].insts)
    <3> DEFINE part == stages[tip].insts
    <3>1. part \in Seq(S) /\ part # <<>> /\ insts[cur] \in S
      BY <1>2, <2>1 DEF Staged
    <3> HIDE DEF part
    <3>2. /\ Append(part, insts[cur]) \in Seq(S)
          /\ Len(Append(part, insts[cur])) = Len(part) + 1
          /\ \A i \in 1..Len(part) : Append(part, insts[cur])[i] = part[i]
          /\ Append(part, insts[cur])[Len(part) + 1] = insts[cur]
      BY <3>1, AppendProperties
    <3>3. Len(part) \in Nat \ {0} /\ DOMAIN part = 1..Len(part)
      BY <3>1, EmptySeq, LenProperties
    <3>4. /\ DOMAIN Append(part, insts[cur]) = 1..(Len(part) + 1)
          /\ Append(part, insts[cur]) # <<>>
      BY <3>2, <3>3, EmptySeq, LenProperties
    <3> QED
      BY <3>2, <3>3, <3>4 DEF part
  <2>3. \A i \in DOMAIN more : more[i].op = "FROM" <=> i = 1
    BY <1>1, <2>1, <2>2 DEF Staged
  <2>4. Staged(stages'[tip])
    BY <1>5, <2>2, <2>3 DEF Staged
  <2> QED
    BY <1>2, <1>3, <1>5, <2>4 DEF GroupedSoFar
<1>11. stages' \in Seq(Range(stages'))
  <2>1. stages' = [s \in 1..tip |-> stages'[s]]
    BY <1>1, <1>3, <1>5
  <2>2. stages' \in [1..tip -> Range(stages')]
    BY <1>5, <2>1 DEF Range
  <2> QED
    BY <1>3, <2>2, SeqDef
<1> QED
  BY <1>1, <1>2, <1>4, <1>8, <1>9, <1>10, <1>11 DEF Grouping, GroupedSoFar, S

-----------------------------------------------------------------------------
(* The other steps of the parser, and those of main.                       *)

\* What Grouping is about.
grouped == <<phase, cur, insts, globals, stages>>

\* A step that changes nothing of the Dockerfile keeps Grouping.
LEMMA Untouched ==
    ASSUME Grouping, UNCHANGED grouped
    PROVE  Grouping'
<1>1. Parts' = Parts
  BY DEF Parts, grouped
<1>2. \A stage : Staged(stage)' = Staged(stage)
  BY DEF Staged
<1> QED
  BY <1>1, <1>2 DEF Grouping, GroupedSoFar, Staged, grouped

\* Before buildDockerfile, and after an error, only insts matter.
LEMMA NotGrouping ==
    ASSUME insts' \in Seq(Range(insts')), phase' \notin {"group", "parsed"},
           phase' \in {"lex", "parse"} => globals' = <<>> /\ stages' = <<>>
    PROVE  Grouping'
<1> QED
  BY DEF Grouping

\* parseInstruction adds an instruction.
LEMMA InstructionParsed ==
    ASSUME Grouping, ParseInstruction
    PROVE  Grouping'
<1>1. phase = "parse" /\ phase' = "parse" /\ UNCHANGED <<globals, stages>>
      /\ insts' = Append(insts, PostProcess(Gather(cur)))
  BY DEF ParseInstruction
<1>2. insts' \in Seq(Range(insts'))
  BY <1>1, RangeAppend DEF Grouping
<1> QED
  BY <1>1, <1>2, NotGrouping DEF Grouping

\* buildDockerfile starts with nothing.
LEMMA GroupingStarts ==
    ASSUME Grouping, EndOfTokens
    PROVE  Grouping'
<1>1. /\ phase = "parse" /\ phase' = "group" /\ cur' = 1
      /\ UNCHANGED <<insts, globals, stages>>
      /\ globals = <<>> /\ stages = <<>> /\ insts \in Seq(Range(insts))
  BY DEF EndOfTokens, Grouping
<1>2. Parts' = <<>> /\ FlattenSeq(Parts') = <<>>
  <2>1. Parts' = <<>>
    BY <1>1 DEF Parts
  <2> QED
    BY <2>1 DEF FlattenSeq
<1>3. cur' \in 1..(Len(insts') + 1) /\ SubSeq(insts', 1, cur' - 1) = <<>>
  <2>1. Len(insts) \in Nat
    BY <1>1, LenProperties
  <2>2. SubSeq(insts, 1, 0) = <<>>
    BY <1>1, <2>1, SubSeqEmpty
  <2>3. cur' - 1 = 0 /\ cur' \in 1..(Len(insts) + 1)
    BY <1>1, <2>1
  <2> QED
    BY <1>1, <2>2, <2>3
<1>4. globals' \o FlattenSeq(Parts') = SubSeq(insts', 1, cur' - 1)
  <2>1. <<>> \o <<>> = <<>>
    OBVIOUS
  <2>2. globals' \o FlattenSeq(Parts') = <<>>
    BY <1>1, <1>2, <2>1
  <2> QED
    BY <1>3, <2>2
<1>5. /\ globals' \in Seq(Range(insts')) /\ Parts' \in Seq(Seq(Range(insts')))
      /\ stages' \in Seq(Range(stages'))
  BY <1>1, <1>2
<1>6. \A s \in DOMAIN stages' : Staged(stages'[s])
  BY <1>1
<1> QED
  BY <1>1, <1>3, <1>4, <1>5, <1>6 DEF Grouping, GroupedSoFar

\* buildDockerfile ends behind the last instruction.
LEMMA GroupingEnds ==
    ASSUME Grouping, Grouped
    PROVE  Grouping'
<1>1. /\ phase = "group" /\ phase' = "parsed" /\ cur > Len(insts)
      /\ UNCHANGED <<cur, insts, globals, stages>>
      /\ GroupedSoFar /\ insts \in Seq(Range(insts))
  BY DEF Grouped, Grouping
<1>2. GroupedSoFar'
  BY <1>1 DEF GroupedSoFar, Parts, Staged
<1> QED
  BY <1>1, <1>2 DEF Grouping

\* Every step of Parse.
LEMMA ParseKeepsGrouping ==
    ASSUME Grouping, Parse
    PROVE  Grouping'
<1>1. CASE Tokenize
  <2>1. /\ phase = "lex" /\ phase' \in {"lex", "parse"}
        /\ UNCHANGED <<insts, globals, stages>>
    BY <1>1 DEF Tokenize, ScanComment, ScanNewline, ScanFlag, ScanJSONArray,
                ScanQuotedString, ScanWord, Emit, EndOfInput
  <2> QED
    BY <2>1, NotGrouping DEF Grouping
<1>2. CASE SkipToken
  <2>1. phase = "parse" /\ UNCHANGED <<phase, insts, globals, stages>>
    BY <1>2 DEF SkipToken
  <2> QED
    BY <2>1, NotGrouping DEF Grouping
<1>3. CASE ParseError \/ GroupError
  <2>1. phase' = "refused" /\ UNCHANGED insts
    BY <1>3 DEF ParseError, GroupError, Refuse
  <2> QED
    BY <2>1, NotGrouping DEF Grouping
<1> QED
  BY <1>1, <1>2, <1>3, InstructionParsed, GroupingStarts, GlobalGrouped,
     StageStarted, StageExtended, GroupingEnds DEF Parse

\* Every step of main, and of a walk.
LEMMA StepKeepsGrouping ==
    ASSUME Grouping, [Next]_allVars
    PROVE  Grouping'
<1>1. CASE StartBuild
  <2>1. phase' = "lex" /\ insts' = <<>> /\ globals' = <<>> /\ stages' = <<>>
    BY <1>1 DEF StartBuild
  <2>2. insts' \in Seq(Range(insts'))
    BY <2>1
  <2> QED
    BY <2>1, <2>2, NotGrouping
<1>2. CASE ParseDockerfile
  BY <1>2, ParseKeepsGrouping DEF ParseDockerfile
<1>3. CASE Parsed \/ Fail \/ LookupOnly \/ FilesystemInstruction \/ Export
  <2>1. UNCHANGED dockerfileVars
    BY <1>3 DEF Parsed, Fail, LookupOnly, FilesystemInstruction, Execute, Export
  <2> QED
    BY <2>1, Untouched DEF dockerfileVars, grouped
<1>4. CASE UNCHANGED vars
  BY <1>4, Untouched DEF vars, dockerfileVars, grouped
<1> QED
  BY <1>1, <1>2, <1>3, <1>4 DEF Next, Main, allVars

\* Nothing is grouped when main starts.
LEMMA NothingGrouped ==
    ASSUME FrontendInit
    PROVE  Grouping
<1>1. /\ insts = <<>> /\ globals = <<>> /\ stages = <<>>
      /\ phase \in {"lex", "refused"}
  BY DEF FrontendInit, Init, DockerfileInit, NoBuild
<1> QED
  BY <1>1 DEF Grouping

\* What is grouped in the end is all there is.
LEMMA GroupingIsPartition ==
    ASSUME Grouping
    PROVE  StagesPartition
<1> SUFFICES ASSUME phase = "parsed"
             PROVE  StagesPartition
  BY DEF StagesPartition
<1>1. GroupedSoFar /\ cur > Len(insts) /\ insts \in Seq(Range(insts))
  BY DEF Grouping
<1>2. cur - 1 = Len(insts)
  <2>1. Len(insts) \in Nat
    BY <1>1, LenProperties
  <2> QED
    BY <1>1, <2>1 DEF GroupedSoFar
<1>3. SubSeq(insts, 1, Len(insts)) = insts
  BY <1>1, SubSeqFull
<1> QED
  BY <1>1, <1>2, <1>3 DEF StagesPartition, GroupedSoFar, Parts, Staged

\* Grouping loses, repeats and reorders nothing: in every build of every text
\* the global ARGs and then the stages are the instructions, and each stage
\* has one FROM, at its start.  (buildDockerfile.)
THEOREM StagesArePartition == FrontendSpec => []StagesPartition
<1>1. FrontendInit => Grouping
  BY NothingGrouped
<1>2. Grouping /\ [Next]_allVars => Grouping'
  BY StepKeepsGrouping
<1>3. Grouping => StagesPartition
  BY GroupingIsPartition
<1> QED
  BY <1>1, <1>2, <1>3, PTL DEF FrontendSpec

-----------------------------------------------------------------------------
(* What InOrder makes of a function on positions.                          *)

\* what InOrder computes, by the positions it has been through
Ordering(it, f) ==
    it = [s \in SUBSET DOMAIN f |->
             IF s = {} THEN <<>> ELSE Append(it[s \ {Max(s)}], f[Max(s)])]

\* InOrder has a result, and it is that of its fold.
LEMMA OrderingIs ==
    ASSUME NEW top \in Nat, NEW V, NEW f, DOMAIN f \subseteq 1..top,
           \A i \in DOMAIN f : f[i] \in V
    PROVE  /\ InOrder(f) \in Seq(V)
           /\ \A it : Ordering(it, f) => InOrder(f) = it[DOMAIN f]
           /\ \E it : Ordering(it, f)
<1> DEFINE D == DOMAIN f
           Y == Seq(V)
           G == [p \in D \X Y |-> Append(p[2], f[p[1]])]
<1>1. <<>> \in Y /\ \A i \in D, y \in Y : /\ G[<<i, y>>] = Append(y, f[i])
                                          /\ Append(y, f[i]) \in Y
  <2>1. \A i \in D, y \in Y : <<i, y>> \in D \X Y /\ Append(y, f[i]) \in Y
    BY AppendProperties
  <2> QED
    BY <2>1
<1>2. HasFold(D, Y, <<>>, G)
  <2> HIDE DEF G, Y, D
  <2>1. \A i \in D, y \in Y : G[<<i, y>>] \in Y
    BY <1>1
  <2>2. D \subseteq 1..top
    BY DEF D
  <2> QED
    BY <1>1, <2>1, <2>2, FoldExists
<1>3. PICK h \in [SUBSET D -> Y] :
         \A s \in SUBSET D : h[s] = IF s = {} THEN <<>> ELSE G[<<Max(s), h[s \ {Max(s)}]>>]
  BY <1>2 DEF HasFold
<1>4. \A s \in SUBSET D : s # {} =>
         Max(s) \in D /\ s \ {Max(s)} \in SUBSET D
  BY EndsExist
<1>5. Ordering(h, f)
  <2> HIDE DEF G
  <2>1. \A s \in SUBSET D : h[s] = IF s = {} THEN <<>> ELSE Append(h[s \ {Max(s)}], f[Max(s)])
    <3> HIDE DEF D, Y
    <3> QED
      BY <1>1, <1>3, <1>4
  <2>2. h = [s \in SUBSET D |-> h[s]]
    BY <1>3
  <2> QED
    BY <2>1, <2>2 DEF Ordering
<1>6. ASSUME NEW it, Ordering(it, f)
      PROVE  it[D] = h[D]
  <2> HIDE DEF G, Y
  <2>1. h[{}] = it[{}]
    <3>1. {} \in SUBSET D
      OBVIOUS
    <3> QED
      BY <1>5, <1>6, <3>1 DEF Ordering
  <2>2. ASSUME NEW s \in SUBSET D, s # {}, h[s \ {Max(s)}] = it[s \ {Max(s)}]
        PROVE  h[s] = it[s]
    <3>1. h[s] = Append(h[s \ {Max(s)}], f[Max(s)])
      BY <1>5, <2>2 DEF Ordering
    <3>2. it[s] = Append(it[s \ {Max(s)}], f[Max(s)])
      BY <1>6, <2>2 DEF Ordering
    <3> QED
      BY <2>2, <3>1, <3>2
  <2>3. SameFold(h, it, D)
    <3> HIDE DEF D
    <3>1. D \subseteq 1..top
      BY DEF D
    <3> QED
      BY <2>1, <2>2, <3>1, FoldsAgree
  <2> QED
    BY <2>3 DEF SameFold
<1>7. Ordering(CHOOSE it : Ordering(it, f), f)
  BY <1>5
<1>8. InOrder(f) = (CHOOSE it : Ordering(it, f))[D]
  BY DEF InOrder, MapThenFoldSet, Ordering
<1>9. InOrder(f) = h[D]
  BY <1>6, <1>7, <1>8
<1>10. h[D] \in Y
  <2>1. D \in SUBSET D
    OBVIOUS
  <2> HIDE DEF Y, D
  <2> QED
    BY <2>1
<1> QED
  BY <1>5, <1>6, <1>9, <1>10

\* The positions a fold has been through are those of a part of the function.
LEMMA OrderStep ==
    ASSUME NEW top \in Nat, NEW V, NEW f, DOMAIN f \subseteq 1..top,
           \A i \in DOMAIN f : f[i] \in V, DOMAIN f # {}
    PROVE  LET m == Max(DOMAIN f) IN
           /\ m \in DOMAIN f /\ \A i \in DOMAIN f : i <= m
           /\ InOrder(Restrict(f, DOMAIN f \ {m})) \in Seq(V)
           /\ InOrder(f) = Append(InOrder(Restrict(f, DOMAIN f \ {m})), f[m])
<1> DEFINE D == DOMAIN f
           m == Max(D)
           r == D \ {m}
           g == Restrict(f, r)
<1>1. m \in D /\ \A i \in D : i <= m
  BY EndsExist
<1>2. PICK it : Ordering(it, f)
  BY OrderingIs
<1>3. InOrder(f) = it[D]
  BY <1>2, OrderingIs
<1>4. it[D] = Append(it[r], f[m])
  BY <1>2 DEF Ordering
<1>5. DOMAIN g = r /\ \A i \in r : g[i] = f[i]
  BY DEF Restrict
<1>6. Ordering([s \in SUBSET r |-> it[s]], g)
  <2> DEFINE jt == [s \in SUBSET r |-> it[s]]
  <2>1. \A s \in SUBSET r : s # {} => Max(s) \in r /\ s \ {Max(s)} \in SUBSET r
    <3>1. \A s \in SUBSET r : s \subseteq 1..top
      OBVIOUS
    <3> HIDE DEF r
    <3> QED
      BY <3>1, EndsExist
  <2>2. \A s \in SUBSET r : it[s] = IF s = {} THEN <<>> ELSE Append(it[s \ {Max(s)}], f[Max(s)])
    <3>1. SUBSET r \subseteq SUBSET D
      OBVIOUS
    <3> HIDE DEF r
    <3> QED
      BY <1>2, <3>1 DEF Ordering
  <2>3. \A s \in SUBSET r : it[s] = IF s = {} THEN <<>> ELSE Append(jt[s \ {Max(s)}], g[Max(s)])
    <3> HIDE DEF r, g, m
    <3>1. \A s \in SUBSET r : jt[s] = it[s]
      OBVIOUS
    <3> HIDE DEF jt
    <3> QED
      BY <1>5, <2>1, <2>2, <3>1
  <2>4. jt = [s \in SUBSET r |-> IF s = {} THEN <<>> ELSE Append(jt[s \ {Max(s)}], g[Max(s)])]
    <3> HIDE DEF g, r
    <3> QED
      BY <2>3
  <2> HIDE DEF jt, g, r
  <2> QED
    BY <1>5, <2>4 DEF Ordering, jt
<1>7. InOrder(g) = it[r] /\ InOrder(g) \in Seq(V)
  <2> DEFINE jt == [s \in SUBSET r |-> it[s]]
  <2>1. r \subseteq 1..top /\ \A i \in r : g[i] \in V
    BY <1>5
  <2>3. jt[r] = it[r]
    OBVIOUS
  <2> HIDE DEF g, r, jt
  <2>2. InOrder(g) = jt[r] /\ InOrder(g) \in Seq(V)
    BY <1>5, <1>6, <2>1, OrderingIs DEF jt
  <2> QED
    BY <2>2, <2>3
<1> QED
  BY <1>1, <1>3, <1>4, <1>7

\* Nothing comes of no positions.
LEMMA OrderNothing ==
    ASSUME NEW f, DOMAIN f = {}
    PROVE  InOrder(f) = <<>>
<1>1. PICK it : Ordering(it, f)
  <2>1. DOMAIN f \subseteq 1..0 /\ 0 \in Nat /\ \A i \in DOMAIN f : f[i] \in {}
    OBVIOUS
  <2> QED
    BY <2>1, OrderingIs
<1>2. InOrder(f) = it[{}]
  <2>1. DOMAIN f \subseteq 1..0 /\ 0 \in Nat /\ \A i \in DOMAIN f : f[i] \in {}
    OBVIOUS
  <2> QED
    BY <1>1, <2>1, OrderingIs
<1> QED
  BY <1>1, <1>2 DEF Ordering

\* a function with values in V on some of the first positions
OnPositions(f, top, V) ==
    top \in Nat /\ DOMAIN f \subseteq 1..top /\ f \in [DOMAIN f -> V]

\* A part of a function is one.
LEMMA PartOnPositions ==
    ASSUME NEW f, NEW top, NEW V, OnPositions(f, top, V), NEW s \in SUBSET DOMAIN f
    PROVE  /\ OnPositions(Restrict(f, s), top, V) /\ DOMAIN Restrict(f, s) = s
           /\ \A i \in s : Restrict(f, s)[i] = f[i] /\ i \in Nat
           /\ \A t \in SUBSET s : Restrict(Restrict(f, s), t) = Restrict(f, t)
           /\ InOrder(Restrict(f, s)) \in Seq(V)
<1>1. /\ DOMAIN Restrict(f, s) = s /\ \A i \in s : Restrict(f, s)[i] = f[i]
      /\ \A t \in SUBSET s : Restrict(Restrict(f, s), t) = Restrict(f, t)
  BY DEF Restrict
<1>2. OnPositions(Restrict(f, s), top, V) /\ \A i \in s : i \in Nat
  <2>1. Restrict(f, s) \in [s -> V]
    BY DEF OnPositions, Restrict
  <2> QED
    BY <1>1, <2>1 DEF OnPositions
<1>3. InOrder(Restrict(f, s)) \in Seq(V)
  BY <1>2, OrderingIs DEF OnPositions
<1> QED
  BY <1>1, <1>2, <1>3

\* The last of some positions comes behind the others.
LEMMA OrderLast ==
    ASSUME NEW f, NEW top, NEW V, OnPositions(f, top, V),
           NEW s \in SUBSET DOMAIN f, s # {}
    PROVE  /\ Max(s) \in s /\ \A i \in s : i <= Max(s)
           /\ InOrder(Restrict(f, s)) = Append(InOrder(Restrict(f, s \ {Max(s)})), f[Max(s)])
<1> DEFINE g == Restrict(f, s)
<1>1. OnPositions(g, top, V) /\ DOMAIN g = s
      /\ \A i \in s : g[i] = f[i]
      /\ \A t \in SUBSET s : Restrict(g, t) = Restrict(f, t)
  BY PartOnPositions
<1> HIDE DEF g
<1>2. /\ Max(s) \in s /\ \A i \in s : i <= Max(s)
      /\ InOrder(g) = Append(InOrder(Restrict(g, s \ {Max(s)})), g[Max(s)])
  BY <1>1, OrderStep DEF OnPositions
<1> QED
  BY <1>1, <1>2 DEF g

\* A later position comes behind.
LEMMA OrderGrows ==
    ASSUME NEW f, NEW top, NEW V, OnPositions(f, top, V),
           NEW s \in SUBSET DOMAIN f, NEW x \in DOMAIN f, \A i \in s : i < x
    PROVE  InOrder(Restrict(f, s \cup {x})) = Append(InOrder(Restrict(f, s)), f[x])
<1> DEFINE t == s \cup {x}
<1>1. t \in SUBSET DOMAIN f /\ t # {} /\ x \in t /\ \A i \in t : i \in Nat /\ i <= x
  <2>1. \A i \in DOMAIN f : i \in Nat
    BY DEF OnPositions
  <2> QED
    BY <2>1
<1>2. /\ Max(t) \in t /\ \A i \in t : i <= Max(t)
      /\ InOrder(Restrict(f, t)) = Append(InOrder(Restrict(f, t \ {Max(t)})), f[Max(t)])
  <2> HIDE DEF t
  <2> QED
    BY <1>1, OrderLast
<1>3. Max(t) = x
  <2> HIDE DEF t
  <2>1. x <= Max(t) /\ Max(t) <= x /\ Max(t) \in Nat /\ x \in Nat
    BY <1>1, <1>2
  <2> QED
    BY <2>1
<1>4. t \ {x} = s
  BY <1>1
<1> QED
  BY <1>2, <1>3, <1>4

\* Positions may be counted differently, as long as their order stays.
LEMMA Reindexed ==
    ASSUME NEW f, NEW topf, NEW V, OnPositions(f, topf, V),
           NEW g, NEW topg, OnPositions(g, topg, V),
           NEW b, DOMAIN b = DOMAIN f, {b[i] : i \in DOMAIN f} = DOMAIN g,
           \A i, j \in DOMAIN f : i < j => b[i] < b[j],
           \A i \in DOMAIN f : f[i] = g[b[i]]
    PROVE  InOrder(f) = InOrder(g)
<1> DEFINE D == DOMAIN f
           E == DOMAIN g
           at_(s) == {b[i] : i \in s}
           P == {s \in SUBSET D : InOrder(Restrict(f, s)) = InOrder(Restrict(g, at_(s)))}
<1>1. topf \in Nat /\ D \subseteq 1..topf /\ \A i \in D : i \in Nat /\ b[i] \in Nat /\ b[i] \in E
  BY DEF OnPositions
<1>2. {} \in P
  <2>1. DOMAIN Restrict(f, {}) = {} /\ DOMAIN Restrict(g, at_({})) = {}
    BY DEF Restrict
  <2> QED
    BY <2>1, OrderNothing
<1>3. ASSUME NEW s \in SUBSET D, s # {}, s \ {Max(s)} \in P
      PROVE  s \in P
  <2> DEFINE m == Max(s)
             r == s \ {m}
  <2>1. /\ m \in s /\ \A i \in s : i <= m
        /\ InOrder(Restrict(f, s)) = Append(InOrder(Restrict(f, r)), f[m])
    BY <1>3, OrderLast
  <2>2. InOrder(Restrict(f, r)) = InOrder(Restrict(g, at_(r)))
    BY <1>3
  <2>3. at_(s) = at_(r) \cup {b[m]} /\ at_(r) \in SUBSET E /\ b[m] \in E /\ f[m] = g[b[m]]
    <3> HIDE DEF m
    <3> QED
      BY <1>1, <2>1
  <2>4. \A i \in at_(r) : i < b[m]
    <3>1. \A i \in r : i < m /\ i \in D /\ m \in D
      <4> HIDE DEF m
      <4>1. \A i \in s : i \in Nat /\ i \in D
        BY <1>1
      <4> QED
        BY <2>1, <4>1
    <3> HIDE DEF m, r
    <3> QED
      BY <3>1
  <2>5. InOrder(Restrict(g, at_(r) \cup {b[m]})) = Append(InOrder(Restrict(g, at_(r))), g[b[m]])
    <3> DEFINE u == at_(r)
    <3>1. u \in SUBSET E /\ \A i \in u : i < b[m]
      BY <2>3, <2>4
    <3> HIDE DEF u, m, E
    <3>2. InOrder(Restrict(g, u \cup {b[m]})) = Append(InOrder(Restrict(g, u)), g[b[m]])
      BY <2>3, <3>1, OrderGrows DEF E
    <3> QED
      BY <3>2 DEF u
  <2>6. InOrder(Restrict(f, s)) = InOrder(Restrict(g, at_(s)))
    <3> HIDE DEF m, r, at_
    <3> QED
      BY <2>1, <2>2, <2>3, <2>5
  <2> QED
    BY <2>6
<1>4. D \in P
  <2>1. \A s \in SUBSET D : s # {} /\ s \ {Max(s)} \in P => s \in P
    BY <1>3
  <2>2. D \in SUBSET D
    OBVIOUS
  <2> HIDE DEF P, D
  <2> QED
    BY <1>1, <1>2, <2>1, <2>2, MaxInduction
<1>5. Restrict(f, D) = f /\ Restrict(g, E) = g
  BY DEF OnPositions, Restrict
<1>6. at_(D) = E
  OBVIOUS
<1> HIDE DEF D, E, at_
<1> QED
  BY <1>4, <1>5, <1>6

-----------------------------------------------------------------------------
(* Where the scans of the lexer end, and what they read.                   *)

\* the text is one, and its length
TextIs(len) == text \in Seq(Char) /\ len = Len(text) /\ len \in Nat /\ DOMAIN text = 1..len

\* A scan that ends with the text at the latest ends somewhere.
LEMMA StopExists ==
    ASSUME NEW len \in Nat, NEW from \in 1..(len + 1), NEW T
    PROVE  \E i \in from..(len + 1) :
              /\ i \in 1..len => i \in T
              /\ \A j \in from..(i - 1) : j \notin T
<1> DEFINE S == {i \in from..(len + 1) : i \in T \/ i = len + 1}
<1>1. S \subseteq 1..(len + 1) /\ S # {} /\ len + 1 \in Nat
  <2>1. len + 1 \in S
    OBVIOUS
  <2> QED
    BY <2>1
<1>2. Min(S) \in S /\ \A x \in S : Min(S) <= x
  <2> HIDE DEF S
  <2> QED
    BY <1>1, EndsExist
<1>3. Min(S) \in 1..len => Min(S) \in T
  BY <1>2
<1>4. ASSUME NEW j \in from..(Min(S) - 1)
      PROVE  j \notin T
  <2>1. j \in from..(len + 1) /\ ~(Min(S) <= j)
    BY <1>1, <1>2
  <2> QED
    BY <1>2, <2>1
<1> QED
  BY <1>2, <1>3, <1>4

\* where skipSpaces stops
LEMMA SpacesEnd ==
    ASSUME NEW len, TextIs(len), NEW from \in 1..(len + 1)
    PROVE  /\ SkipSpaces(from) \in from..(len + 1)
           /\ SkipSpaces(from) <= len => ~Blank(from, SkipSpaces(from))
           /\ \A j \in from..(SkipSpaces(from) - 1) : Blank(from, j)
<1> DEFINE T == {i \in Nat : ~Blank(from, i)}
<1>1. \E i \in from..(len + 1) : /\ i \in DOMAIN text => i \in T
                                 /\ \A j \in from..(i - 1) : j \notin T
  <2> HIDE DEF T
  <2> QED
    BY StopExists DEF TextIs
<1>2. \A i \in from..(len + 1) : i \in Nat /\ \A j \in from..(i - 1) : j \in Nat
  BY DEF TextIs
<1>3. \E i \in from..(len + 1) : /\ i \in DOMAIN text => ~Blank(from, i)
                                 /\ \A j \in from..(i - 1) : ~(~Blank(from, j))
  <2>1. PICK i \in from..(len + 1) : /\ i \in DOMAIN text => i \in T
                                     /\ \A j \in from..(i - 1) : j \notin T
    BY <1>1
  <2> QED
    BY <1>2, <2>1
<1> HIDE DEF T
<1>4. /\ SkipSpaces(from) \in from..(len + 1)
      /\ SkipSpaces(from) \in DOMAIN text => ~Blank(from, SkipSpaces(from))
      /\ \A j \in from..(SkipSpaces(from) - 1) : ~(~Blank(from, j))
  BY <1>3 DEF SkipSpaces, Until, TextIs
<1> QED
  BY <1>4 DEF TextIs

\* where a comment ends
LEMMA CommentEnd ==
    ASSUME NEW len, TextIs(len), NEW from \in 1..(len + 1)
    PROVE  /\ EndOfComment(from) \in from..(len + 1)
           /\ EndOfComment(from) <= len => Is(EndOfComment(from), {"nl"})
           /\ \A j \in from..(EndOfComment(from) - 1) : ~Is(j, {"nl"})
<1> DEFINE T == {i \in Nat : Is(i, {"nl"})}
<1>1. \E i \in from..(len + 1) : /\ i \in DOMAIN text => i \in T
                                 /\ \A j \in from..(i - 1) : j \notin T
  <2> HIDE DEF T
  <2> QED
    BY StopExists DEF TextIs
<1>2. \A i \in from..(len + 1) : i \in Nat /\ \A j \in from..(i - 1) : j \in Nat
  BY DEF TextIs
<1>3. \E i \in from..(len + 1) : /\ i \in DOMAIN text => Is(i, {"nl"})
                                 /\ \A j \in from..(i - 1) : ~Is(j, {"nl"})
  <2>1. PICK i \in from..(len + 1) : /\ i \in DOMAIN text => i \in T
                                     /\ \A j \in from..(i - 1) : j \notin T
    BY <1>1
  <2> QED
    BY <1>2, <2>1
<1> HIDE DEF T
<1>4. /\ EndOfComment(from) \in from..(len + 1)
      /\ EndOfComment(from) \in DOMAIN text => Is(EndOfComment(from), {"nl"})
      /\ \A j \in from..(EndOfComment(from) - 1) : ~Is(j, {"nl"})
  BY <1>3 DEF EndOfComment, Until, TextIs
<1> QED
  BY <1>4 DEF TextIs

\* what a word stops at
WordStops(i) == Is(i, {"sp", "nl", "cr"}) \/ (Is(i, {"bs"}) /\ Is(i + 1, {"nl", "cr"}))

\* where a word ends
LEMMA WordEnd ==
    ASSUME NEW len, TextIs(len), NEW from \in 1..(len + 1)
    PROVE  /\ EndOfWord(from) \in from..(len + 1)
           /\ EndOfWord(from) <= len => WordStops(EndOfWord(from))
           /\ \A j \in from..(EndOfWord(from) - 1) : ~WordStops(j)
<1> DEFINE T == {i \in Nat : WordStops(i)}
<1>1. \E i \in from..(len + 1) : /\ i \in DOMAIN text => i \in T
                                 /\ \A j \in from..(i - 1) : j \notin T
  <2>1. from \in 1..(len + 1)
    BY DEF TextIs
  <2> HIDE DEF T
  <2>2. len \in Nat /\ DOMAIN text = 1..len
    BY DEF TextIs
  <2> QED
    BY <2>1, <2>2, StopExists
<1>2. \A i \in from..(len + 1) : i \in Nat /\ \A j \in from..(i - 1) : j \in Nat
  BY DEF TextIs
<1>3. \E i \in from..(len + 1) : /\ i \in DOMAIN text => WordStops(i)
                                 /\ \A j \in from..(i - 1) : ~WordStops(j)
  <2>1. PICK i \in from..(len + 1) : /\ i \in DOMAIN text => i \in T
                                     /\ \A j \in from..(i - 1) : j \notin T
    BY <1>1
  <2> QED
    BY <1>2, <2>1
<1> HIDE DEF T
<1>4. /\ EndOfWord(from) \in from..(len + 1)
      /\ EndOfWord(from) \in DOMAIN text => WordStops(EndOfWord(from))
      /\ \A j \in from..(EndOfWord(from) - 1) : ~WordStops(j)
  BY <1>3 DEF EndOfWord, WordStops, Until, TextIs
<1> QED
  BY <1>4 DEF TextIs

\* where a flag ends
LEMMA FlagEnd ==
    ASSUME NEW len, TextIs(len), NEW from \in 1..(len + 1), from + 2 <= len + 1
    PROVE  /\ EndOfFlag(from) \in (from + 2)..(len + 1)
           /\ EndOfFlag(from) <= len => Is(EndOfFlag(from), {"sp", "nl", "cr"})
           /\ \A j \in (from + 2)..(EndOfFlag(from) - 1) : ~(Is(j, {"sp", "nl", "cr"}))
<1> DEFINE T == {i \in Nat : Is(i, {"sp", "nl", "cr"})}
<1>1. \E i \in (from + 2)..(len + 1) : /\ i \in DOMAIN text => i \in T
                                 /\ \A j \in (from + 2)..(i - 1) : j \notin T
  <2>1. (from + 2) \in 1..(len + 1)
    BY DEF TextIs
  <2> HIDE DEF T
  <2>2. len \in Nat /\ DOMAIN text = 1..len
    BY DEF TextIs
  <2> QED
    BY <2>1, <2>2, StopExists
<1>2. \A i \in (from + 2)..(len + 1) : i \in Nat /\ \A j \in (from + 2)..(i - 1) : j \in Nat
  BY DEF TextIs
<1>3. \E i \in (from + 2)..(len + 1) : /\ i \in DOMAIN text => (Is(i, {"sp", "nl", "cr"}))
                                 /\ \A j \in (from + 2)..(i - 1) : ~(Is(j, {"sp", "nl", "cr"}))
  <2>1. PICK i \in (from + 2)..(len + 1) : /\ i \in DOMAIN text => i \in T
                                     /\ \A j \in (from + 2)..(i - 1) : j \notin T
    BY <1>1
  <2> QED
    BY <1>2, <2>1
<1> HIDE DEF T
<1>4. /\ EndOfFlag(from) \in (from + 2)..(len + 1)
      /\ EndOfFlag(from) \in DOMAIN text => (Is(EndOfFlag(from), {"sp", "nl", "cr"}))
      /\ \A j \in (from + 2)..(EndOfFlag(from) - 1) : ~(Is(j, {"sp", "nl", "cr"}))
  BY <1>3 DEF EndOfFlag, Until, TextIs
<1> QED
  BY <1>4 DEF TextIs

\* what a string stops at
StringStops(from, i) == Is(i, {"quote"}) /\ ~Escaped(from, i)

\* where a string ends
LEMMA StringEnd ==
    ASSUME NEW len, TextIs(len), NEW from \in 1..(len + 1), from <= len
    PROVE  /\ EndOfString(from) \in (from + 1)..(len + 1)
           /\ EndOfString(from) <= len => StringStops(from, EndOfString(from))
           /\ \A j \in (from + 1)..(EndOfString(from) - 1) : ~StringStops(from, j)
<1> DEFINE T == {i \in Nat : StringStops(from, i)}
<1>1. \E i \in (from + 1)..(len + 1) : /\ i \in DOMAIN text => i \in T
                                 /\ \A j \in (from + 1)..(i - 1) : j \notin T
  <2>1. (from + 1) \in 1..(len + 1)
    BY DEF TextIs
  <2> HIDE DEF T
  <2>2. len \in Nat /\ DOMAIN text = 1..len
    BY DEF TextIs
  <2> QED
    BY <2>1, <2>2, StopExists
<1>2. \A i \in (from + 1)..(len + 1) : i \in Nat /\ \A j \in (from + 1)..(i - 1) : j \in Nat
  BY DEF TextIs
<1>3. \E i \in (from + 1)..(len + 1) : /\ i \in DOMAIN text => StringStops(from, i)
                                 /\ \A j \in (from + 1)..(i - 1) : ~StringStops(from, j)
  <2>1. PICK i \in (from + 1)..(len + 1) : /\ i \in DOMAIN text => i \in T
                                     /\ \A j \in (from + 1)..(i - 1) : j \notin T
    BY <1>1
  <2> QED
    BY <1>2, <2>1
<1> HIDE DEF T
<1>4. /\ EndOfString(from) \in (from + 1)..(len + 1)
      /\ EndOfString(from) \in DOMAIN text => StringStops(from, EndOfString(from))
      /\ \A j \in (from + 1)..(EndOfString(from) - 1) : ~StringStops(from, j)
  BY <1>3 DEF EndOfString, StringStops, Until, TextIs
<1> QED
  BY <1>4 DEF TextIs

\* where an array ends
LEMMA ArrayEnd ==
    ASSUME NEW len, TextIs(len), NEW from \in 1..len
    PROVE  EndOfArray(from) \in (from + 1)..(len + 1)
<1> DEFINE ends == {len} \cup {i \in from..len : /\ Is(i, {"rb"})
                                     /\ CountIn({"lb"}, from, i) = CountIn({"rb"}, from, i)}
<1>1. len \in Nat /\ ends \subseteq 1..len /\ ends # {} /\ \A i \in ends : from <= i /\ i <= len
  BY DEF TextIs
<1>2. Min(ends) \in ends
  <2> HIDE DEF ends
  <2> QED
    BY <1>1, EndsExist
<1>3. EndOfArray(from) = 1 + Min(ends)
  BY DEF EndOfArray, TextIs
<1> HIDE DEF ends
<1>4. Min(ends) \in from..len
  <2>1. Min(ends) \in 1..len /\ from <= Min(ends)
    BY <1>1, <1>2
  <2> QED
    BY <2>1
<1> QED
  BY <1>1, <1>3, <1>4

\* Numbers from a up to b are not more than there is room for.
LEMMA CountUpTo ==
    ASSUME NEW a \in Nat, NEW b \in Nat, a <= b, NEW S, S \subseteq a..(b - 1)
    PROVE  IsFiniteSet(S) /\ Cardinality(S) \in 0..(b - a)
<1>1. IsFiniteSet(a..(b - 1)) /\ Cardinality(a..(b - 1)) <= b - a
      /\ Cardinality(a..(b - 1)) \in Nat
  <2> DEFINE c == b - 1
  <2>1. c \in Int /\ c = b - 1
    OBVIOUS
  <2> HIDE DEF c
  <2>2. IsFiniteSet(a..c) /\ Cardinality(a..c) = IF a > c THEN 0 ELSE c - a + 1
    BY <2>1, FS_Interval
  <2> QED
    BY <2>1, <2>2 DEF c
<1>2. IsFiniteSet(S) /\ Cardinality(S) <= Cardinality(a..(b - 1)) /\ Cardinality(S) \in Nat
  BY <1>1, FS_Subset, FS_CardinalityType
<1> QED
  BY <1>1, <1>2

\* A slice of the text is one.
LEMMA SliceIs ==
    ASSUME NEW len, TextIs(len), NEW from \in 1..(len + 1), NEW end \in from..(len + 1)
    PROVE  /\ Slice(from, end) \in Seq(Char) /\ Len(Slice(from, end)) = end - from
           /\ \A i \in 1..(end - from) : Slice(from, end)[i] = text[from + i - 1]
<1>1. Slice(from, end) = SubSeq(text, from, end - 1)
  BY DEF Slice
<1>2. CASE from < end
  <2>1. from \in 1..Len(text) /\ end - 1 \in from..Len(text) /\ text \in Seq(Char)
        /\ (end - 1) - from + 1 = end - from
    BY <1>2 DEF TextIs
  <2> QED
    BY <1>1, <2>1, SubSeqProperties
<1>3. CASE from = end
  <2>1. SubSeq(text, from, end - 1) = <<>>
    BY <1>3, SubSeqEmpty DEF TextIs
  <2> QED
    BY <1>1, <1>3, <2>1 DEF TextIs
<1> QED
  BY <1>2, <1>3 DEF TextIs

\* what Tokenize makes of the character p, which is no blank
Read(p) ==
    LET quoted == EndOfString(p)
        word   == Slice(p, EndOfWord(p))
        read(type, value, end, newlines) ==
            [type |-> type, value |-> value, end |-> end, newlines |-> newlines]
    IN  IF Is(p, {"hash"}) THEN read("comment", Slice(p, EndOfComment(p)), EndOfComment(p), 0)
        ELSE IF Is(p, {"nl"}) THEN read("newline", <<"nl">>, p + 1, 1)
        ELSE IF Is(p, {"cr"})
        THEN read("newline", <<"nl">>, IF Is(p + 1, {"nl"}) THEN p + 2 ELSE p + 1, 1)
        ELSE IF StartsFlag(p) THEN read("flag", Slice(p, EndOfFlag(p)), EndOfFlag(p), 0)
        ELSE IF Is(p, {"lb"})
        THEN read("argument", Slice(p, EndOfArray(p)), EndOfArray(p),
                  CountIn({"nl"}, p, EndOfArray(p) - 1))
        ELSE IF Is(p, {"quote"})
        THEN read("argument", StringValue(p), IF quoted <= Len(text) THEN quoted + 1 ELSE quoted,
                  PlainNewlines(p, quoted - 1))
        ELSE IF IsKeyword(word) THEN read("instruction", <<Upper[word[1]]>>, EndOfWord(p), 0)
        ELSE read("argument", word, EndOfWord(p), 0)

Scans == \/ ScanComment \/ ScanNewline \/ ScanFlag \/ ScanJSONArray
         \/ ScanQuotedString \/ ScanWord

\* Each scan emits what is read.
LEMMA ScanReads ==
    ASSUME Scans
    PROVE  LET p == SkipSpaces(pos) IN
           /\ p \in DOMAIN text \/ p <= Len(text)
           /\ Emit(Read(p).type, Read(p).value, Read(p).end, Read(p).newlines)
<1> DEFINE p == SkipSpaces(pos)
<1> HIDE DEF p
<1>1. CASE ScanComment
  <2>1. /\ Is(p, {"hash"})
        /\ Emit("comment", Slice(p, EndOfComment(p)), EndOfComment(p), 0)
    BY <1>1 DEF ScanComment, p
  <2>2. Read(p) = [type |-> "comment", value |-> Slice(p, EndOfComment(p)),
                   end |-> EndOfComment(p), newlines |-> 0]
    BY <2>1 DEF Read
  <2> QED
    BY <2>1, <2>2 DEF p, Is
<1>2. CASE ScanNewline
  <2>1. CASE Is(p, {"nl"}) /\ Emit("newline", <<"nl">>, p + 1, 1)
    <3>1. Read(p) = [type |-> "newline", value |-> <<"nl">>, end |-> p + 1, newlines |-> 1]
      BY <2>1 DEF Read, Is
    <3> QED
      BY <2>1, <3>1 DEF p, Is
  <2>2. CASE /\ Is(p, {"cr"})
             /\ Emit("newline", <<"nl">>, IF Is(p + 1, {"nl"}) THEN p + 2 ELSE p + 1, 1)
    <3>1. Read(p) = [type |-> "newline", value |-> <<"nl">>,
                     end |-> IF Is(p + 1, {"nl"}) THEN p + 2 ELSE p + 1, newlines |-> 1]
      <4>1. ~Is(p, {"hash"}) /\ ~Is(p, {"nl"})
        BY <2>2 DEF Is
      <4> QED
        BY <2>2, <4>1 DEF Read
    <3> QED
      BY <2>2, <3>1 DEF p, Is
  <2> QED
    BY <1>2, <2>1, <2>2 DEF ScanNewline, p
<1>3. CASE ScanFlag
  <2>1. /\ StartsFlag(p)
        /\ Emit("flag", Slice(p, EndOfFlag(p)), EndOfFlag(p), 0)
    BY <1>3 DEF ScanFlag, p
  <2>2. ~Is(p, {"hash"}) /\ ~Is(p, {"nl"}) /\ ~Is(p, {"cr"})
    BY <2>1 DEF Is, StartsFlag
  <2>3. Read(p) = [type |-> "flag", value |-> Slice(p, EndOfFlag(p)),
                   end |-> EndOfFlag(p), newlines |-> 0]
    BY <2>1, <2>2 DEF Read
  <2> QED
    BY <2>1, <2>3 DEF p, Is, StartsFlag
<1>4. CASE ScanJSONArray
  <2>1. /\ Is(p, {"lb"})
        /\ Emit("argument", Slice(p, EndOfArray(p)), EndOfArray(p),
                CountIn({"nl"}, p, EndOfArray(p) - 1))
    BY <1>4 DEF ScanJSONArray, p
  <2>2. ~Is(p, {"hash"}) /\ ~Is(p, {"nl"}) /\ ~Is(p, {"cr"}) /\ ~StartsFlag(p)
    BY <2>1 DEF Is, StartsFlag
  <2>3. Read(p) = [type |-> "argument", value |-> Slice(p, EndOfArray(p)),
                   end |-> EndOfArray(p), newlines |-> CountIn({"nl"}, p, EndOfArray(p) - 1)]
    BY <2>1, <2>2 DEF Read
  <2> QED
    BY <2>1, <2>3 DEF p, Is
<1>5. CASE ScanQuotedString
  <2> DEFINE end == EndOfString(p)
  <2>1. /\ Is(p, {"quote"})
        /\ Emit("argument", StringValue(p), IF end <= Len(text) THEN end + 1 ELSE end,
                PlainNewlines(p, end - 1))
    BY <1>5 DEF ScanQuotedString, p
  <2>2. ~Is(p, {"hash"}) /\ ~Is(p, {"nl"}) /\ ~Is(p, {"cr"}) /\ ~StartsFlag(p) /\ ~Is(p, {"lb"})
    BY <2>1 DEF Is, StartsFlag
  <2>3. Read(p) = [type |-> "argument", value |-> StringValue(p),
                   end |-> IF end <= Len(text) THEN end + 1 ELSE end,
                   newlines |-> PlainNewlines(p, end - 1)]
    BY <2>1, <2>2 DEF Read
  <2> QED
    BY <2>1, <2>3 DEF p, Is
<1>6. CASE ScanWord
  <2> DEFINE word == Slice(p, EndOfWord(p))
  <2>1. /\ p <= Len(text)
        /\ ~Is(p, {"hash", "nl", "cr", "lb", "quote"}) /\ ~StartsFlag(p)
        /\ IF IsKeyword(word) THEN Emit("instruction", <<Upper[word[1]]>>, EndOfWord(p), 0)
                              ELSE Emit("argument", word, EndOfWord(p), 0)
    BY <1>6 DEF ScanWord, p
  <2>2. ~Is(p, {"hash"}) /\ ~Is(p, {"nl"}) /\ ~Is(p, {"cr"}) /\ ~Is(p, {"lb"}) /\ ~Is(p, {"quote"})
    BY <2>1 DEF Is
  <2> HIDE DEF word
  <2>3. Read(p) = IF IsKeyword(word)
                  THEN [type |-> "instruction", value |-> <<Upper[word[1]]>>,
                        end |-> EndOfWord(p), newlines |-> 0]
                  ELSE [type |-> "argument", value |-> word,
                        end |-> EndOfWord(p), newlines |-> 0]
    BY <2>1, <2>2 DEF Read, word
  <2>4. Emit(Read(p).type, Read(p).value, Read(p).end, Read(p).newlines)
    <3>1. CASE IsKeyword(word)
      BY <2>1, <2>3, <3>1
    <3>2. CASE ~IsKeyword(word)
      BY <2>1, <2>3, <3>2
    <3> QED
      BY <3>1, <3>2
  <2> QED
    BY <2>1, <2>4 DEF p
<1> QED
  BY <1>1, <1>2, <1>3, <1>4, <1>5, <1>6 DEF Scans

\* What is read ends in the text, and is a token's.
LEMMA ReadIs ==
    ASSUME NEW len, TextIs(len), NEW p \in 1..len
    PROVE  /\ Read(p).type \in {"instruction", "argument", "flag", "comment", "newline"}
           /\ Read(p).end \in p..(len + 1) /\ Read(p).newlines \in 0..(Read(p).end - p)
           /\ Read(p).value \in Seq(Char \cup Keyword)
           /\ Read(p).type \in {"argument", "flag"} => Read(p).value \in Seq(Char)
           /\ Read(p).type = "instruction" => \E k \in Keyword : Read(p).value = <<k>>
<1>0. len \in Nat /\ p \in 1..(len + 1) /\ p \in Nat /\ p <= len /\ DOMAIN text = 1..len
      /\ Seq(Char) \subseteq Seq(Char \cup Keyword)
  <2>1. Char \subseteq Char \cup Keyword
    OBVIOUS
  <2>2. Seq(Char) \subseteq Seq(Char \cup Keyword)
    BY <2>1, SeqMonotonic
  <2> QED
    BY <2>2 DEF TextIs
<1>1. CASE Is(p, {"hash"})
  <2> DEFINE e == EndOfComment(p)
  <2>1. e \in p..(len + 1)
    BY <1>0, CommentEnd
  <2>2. Slice(p, e) \in Seq(Char)
    <3> HIDE DEF e
    <3> QED
      BY <1>0, <2>1, SliceIs
  <2>3. Read(p) = [type |-> "comment", value |-> Slice(p, e), end |-> e, newlines |-> 0]
    BY <1>1 DEF Read
  <2> HIDE DEF e
  <2> QED
    BY <1>0, <2>1, <2>2, <2>3
<1>2. CASE ~Is(p, {"hash"}) /\ Is(p, {"nl"})
  <2>1. Read(p) = [type |-> "newline", value |-> <<"nl">>, end |-> p + 1, newlines |-> 1]
    BY <1>2 DEF Read
  <2>2. <<"nl">> \in Seq(Char)
    BY DEF Char, Steer
  <2> QED
    BY <1>0, <2>1, <2>2
<1>3. CASE ~Is(p, {"hash"}) /\ ~Is(p, {"nl"}) /\ Is(p, {"cr"})
  <2>1. Read(p) = [type |-> "newline", value |-> <<"nl">>,
                   end |-> IF Is(p + 1, {"nl"}) THEN p + 2 ELSE p + 1, newlines |-> 1]
    BY <1>3 DEF Read
  <2>2. <<"nl">> \in Seq(Char)
    BY DEF Char, Steer
  <2>3. Is(p + 1, {"nl"}) => p + 1 \in 1..len
    BY <1>0 DEF Is
  <2> QED
    BY <1>0, <2>1, <2>2, <2>3
<1>4. CASE ~Is(p, {"hash"}) /\ ~Is(p, {"nl"}) /\ ~Is(p, {"cr"}) /\ StartsFlag(p)
  <2> DEFINE e == EndOfFlag(p)
  <2>1. p + 1 \in 1..len
    BY <1>0, <1>4 DEF StartsFlag, Is
  <2>2. e \in (p + 2)..(len + 1)
    <3>1. p + 2 <= len + 1
      BY <1>0, <2>1
    <3> QED
      BY <1>0, <3>1, FlagEnd
  <2> HIDE DEF e
  <2>3. e \in p..(len + 1) /\ 0 \in 0..(e - p)
    BY <1>0, <2>1, <2>2
  <2>4. Slice(p, e) \in Seq(Char)
    BY <1>0, <2>3, SliceIs
  <2>5. Read(p) = [type |-> "flag", value |-> Slice(p, e), end |-> e, newlines |-> 0]
    BY <1>4 DEF Read, e
  <2> QED
    BY <1>0, <2>3, <2>4, <2>5
<1>5. CASE /\ ~Is(p, {"hash"}) /\ ~Is(p, {"nl"}) /\ ~Is(p, {"cr"}) /\ ~StartsFlag(p)
           /\ Is(p, {"lb"})
  <2> DEFINE e == EndOfArray(p)
             c == CountIn({"nl"}, p, e - 1)
  <2>1. e \in (p + 1)..(len + 1)
    BY <1>0, ArrayEnd
  <2> HIDE DEF e
  <2>2. e \in p..(len + 1) /\ e \in Nat /\ p <= e
    BY <1>0, <2>1
  <2>3. c \in 0..(e - p)
    <3>1. {i \in p..(e - 1) : Is(i, {"nl"})} \subseteq p..(e - 1)
      OBVIOUS
    <3> QED
      BY <1>0, <2>2, <3>1, CountUpTo DEF CountIn
  <2>4. Slice(p, e) \in Seq(Char)
    BY <1>0, <2>2, SliceIs
  <2>5. Read(p) = [type |-> "argument", value |-> Slice(p, e), end |-> e, newlines |-> c]
    BY <1>5 DEF Read, e
  <2> HIDE DEF c
  <2> QED
    BY <1>0, <2>2, <2>3, <2>4, <2>5
<1>6. CASE /\ ~Is(p, {"hash"}) /\ ~Is(p, {"nl"}) /\ ~Is(p, {"cr"}) /\ ~StartsFlag(p)
           /\ ~Is(p, {"lb"}) /\ Is(p, {"quote"})
  <2> DEFINE q == EndOfString(p)
             e == IF q <= len THEN q + 1 ELSE q
             c == PlainNewlines(p, q - 1)
             kept == {j \in (p + 1)..(q - 1) : Is(j, {"bs"}) /\ j < Len(text) => Escaped(p, j)}
             value == [i \in kept |-> text[i]]
  <2>1. q \in (p + 1)..(len + 1)
    <3> HIDE DEF e, c, kept, value
    <3> QED
      BY <1>0, StringEnd
  <2>6. StringValue(p) = InOrder(value)
    BY DEF StringValue
  <2>5. Read(p) = [type |-> "argument", value |-> StringValue(p), end |-> e, newlines |-> c]
    BY <1>6 DEF Read, TextIs
  <2> HIDE DEF q
  <2>2. e \in p..(len + 1) /\ q \in Nat /\ p <= q /\ q - p <= e - p
    BY <1>0, <2>1
  <2>3. c \in 0..(e - p)
    <3>1. {i \in p..(q - 1) : Is(i, {"nl"}) /\ ~Escaped(p, i)} \subseteq p..(q - 1)
      OBVIOUS
    <3>2. c \in 0..(q - p)
      BY <1>0, <2>2, <3>1, CountUpTo DEF PlainNewlines
    <3> HIDE DEF c, e
    <3> QED
      BY <1>0, <2>2, <3>2
  <2>4. StringValue(p) \in Seq(Char)
    <3>1. kept \subseteq 1..len /\ \A i \in kept : text[i] \in Char
      <4>1. kept \subseteq 1..len
        BY <1>0, <2>1
      <4> HIDE DEF kept
      <4> QED
        BY <4>1, ElementOfSeq DEF TextIs
    <3>2. DOMAIN value = kept /\ \A i \in kept : value[i] = text[i]
      OBVIOUS
    <3> HIDE DEF kept, value
    <3> QED
      BY <1>0, <2>6, <3>1, <3>2, OrderingIs
  <2> HIDE DEF e, c
  <2> QED
    BY <1>0, <2>2, <2>3, <2>4, <2>5
<1>7. CASE /\ ~Is(p, {"hash"}) /\ ~Is(p, {"nl"}) /\ ~Is(p, {"cr"}) /\ ~StartsFlag(p)
           /\ ~Is(p, {"lb"}) /\ ~Is(p, {"quote"})
  <2> DEFINE e    == EndOfWord(p)
             word == Slice(p, e)
  <2>1. e \in p..(len + 1)
    BY <1>0, WordEnd
  <2> HIDE DEF e
  <2>2. word \in Seq(Char) /\ 0 \in 0..(e - p)
    <3>1. 0 \in 0..(e - p)
      BY <1>0, <2>1
    <3>2. Slice(p, e) \in Seq(Char)
      BY <1>0, <2>1, SliceIs
    <3> QED
      BY <3>1, <3>2
  <2> HIDE DEF word
  <2>3. CASE IsKeyword(word)
    <3>1. Read(p) = [type |-> "instruction", value |-> <<Upper[word[1]]>>, end |-> e, newlines |-> 0]
      BY <1>7, <2>3 DEF Read, e, word
    <3>2. Upper[word[1]] \in Keyword
      BY <2>3 DEF IsKeyword
    <3>3. <<Upper[word[1]]>> \in Seq(Char \cup Keyword)
      BY <3>2
    <3> QED
      BY <2>1, <2>2, <3>1, <3>2, <3>3
  <2>4. CASE ~IsKeyword(word)
    <3>1. Read(p) = [type |-> "argument", value |-> word, end |-> e, newlines |-> 0]
      BY <1>7, <2>4 DEF Read, e, word
    <3> QED
      BY <1>0, <2>1, <2>2, <3>1
  <2> QED
    BY <2>3, <2>4
<1> QED
  BY <1>1, <1>2, <1>3, <1>4, <1>5, <1>6, <1>7

-----------------------------------------------------------------------------
(* What postProcess makes of arguments.                                    *)

\* A part of a sequence may be empty wherever it would stand.
LEMMA PartIs ==
    ASSUME NEW S, NEW s \in Seq(S), NEW a \in Nat \ {0}, NEW b \in Int, b <= Len(s)
    PROVE  SubSeq(s, a, b) \in Seq(S)
<1>1. Len(s) \in Nat
  BY LenProperties
<1>2. CASE a <= b
  <2>1. a \in 1..Len(s) /\ b \in a..Len(s)
    BY <1>1, <1>2
  <2> QED
    BY <2>1, SubSeqProperties
<1>3. CASE b < a
  <2>1. SubSeq(s, a, b) = <<>>
    BY <1>1, <1>3, SubSeqEmpty
  <2> QED
    BY <2>1
<1> QED
  BY <1>2, <1>3

\* Trimming and unquoting leave characters.
LEMMA TrimmedIs ==
    ASSUME NEW s \in Seq(Char)
    PROVE  Trimmed(s) \in Seq(Char) /\ Unquoted(s) \in Seq(Char)
<1> DEFINE kept == {k \in DOMAIN s : s[k] \notin {"sp", "nl", "cr"}}
<1>1. Len(s) \in Nat /\ DOMAIN s = 1..Len(s) /\ kept \subseteq 1..Len(s)
  BY LenProperties
<1>2. Trimmed(s) = IF kept = {} THEN <<>> ELSE SubSeq(s, Min(kept), Max(kept))
  BY DEF Trimmed
<1> HIDE DEF kept
<1>3. Trimmed(s) \in Seq(Char)
  <2>1. CASE kept = {}
    BY <1>2, <2>1
  <2>2. CASE kept # {}
    <3>1. Min(kept) \in 1..Len(s) /\ Max(kept) \in 1..Len(s)
      BY <1>1, <2>2, EndsExist
    <3>2. Min(kept) \in Nat \ {0} /\ Max(kept) \in Int /\ Max(kept) <= Len(s)
      BY <1>1, <3>1
    <3> QED
      BY <1>2, <2>2, <3>2, PartIs
  <2> QED
    BY <2>1, <2>2
<1>4. Unquoted(s) \in Seq(Char)
  <2>1. SubSeq(s, 2, Len(s) - 1) \in Seq(Char)
    BY <1>1, PartIs
  <2> QED
    BY <2>1 DEF Unquoted
<1> QED
  BY <1>3, <1>4

\* The elements of an array are sequences of characters.
LEMMA ArrayIs ==
    ASSUME NEW s \in Seq(Char)
    PROVE  ParseJSONArray(s) \in Seq(Seq(Char))
<1> DEFINE inner == SubSeq(s, 2, Len(s) - 1)
           commas == {i \in DOMAIN inner : inner[i] = "comma"}
           f == [k \in commas |-> k]
           cuts == <<0>> \o InOrder(f) \o <<Len(inner) + 1>>
           part(k) == SubSeq(inner, cuts[k] + 1, cuts[k + 1] - 1)
<1>1. Len(s) \in Nat /\ inner \in Seq(Char)
  <2>1. Len(s) \in Nat
    BY LenProperties
  <2> QED
    BY <2>1, PartIs
<1>2. ParseJSONArray(s) = IF Trimmed(inner) = <<>> THEN <<>>
                          ELSE [k \in 1..(Len(cuts) - 1) |-> Unquoted(Trimmed(part(k)))]
  BY DEF ParseJSONArray
<1> HIDE DEF inner
<1>3. Len(inner) \in Nat /\ DOMAIN inner = 1..Len(inner)
  BY <1>1, LenProperties
<1>4. InOrder(f) \in Seq(1..Len(inner))
  <2>1. DOMAIN f \subseteq 1..Len(inner) /\ \A i \in DOMAIN f : f[i] \in 1..Len(inner)
    BY <1>3
  <2> HIDE DEF f
  <2> QED
    BY <1>3, <2>1, OrderingIs
<1> HIDE DEF f
<1>5. /\ cuts \in Seq(Nat) /\ Len(cuts) \in Nat /\ Len(cuts) - 1 \in Nat
      /\ \A k \in 1..(Len(cuts) - 1) : cuts[k + 1] \in 1..(Len(inner) + 1)
  <2> DEFINE o == InOrder(f)
             c == <<0>> \o o \o <<Len(inner) + 1>>
  <2>1. o \in Seq(1..Len(inner)) /\ o \in Seq(Nat) /\ Len(o) \in Nat
        /\ \A i \in 1..Len(o) : o[i] \in 1..Len(inner)
    <3>1. Seq(1..Len(inner)) \subseteq Seq(Nat)
      <4>1. 1..Len(inner) \subseteq Nat
        OBVIOUS
      <4> QED
        BY <4>1, SeqMonotonic
    <3> HIDE DEF o
    <3>2. o \in Seq(1..Len(inner))
      BY <1>4 DEF o
    <3> QED
      BY <3>1, <3>2, LenProperties, ElementOfSeq
  <2> HIDE DEF o
  <2>2. /\ c \in Seq(Nat) /\ Len(c) = Len(o) + 2
        /\ \A k \in 1..(Len(o) + 2) : c[k] = IF k = 1 THEN 0 ELSE
              IF k = Len(o) + 2 THEN Len(inner) + 1 ELSE o[k - 1]
    BY <1>3, <2>1
  <2> HIDE DEF c
  <2>3. \A k \in 1..(Len(c) - 1) : c[k + 1] \in 1..(Len(inner) + 1)
    <3>1. ASSUME NEW k \in 1..(Len(c) - 1)
          PROVE  c[k + 1] \in 1..(Len(inner) + 1)
      <4>1. k + 1 \in 1..(Len(o) + 2) /\ k + 1 # 1 /\ (k + 1) - 1 = k
        BY <2>1, <2>2
      <4>2. CASE k + 1 = Len(o) + 2
        BY <1>3, <2>2, <4>1, <4>2
      <4>3. CASE k + 1 # Len(o) + 2
        <5>1. k \in 1..Len(o) /\ c[k + 1] = o[k]
          BY <2>1, <2>2, <4>1, <4>3
        <5> QED
          BY <1>3, <2>1, <5>1
      <4> QED
        BY <4>2, <4>3
    <3> QED
      BY <3>1
  <2>4. Len(c) \in Nat /\ Len(c) - 1 \in Nat
    BY <2>1, <2>2
  <2> QED
    BY <2>2, <2>3, <2>4 DEF c, o
<1> HIDE DEF cuts
<1>6. ASSUME NEW k \in 1..(Len(cuts) - 1)
      PROVE  Unquoted(Trimmed(part(k))) \in Seq(Char)
  <2>1. cuts[k] \in Nat /\ cuts[k + 1] \in 1..(Len(inner) + 1)
    <3>1. k \in 1..Len(cuts)
      BY <1>5
    <3>2. cuts[k] \in Nat
      BY <1>5, <3>1, ElementOfSeq
    <3> QED
      BY <1>5, <3>2
  <2>2. cuts[k] + 1 \in Nat \ {0} /\ cuts[k + 1] - 1 \in Int /\ cuts[k + 1] - 1 <= Len(inner)
    BY <1>3, <2>1
  <2>3. part(k) \in Seq(Char)
    BY <1>1, <2>2, PartIs
  <2> HIDE DEF part
  <2> QED
    BY <2>3, TrimmedIs
<1> DEFINE all == [k \in 1..(Len(cuts) - 1) |-> Unquoted(Trimmed(part(k)))]
<1>7. all \in Seq(Seq(Char))
  <2> DEFINE top == Len(cuts) - 1
  <2>1. \A k \in 1..top : Unquoted(Trimmed(part(k))) \in Seq(Char)
    BY <1>6
  <2>2. top \in Nat
    BY <1>5
  <2> HIDE DEF top, part
  <2>3. [k \in 1..top |-> Unquoted(Trimmed(part(k)))] \in [1..top -> Seq(Char)]
    BY <2>1
  <2>4. [k \in 1..top |-> Unquoted(Trimmed(part(k)))] \in Seq(Seq(Char))
    BY <2>2, <2>3, SeqDef
  <2> QED
    BY <2>4 DEF top
<1> HIDE DEF all
<1>8. <<>> \in Seq(Seq(Char))
  OBVIOUS
<1> QED
  BY <1>2, <1>7, <1>8 DEF all

\* postProcess changes arguments only, into such.
LEMMA PostProcessIs ==
    ASSUME NEW inst, NEW op, NEW ln, NEW args \in Seq(Seq(Char)), NEW flags, NEW raw,
           inst = [op |-> op, line |-> ln, args |-> args, flags |-> flags, raw |-> raw]
    PROVE  /\ PostProcess(inst).op = op /\ PostProcess(inst).line = ln
           /\ PostProcess(inst).args \in Seq(Seq(Char))
<1>1. CASE /\ op \in {"CMD", "ENTRYPOINT", "SHELL"}
           /\ Len(args) = 1 /\ IsArray(Trimmed(args[1])) /\ args[1][1] = "lb"
  <2>1. PostProcess(inst) = [inst EXCEPT !.args = ParseJSONArray(Trimmed(args[1]))]
    BY <1>1 DEF PostProcess
  <2>2. args[1] \in Seq(Char)
    BY <1>1, ElementOfSeq
  <2>3. ParseJSONArray(Trimmed(args[1])) \in Seq(Seq(Char))
    BY <2>2, TrimmedIs, ArrayIs
  <2> QED
    BY <2>1, <2>3
<1>2. CASE /\ op = "ENV" /\ Len(args) = 2 /\ "eq" \notin Range(args[1])
  <2> DEFINE joint == args[1] \o <<"eq">> \o args[2]
  <2>1. PostProcess(inst) = [inst EXCEPT !.args = <<joint>>]
    BY <1>2 DEF PostProcess
  <2>2. args[1] \in Seq(Char) /\ args[2] \in Seq(Char)
    BY <1>2, ElementOfSeq
  <2>3. <<"eq">> \in Seq(Char)
    BY DEF Char, Steer
  <2>4. joint \in Seq(Char)
    BY <2>2, <2>3
  <2> HIDE DEF joint
  <2>5. <<joint>> \in Seq(Seq(Char))
    BY <2>4
  <2> QED
    BY <2>1, <2>5
<1>3. CASE /\ ~(/\ op \in {"CMD", "ENTRYPOINT", "SHELL"}
                /\ Len(args) = 1 /\ IsArray(Trimmed(args[1])) /\ args[1][1] = "lb")
           /\ ~(op = "ENV" /\ Len(args) = 2 /\ "eq" \notin Range(args[1]))
  <2>1. PostProcess(inst) = inst
    BY <1>3 DEF PostProcess
  <2> QED
    BY <2>1
<1> QED
  BY <1>1, <1>2, <1>3

-----------------------------------------------------------------------------
(* The lexer reads tokens, and the parser makes instructions of them.      *)

\* what a token is, besides of its type, in the lines up to one
TokenOK(t, upTo) ==
    /\ t \in Token /\ t.line <= upTo
    /\ t.type \in {"argument", "flag"} => t.value \in Seq(Char)
    /\ t.type = "instruction" => \E k \in Keyword : t.value = <<k>>

\* the lexer has read no more lines than characters
LexOK ==
    /\ text \in Seq(Char)
    /\ pos \in 1..(Len(text) + 1) /\ line \in 1..pos
    /\ tokens \in Seq(Token) /\ \A i \in DOMAIN tokens : TokenOK(tokens[i], line)
    /\ phase \in {"parse", "group", "parsed"} =>
          tokens # <<>> /\ tokens[Len(tokens)].type = "eof"

\* an instruction of the lines up to one
InstOK(inst, upTo) ==
    inst.op \in Keyword /\ inst.line \in 1..upTo /\ inst.args \in Seq(Seq(Char))

\* the parser has found no more instructions than it has read tokens
ParseOK ==
    /\ phase \in {"lex", "parse", "group", "parsed", "refused"}
    /\ cur \in 1..(Len(tokens) + 1) /\ Len(insts) <= Len(tokens)
    /\ phase = "lex" => cur = 1 /\ insts = <<>>
    /\ phase = "parse" => Len(insts) < cur
    /\ \A i \in DOMAIN insts : InstOK(insts[i], line)
    /\ \A i \in DOMAIN globals : globals[i].op = "ARG"
    /\ \A i \in DOMAIN stages : DOMAIN stages[i] = {"name", "insts"}

\* What the blanks before a token count for.
LEMMA SpacesCount ==
    ASSUME NEW len, TextIs(len), pos \in 1..(len + 1), line \in 1..pos
    PROVE  /\ LineAfterSpaces(pos) \in Nat /\ line <= LineAfterSpaces(pos)
           /\ LineAfterSpaces(pos) <= line + (SkipSpaces(pos) - pos)
           /\ SkipSpaces(pos) \in pos..(len + 1)
<1> DEFINE p == SkipSpaces(pos)
           S == {i \in pos..(p - 1) : Joins(i)}
<1>1. p \in pos..(len + 1) /\ len \in Nat
  BY SpacesEnd DEF TextIs
<1>2. LineAfterSpaces(pos) = line + Cardinality(S)
  BY DEF LineAfterSpaces
<1> HIDE DEF p
<1>3. Cardinality(S) \in 0..(p - pos)
  <2>1. S \subseteq pos..(p - 1) /\ pos \in Nat /\ p \in Nat /\ pos <= p
    BY <1>1
  <2> HIDE DEF S
  <2> QED
    BY <2>1, CountUpTo
<1> HIDE DEF S
<1> QED
  BY <1>1, <1>2, <1>3 DEF p

\* Tokens that are there stay what they are while lines are read.
LEMMA TokensStayOK ==
    ASSUME LexOK, line' \in Nat, line <= line',
           NEW t, t \in Token, t.line <= line',
           t.type \in {"argument", "flag"} => t.value \in Seq(Char),
           t.type = "instruction" => \E k \in Keyword : t.value = <<k>>,
           tokens' = Append(tokens, t)
    PROVE  /\ tokens' \in Seq(Token) /\ \A i \in DOMAIN tokens' : TokenOK(tokens'[i], line')
           /\ tokens' # <<>> /\ tokens'[Len(tokens')] = t /\ Len(tokens') = Len(tokens) + 1
           /\ Len(tokens) \in Nat
<1>1. /\ tokens' \in Seq(Token) /\ Len(tokens') = Len(tokens) + 1 /\ Len(tokens) \in Nat
      /\ \A i \in 1..Len(tokens) : tokens'[i] = tokens[i]
      /\ tokens'[Len(tokens) + 1] = t
      /\ DOMAIN tokens' = 1..(Len(tokens) + 1) /\ DOMAIN tokens = 1..Len(tokens)
  BY AppendProperties, LenProperties DEF LexOK
<1>2. ASSUME NEW i \in DOMAIN tokens'
      PROVE  TokenOK(tokens'[i], line')
  <2>1. CASE i \in 1..Len(tokens)
    <3>1. TokenOK(tokens[i], line) /\ tokens'[i] = tokens[i]
      BY <1>1, <2>1 DEF LexOK
    <3>2. tokens[i].line \in Nat /\ line \in Nat /\ tokens[i].line <= line'
      <4>1. line \in Nat
        BY DEF LexOK
      <4>2. tokens[i].line <= line /\ tokens[i].line \in Nat
        BY <3>1 DEF TokenOK, Token
      <4> QED
        BY <4>1, <4>2
    <3> QED
      BY <3>1, <3>2 DEF TokenOK
  <2>2. CASE i = Len(tokens) + 1
    BY <1>1, <2>2 DEF TokenOK
  <2> QED
    BY <1>1, <2>1, <2>2
<1>3. tokens' # <<>>
  BY <1>1, EmptySeq
<1> QED
  BY <1>1, <1>2, <1>3

\* A turn of Tokenize.
LEMMA ScanOK ==
    ASSUME LexOK, ParseOK, Scans
    PROVE  LexOK' /\ ParseOK'
<1> DEFINE len == Len(text)
           p   == SkipSpaces(pos)
           r   == Read(p)
           ln  == LineAfterSpaces(pos)
           t   == [type |-> r.type, value |-> r.value, line |-> ln]
<1>1. TextIs(len)
  BY LenProperties DEF LexOK, TextIs
<1> HIDE DEF len
<1>2. /\ ln \in Nat /\ line <= ln /\ ln <= line + (p - pos) /\ p \in pos..(len + 1)
      /\ pos \in 1..(len + 1) /\ line \in 1..pos /\ len \in Nat
  BY <1>1, SpacesCount DEF LexOK, TextIs, len
<1>3. /\ p \in DOMAIN text \/ p <= Len(text)
      /\ Emit(r.type, r.value, r.end, r.newlines)
  BY ScanReads
<1>4. p \in 1..len
  BY <1>1, <1>2, <1>3 DEF TextIs
<1> HIDE DEF p
<1>5. /\ r.type \in {"instruction", "argument", "flag", "comment", "newline"}
      /\ r.end \in p..(len + 1) /\ r.newlines \in 0..(r.end - p)
      /\ r.value \in Seq(Char \cup Keyword)
      /\ r.type \in {"argument", "flag"} => r.value \in Seq(Char)
      /\ r.type = "instruction" => \E k \in Keyword : r.value = <<k>>
  BY <1>1, <1>4, ReadIs
<1> HIDE DEF r
<1>6. /\ phase = "lex" /\ tokens' = Append(tokens, t)
      /\ pos' = r.end /\ line' = ln + r.newlines
      /\ UNCHANGED <<text, phase, cur, insts, globals, stages>>
  BY <1>3 DEF Emit
<1>7. line' \in 1..pos' /\ ln <= line' /\ ln \in Nat \ {0} /\ line <= line' /\ line' \in Nat
  <2>1. r.newlines \in Nat /\ r.end \in Nat /\ r.newlines <= r.end - p /\ p \in Nat
    BY <1>2, <1>4, <1>5
  <2> HIDE DEF ln
  <2>2. line \in Nat \ {0} /\ pos \in Nat /\ line <= pos /\ ln \in Nat /\ line <= ln
        /\ ln <= line + (p - pos)
    BY <1>2
  <2>3. line' = ln + r.newlines /\ pos' = r.end
    BY <1>6
  <2>4. line' \in Nat \ {0} /\ ln \in Nat \ {0} /\ ln <= line' /\ line <= line'
    BY <2>1, <2>2, <2>3
  <2>5. line' <= pos' /\ pos' \in Nat
    BY <2>1, <2>2, <2>3
  <2> QED
    BY <2>4, <2>5
<1>8. /\ t \in Token /\ t.line <= line'
      /\ t.type \in {"argument", "flag"} => t.value \in Seq(Char)
      /\ t.type = "instruction" => \E k \in Keyword : t.value = <<k>>
  BY <1>5, <1>7 DEF Token
<1> HIDE DEF t
<1>9. /\ tokens' \in Seq(Token) /\ \A i \in DOMAIN tokens' : TokenOK(tokens'[i], line')
      /\ Len(tokens') = Len(tokens) + 1 /\ Len(tokens) \in Nat
  BY <1>6, <1>7, <1>8, TokensStayOK
<1>10. LexOK'
  <2>1. pos' \in 1..(Len(text') + 1)
    BY <1>2, <1>4, <1>5, <1>6 DEF len
  <2> QED
    BY <1>6, <1>7, <1>9, <2>1 DEF LexOK
<1>11. ParseOK'
  <2>1. cur = 1 /\ insts = <<>>
    BY <1>6 DEF ParseOK
  <2>2. DOMAIN insts = {} /\ Len(insts) = 0
    BY <2>1
  <2> QED
    BY <1>6, <1>9, <2>1, <2>2 DEF ParseOK
<1> QED
  BY <1>10, <1>11

\* Tokenize ends.
LEMMA EndOfInputOK ==
    ASSUME LexOK, ParseOK, EndOfInput
    PROVE  LexOK' /\ ParseOK'
<1> DEFINE len == Len(text)
           p   == SkipSpaces(pos)
           ln  == LineAfterSpaces(pos)
           t   == [type |-> "eof", value |-> <<>>, line |-> ln]
<1>1. TextIs(len)
  BY LenProperties DEF LexOK, TextIs
<1> HIDE DEF len
<1>2. /\ ln \in Nat /\ line <= ln /\ ln <= line + (p - pos) /\ p \in pos..(len + 1)
      /\ pos \in 1..(len + 1) /\ line \in 1..pos /\ len \in Nat
  BY <1>1, SpacesCount DEF LexOK, TextIs, len
<1>3. /\ phase = "lex" /\ phase' = "parse" /\ p > len
      /\ pos' = len + 1 /\ line' = ln /\ tokens' = Append(tokens, t)
      /\ UNCHANGED <<text, cur, insts, globals, stages>>
  BY DEF EndOfInput, len
<1> HIDE DEF p, ln
<1>4. line' \in 1..pos' /\ line <= line' /\ line' \in Nat /\ ln \in Nat \ {0}
  BY <1>2, <1>3
<1>5. /\ t \in Token /\ t.line <= line' /\ t.type = "eof"
      /\ t.type \in {"argument", "flag"} => t.value \in Seq(Char)
      /\ t.type = "instruction" => \E k \in Keyword : t.value = <<k>>
  BY <1>3, <1>4 DEF Token
<1> HIDE DEF t
<1>6. /\ tokens' \in Seq(Token) /\ \A i \in DOMAIN tokens' : TokenOK(tokens'[i], line')
      /\ tokens' # <<>> /\ tokens'[Len(tokens')] = t
      /\ Len(tokens') = Len(tokens) + 1 /\ Len(tokens) \in Nat
  BY <1>3, <1>4, <1>5, TokensStayOK
<1>7. LexOK'
  <2>1. pos' \in 1..(Len(text') + 1) /\ text' = text
    BY <1>2, <1>3 DEF len
  <2> QED
    BY <1>4, <1>5, <1>6, <2>1 DEF LexOK
<1>8. ParseOK'
  <2>1. cur = 1 /\ insts = <<>>
    BY <1>3 DEF ParseOK
  <2>2. DOMAIN insts = {} /\ Len(insts) = 0
    BY <2>1
  <2> QED
    BY <1>3, <1>6, <2>1, <2>2 DEF ParseOK
<1> QED
  BY <1>7, <1>8

\* A line of tokens has an end.
LEMMA LineEnds ==
    ASSUME LexOK, phase = "parse", NEW i \in 1..Len(tokens)
    PROVE  /\ Len(tokens) \in Nat /\ DOMAIN tokens = 1..Len(tokens)
           /\ EndOfLine(i) \in i..Len(tokens)
           /\ tokens[EndOfLine(i)].type \in {"newline", "eof"}
           /\ \A j \in i..(EndOfLine(i) - 1) : tokens[j].type \notin {"newline", "eof"}
<1> DEFINE S == {j \in i..Len(tokens) : tokens[j].type \in {"newline", "eof"}}
<1>1. Len(tokens) \in Nat /\ DOMAIN tokens = 1..Len(tokens)
  BY LenProperties DEF LexOK
<1>2. Len(tokens) \in S /\ S \subseteq 1..Len(tokens) /\ EndOfLine(i) = Min(S)
  BY <1>1 DEF LexOK, EndOfLine
<1>3. Min(S) \in S /\ \A j \in S : Min(S) <= j
  <2> HIDE DEF S
  <2> QED
    BY <1>1, <1>2, EndsExist
<1>4. ASSUME NEW j \in i..(Min(S) - 1)
      PROVE  tokens[j].type \notin {"newline", "eof"}
  <2>1. Min(S) \in Nat /\ j \in Nat /\ j < Min(S) /\ j \in i..Len(tokens)
    BY <1>1, <1>3
  <2>2. j \notin S
    BY <1>3, <2>1
  <2> QED
    BY <2>1, <2>2
<1> QED
  BY <1>1, <1>2, <1>3, <1>4

\* What is gathered is an instruction.
LEMMA GatherIs ==
    ASSUME LexOK, phase = "parse", NEW i \in 1..Len(tokens), tokens[i].type = "instruction"
    PROVE  /\ EndOfLine(i) \in (i + 1)..Len(tokens)
           /\ InstOK(Gather(i), line) /\ InstOK(PostProcess(Gather(i)), line)
           /\ PostProcess(Gather(i)).op = Gather(i).op
           /\ PostProcess(Gather(i)).line = Gather(i).line
<1> DEFINE end == EndOfLine(i)
           of  == {k \in (i + 1)..(end - 1) : tokens[k].type \in {"argument"}}
           f   == [j \in of |-> tokens[j].value]
           args == ValuesOf(i, {"argument"})
<1>1. /\ Len(tokens) \in Nat /\ DOMAIN tokens = 1..Len(tokens)
      /\ end \in i..Len(tokens) /\ tokens[end].type \in {"newline", "eof"}
  BY LineEnds
<1>2. end \in (i + 1)..Len(tokens)
  <2>1. end # i
    BY <1>1
  <2> HIDE DEF end
  <2> QED
    BY <1>1, <2>1
<1>3. args = InOrder(f)
  BY DEF ValuesOf
<1> HIDE DEF end
<1>4. \A k \in 1..Len(tokens) : TokenOK(tokens[k], line)
  BY <1>1 DEF LexOK
<1>5. args \in Seq(Seq(Char))
  <2>1. of \subseteq 1..Len(tokens) /\ \A k \in of : tokens[k].type = "argument"
    BY <1>1, <1>2
  <2>2. DOMAIN f = of /\ \A k \in of : f[k] = tokens[k].value
    OBVIOUS
  <2> HIDE DEF of, f, args
  <2>3. \A k \in of : f[k] \in Seq(Char)
    BY <1>4, <2>1, <2>2 DEF TokenOK
  <2> QED
    BY <1>1, <1>3, <2>1, <2>2, <2>3, OrderingIs
<1> HIDE DEF args
<1> DEFINE flags == FlagsOf(ValuesOf(i, {"flag"}))
           raw   == Joined(<<tokens[i].value>> \o ValuesOf(i, {"argument", "flag", "instruction"}))
           op    == tokens[i].value[1]
           ln    == tokens[i].line
<1>6. Gather(i) = [op |-> op, line |-> ln, args |-> args, flags |-> flags, raw |-> raw]
  BY DEF Gather, args
<1>7. op \in Keyword /\ ln \in 1..line
  <2>1. TokenOK(tokens[i], line) /\ line \in Nat
    BY <1>4 DEF LexOK
  <2>2. PICK k \in Keyword : tokens[i].value = <<k>>
    BY <2>1 DEF TokenOK
  <2>3. tokens[i].line \in Nat \ {0} /\ tokens[i].line <= line
    BY <2>1 DEF TokenOK, Token
  <2> QED
    BY <2>1, <2>2, <2>3
<1> HIDE DEF flags, raw, op, ln
<1>8. /\ PostProcess(Gather(i)).op = op /\ PostProcess(Gather(i)).line = ln
      /\ PostProcess(Gather(i)).args \in Seq(Seq(Char))
  BY <1>5, <1>6, PostProcessIs
<1>9. Gather(i).op = op /\ Gather(i).line = ln /\ Gather(i).args = args
  BY <1>6
<1> QED
  BY <1>2, <1>5, <1>7, <1>8, <1>9 DEF InstOK, end

\* Parser's steps leave the tokens to the lexer.
LEMMA LexStays ==
    ASSUME LexOK, UNCHANGED lexerVars,
           phase' \in {"parse", "group", "parsed"} => phase \in {"parse", "group", "parsed"}
    PROVE  LexOK'
BY DEF LexOK, lexerVars

\* The first pass.
LEMMA ParserOK ==
    ASSUME LexOK, ParseOK, Grouping, SkipToken \/ ParseInstruction \/ EndOfTokens
    PROVE  LexOK' /\ ParseOK'
<1>1. /\ phase = "parse" /\ phase' \in {"parse", "group"} /\ UNCHANGED <<globals, stages>>
      /\ UNCHANGED lexerVars
  BY DEF SkipToken, ParseInstruction, EndOfTokens
<1>2. LexOK'
  BY <1>1, LexStays
<1>3. /\ Len(tokens) \in Nat /\ Len(insts) \in Nat /\ DOMAIN insts = 1..Len(insts)
      /\ insts \in Seq(Range(insts)) /\ cur \in 1..(Len(tokens) + 1) /\ Len(insts) < cur
      /\ tokens' = tokens /\ line' = line
  BY <1>1, LenProperties DEF LexOK, Grouping, ParseOK, lexerVars
<1>4. CASE SkipToken
  <2>1. cur' = cur + 1 /\ cur <= Len(tokens) /\ insts' = insts /\ phase' = "parse"
    BY <1>4 DEF SkipToken
  <2>2. cur' \in 1..(Len(tokens') + 1) /\ Len(insts') < cur'
    BY <1>3, <2>1
  <2> QED
    BY <1>1, <1>2, <1>3, <2>1, <2>2 DEF ParseOK, InstOK
<1>5. CASE ParseInstruction
  <2> DEFINE inst == PostProcess(Gather(cur))
  <2>1. /\ cur <= Len(tokens) /\ tokens[cur].type = "instruction" /\ phase' = "parse"
        /\ insts' = Append(insts, inst) /\ cur' = EndOfLine(cur) + 1
    BY <1>5 DEF ParseInstruction
  <2>2. cur \in 1..Len(tokens)
    BY <1>3, <2>1
  <2>3. EndOfLine(cur) \in (cur + 1)..Len(tokens) /\ InstOK(inst, line)
    BY <1>1, <2>1, <2>2, GatherIs
  <2> HIDE DEF inst
  <2>4. /\ Len(insts') = Len(insts) + 1 /\ \A i \in 1..Len(insts) : insts'[i] = insts[i]
        /\ insts'[Len(insts) + 1] = inst /\ DOMAIN insts' = 1..(Len(insts) + 1)
    <3>1. /\ insts' \in Seq(Range(insts')) /\ Len(insts') = Len(insts) + 1
          /\ \A i \in 1..Len(insts) : insts'[i] = insts[i]
          /\ insts'[Len(insts) + 1] = inst
      BY <1>3, <2>1, RangeAppend
    <3> QED
      BY <3>1, LenProperties
  <2>5. cur' \in 1..(Len(tokens') + 1) /\ Len(insts') < cur' /\ Len(insts') <= Len(tokens')
    BY <1>3, <2>1, <2>3, <2>4
  <2>6. \A i \in DOMAIN insts' : InstOK(insts'[i], line')
    <3>1. SUFFICES ASSUME NEW i \in DOMAIN insts'
                   PROVE  InstOK(insts'[i], line')
      OBVIOUS
    <3>2. CASE i \in 1..Len(insts)
      BY <1>3, <2>4, <3>2 DEF ParseOK, InstOK
    <3>3. CASE i = Len(insts) + 1
      BY <1>3, <2>3, <2>4, <3>3 DEF InstOK
    <3> QED
      BY <2>4, <3>1, <3>2, <3>3
  <2> QED
    BY <1>1, <1>2, <2>1, <2>5, <2>6 DEF ParseOK
<1>6. CASE EndOfTokens
  <2>1. cur' = 1 /\ insts' = insts /\ phase' = "group"
    BY <1>6 DEF EndOfTokens
  <2> QED
    BY <1>1, <1>2, <1>3, <2>1 DEF ParseOK, InstOK
<1> QED
  BY <1>4, <1>5, <1>6

\* The second pass.
LEMMA GroupOK ==
    ASSUME LexOK, ParseOK, Grouping, GlobalArg \/ NewStage \/ AddToStage
    PROVE  LexOK' /\ ParseOK'
<1>1. /\ More /\ phase' = phase /\ cur' = cur + 1 /\ UNCHANGED <<insts, lexerVars>>
  BY DEF GlobalArg, NewStage, AddToStage
<1>2. /\ phase = "group" /\ GroupedSoFar /\ cur \in 1..Len(insts) /\ Len(insts) \in Nat
      /\ insts \in Seq(Range(insts))
  BY <1>1, AtHand
<1>3. LexOK' /\ tokens' = tokens /\ line' = line
  BY <1>1, LexStays DEF lexerVars
<1>4. Len(tokens) \in Nat /\ cur' \in 1..(Len(tokens') + 1)
  <2>1. Len(tokens) \in Nat /\ Len(insts) <= Len(tokens)
    BY LenProperties DEF LexOK, ParseOK
  <2> QED
    BY <1>1, <1>2, <1>3, <2>1
<1>5. \A i \in DOMAIN globals' : globals'[i].op = "ARG"
  <2>1. CASE globals' = globals
    BY <2>1 DEF ParseOK
  <2>2. CASE GlobalArg
    <3>1. globals' = Append(globals, insts[cur]) /\ insts[cur].op = "ARG"
      BY <2>2 DEF GlobalArg
    <3>2. globals \in Seq(Range(insts)) /\ insts[cur] \in Range(insts)
      BY <1>2, ElementOfSeq DEF GroupedSoFar
    <3>3. /\ Len(globals) \in Nat /\ DOMAIN globals' = 1..(Len(globals) + 1)
          /\ DOMAIN globals = 1..Len(globals)
          /\ \A i \in 1..Len(globals) : globals'[i] = globals[i]
          /\ globals'[Len(globals) + 1] = insts[cur]
      <4>1. /\ globals' \in Seq(Range(insts)) /\ Len(globals') = Len(globals) + 1
            /\ \A i \in 1..Len(globals) : globals'[i] = globals[i]
            /\ globals'[Len(globals) + 1] = insts[cur]
        BY <3>1, <3>2, AppendProperties
      <4>2. Len(globals) \in Nat /\ DOMAIN globals = 1..Len(globals)
        BY <3>2, LenProperties
      <4>3. DOMAIN globals' = 1..Len(globals')
        BY <4>1, LenProperties
      <4> QED
        BY <4>1, <4>2, <4>3
    <3> QED
      BY <3>1, <3>3 DEF ParseOK
  <2> QED
    BY <2>1, <2>2 DEF GlobalArg, NewStage, AddToStage
<1>6. \A i \in DOMAIN stages' : DOMAIN stages'[i] = {"name", "insts"}
  <2>0. stages \in Seq(Range(stages)) /\ Len(stages) \in Nat /\ DOMAIN stages = 1..Len(stages)
    BY <1>2, LenProperties DEF GroupedSoFar
  <2>1. CASE stages' = stages
    BY <2>1 DEF ParseOK
  <2>2. CASE NewStage
    <3> DEFINE stage == [name |-> Alias(insts[cur].args), insts |-> <<insts[cur]>>]
    <3>1. stages' = Append(stages, stage) /\ DOMAIN stage = {"name", "insts"}
      BY <2>2 DEF NewStage
    <3> HIDE DEF stage
    <3>2. /\ stages' \in Seq(Range(stages')) /\ Len(stages') = Len(stages) + 1
          /\ \A i \in 1..Len(stages) : stages'[i] = stages[i]
          /\ stages'[Len(stages) + 1] = stage
      BY <2>0, <3>1, RangeAppend
    <3>3. DOMAIN stages' = 1..(Len(stages) + 1)
      BY <3>2, LenProperties
    <3> QED
      BY <2>0, <3>1, <3>2, <3>3 DEF ParseOK
  <2>3. CASE AddToStage
    <3> DEFINE tip == Len(stages)
    <3>1. stages' = [stages EXCEPT ![tip].insts = Append(@, insts[cur])]
      BY <2>3 DEF AddToStage
    <3> HIDE DEF tip
    <3>2. DOMAIN stages' = DOMAIN stages
          /\ \A i \in DOMAIN stages : DOMAIN stages'[i] = DOMAIN stages[i]
      BY <3>1
    <3> QED
      BY <3>2 DEF ParseOK
  <2> QED
    BY <2>1, <2>2, <2>3 DEF GlobalArg, NewStage, AddToStage
<1> QED
  BY <1>1, <1>2, <1>3, <1>4, <1>5, <1>6 DEF ParseOK

\* Every step of Parse.
LEMMA ParseKeepsOK ==
    ASSUME LexOK, ParseOK, Grouping, Parse
    PROVE  LexOK' /\ ParseOK'
<1>1. CASE ParseError \/ GroupError
  <2>1. phase' = "refused" /\ UNCHANGED <<lexerVars, cur, insts, globals, stages>>
    BY <1>1 DEF ParseError, GroupError, Refuse
  <2>2. LexOK'
    BY <2>1, LexStays
  <2> QED
    BY <2>1, <2>2 DEF ParseOK, lexerVars
<1>2. CASE Grouped
  <2>1. /\ phase = "group" /\ phase' = "parsed"
        /\ UNCHANGED <<lexerVars, cur, insts, globals, stages>>
    BY <1>2 DEF Grouped
  <2>2. LexOK'
    BY <2>1, LexStays
  <2> QED
    BY <2>1, <2>2 DEF ParseOK, lexerVars
<1>3. CASE Tokenize
  BY <1>3, ScanOK, EndOfInputOK DEF Tokenize, Scans
<1> QED
  BY <1>1, <1>2, <1>3, ParserOK, GroupOK DEF Parse

\* Every step of main, and of a walk.
LEMMA StepKeepsOK ==
    ASSUME LexOK, ParseOK, Grouping, [Next]_allVars
    PROVE  LexOK' /\ ParseOK'
<1>1. CASE StartBuild
  <2>1. /\ pos' = 1 /\ line' = 1 /\ tokens' = <<>> /\ phase' = "lex" /\ text' = text
        /\ cur' = 1 /\ insts' = <<>> /\ globals' = <<>> /\ stages' = <<>>
    BY <1>1 DEF StartBuild
  <2>2. Len(text) \in Nat
    BY LenProperties DEF LexOK
  <2>3. LexOK'
    BY <2>1, <2>2 DEF LexOK
  <2> QED
    BY <2>1, <2>3 DEF ParseOK
<1>2. CASE ParseDockerfile
  BY <1>2, ParseKeepsOK DEF ParseDockerfile
<1>3. CASE UNCHANGED dockerfileVars
  BY <1>3 DEF LexOK, ParseOK, dockerfileVars
<1>4. Parsed \/ Fail \/ LookupOnly \/ FilesystemInstruction \/ Export => UNCHANGED dockerfileVars
  BY DEF Parsed, Fail, LookupOnly, FilesystemInstruction, Execute, Export
<1> QED
  BY <1>1, <1>2, <1>3, <1>4 DEF Next, Main, allVars, vars

\* The first text.
LEMMA StartsOK ==
    ASSUME FrontendInit
    PROVE  LexOK /\ ParseOK
<1>1. /\ text \in Seq(Char) /\ pos = 1 /\ line = 1 /\ tokens = <<>> /\ phase \in {"lex", "refused"}
      /\ cur = 1 /\ insts = <<>> /\ globals = <<>> /\ stages = <<>>
  <2>1. <<>> \in Seq(Char)
    OBVIOUS
  <2> QED
    BY <2>1, TextsAreTexts DEF FrontendInit, Init, DockerfileInit, NoBuild
<1>2. Len(text) \in Nat
  BY <1>1, LenProperties
<1> QED
  BY <1>1, <1>2 DEF LexOK, ParseOK

-----------------------------------------------------------------------------
(* A tracker of phases: what the operations on it do.                      *)

\* the phases of a build
SnapshotPhase == <<"Layer Snapshot">>
SubPhases == {<<"Layer Snapshot", "Diff">>, <<"Layer Snapshot", "Tar+Compress">>}
FilePhases == {<<"RootFS Prepare">>, <<"Instruction Execute">>, SnapshotPhase,
               <<"Metadata Store">>} \cup SubPhases
Keys == {<<"Dockerfile Parse">>, <<"Cache Lookup">>, <<"OCI Export">>} \cup FilePhases

\* nothing starts in a tracker but at 0; its lists have each of its phases once
TrackerOK(t) ==
    /\ t = [phases |-> t.phases, order |-> t.order]
    /\ t.phases \in [DOMAIN t.phases -> [durations : Seq(0..MaxTime), start : {0}]]
    /\ DOMAIN t.phases \subseteq Keys
    /\ \A key \in DOMAIN t.phases : <<key[1]>> \in DOMAIN t.phases
    /\ t.order = [key \in DOMAIN t.phases |-> 1]

\* Only two phases have a parent.
LEMMA Parents ==
    /\ \A key \in Keys \ SubPhases : <<key[1]>> = key
    /\ \A key \in SubPhases : <<key[1]>> = SnapshotPhase /\ <<key[1]>> # key
    /\ SubPhases \subseteq Keys /\ SnapshotPhase \in Keys \ SubPhases
    /\ \A key \in Keys : Len(key) = 2 <=> key \in SubPhases
<1>1. \A key \in Keys \ SubPhases : \E x : key = <<x>>
  BY DEF Keys, FilePhases, SubPhases, SnapshotPhase
<1>2. \A key \in Keys \ SubPhases : <<key[1]>> = key /\ Len(key) = 1
  <2>1. \A x : <<x>>[1] = x /\ Len(<<x>>) = 1
    OBVIOUS
  <2> QED
    BY <1>1, <2>1
<1>3. \A key \in SubPhases : \E x : key = <<"Layer Snapshot", x>>
  BY DEF SubPhases
<1>4. \A key \in SubPhases : <<key[1]>> = SnapshotPhase /\ Len(key) = 2
  <2>1. \A x : <<"Layer Snapshot", x>>[1] = "Layer Snapshot" /\ Len(<<"Layer Snapshot", x>>) = 2
    OBVIOUS
  <2> QED
    BY <1>3, <2>1 DEF SnapshotPhase
<1>5. SubPhases \subseteq Keys /\ SnapshotPhase \in Keys /\ Len(SnapshotPhase) = 1
  BY DEF Keys, FilePhases, SnapshotPhase
<1> QED
  BY <1>2, <1>4, <1>5

\* A list gets what is new.
LEMMA ListedIs ==
    ASSUME NEW t, TrackerOK(t), NEW keys
    PROVE  /\ Listed(t, keys).order = [key \in DOMAIN t.phases \cup keys |-> 1]
           /\ Listed(t, keys).phases = t.phases
           /\ Listed(t, keys) = [phases |-> t.phases, order |-> Listed(t, keys).order]
<1> DEFINE D == DOMAIN t.phases
           added == SetToBag(keys \ D)
           both == t.order (+) added
<1>1. Listed(t, keys) = [t EXCEPT !.order = both]
  BY DEF Listed
<1>2. t = [phases |-> t.phases, order |-> t.order] /\ t.order = [key \in D |-> 1]
  BY DEF TrackerOK
<1>3. both = [key \in D \cup keys |-> 1]
  <2> DEFINE new == keys \ D
  <2>1. added = [key \in new |-> 1]
    BY DEF SetToBag
  <2> DEFINE a == t.order
             b == [key \in new |-> 1]
  <2>2. DOMAIN a = D /\ \A key \in D : a[key] = 1
    BY <1>2
  <2>3. DOMAIN b = new /\ \A key \in new : b[key] = 1
    OBVIOUS
  <2>4. D \cup new = D \cup keys /\ \A key \in new : key \notin D
    OBVIOUS
  <2> HIDE DEF a, b, new, D
  <2>5. a (+) b = [key \in D \cup new |-> 1]
    BY <2>2, <2>3, <2>4 DEF (+)
  <2> QED
    BY <2>1, <2>4, <2>5 DEF a, b
<1> HIDE DEF both
<1>4. Listed(t, keys).phases = t.phases /\ Listed(t, keys).order = both
      /\ Listed(t, keys) = [phases |-> t.phases, order |-> both]
  BY <1>1, <1>2
<1> QED
  BY <1>3, <1>4

\* Durations of a tracker.
LEMMA DurationsAre ==
    ASSUME NEW t, TrackerOK(t), NEW key
    PROVE  /\ Durations(t, key) \in Seq(0..MaxTime)
           /\ key \in DOMAIN t.phases =>
                t.phases[key] = [durations |-> Durations(t, key), start |-> 0]
<1>1. CASE key \in DOMAIN t.phases
  <2>1. t.phases[key] \in [durations : Seq(0..MaxTime), start : {0}]
    BY <1>1 DEF TrackerOK
  <2>2. Durations(t, key) = t.phases[key].durations
    BY <1>1 DEF Durations
  <2> QED
    BY <2>1, <2>2
<1>2. CASE key \notin DOMAIN t.phases
  <2>1. Durations(t, key) = <<>>
    BY <1>2 DEF Durations
  <2> QED
    BY <1>2, <2>1
<1> QED
  BY <1>1, <1>2

\* A phase starts.
LEMMA PhaseStarted ==
    ASSUME NEW t, TrackerOK(t), NEW key \in Keys,
           <<key[1]>> \in DOMAIN t.phases \cup {key}
    PROVE  /\ TrackerOK(StartPhase(t, key, 0))
           /\ DOMAIN StartPhase(t, key, 0).phases = DOMAIN t.phases \cup {key}
           /\ \A k : Durations(StartPhase(t, key, 0), k) = Durations(t, k)
<1> DEFINE u == StartPhase(t, key, 0)
           D == DOMAIN t.phases
           p == [k \in D \cup {key} |->
                   IF k = key THEN [durations |-> Durations(t, k), start |-> 0] ELSE t.phases[k]]
           o == [k \in D \cup {key} |-> 1]
<1>1. u = [phases |-> p, order |-> o]
  <2> DEFINE l == Listed(t, {key})
  <2>1. l = [phases |-> t.phases, order |-> o]
    BY ListedIs
  <2>2. u = [l EXCEPT !.phases =
               [k \in DOMAIN @ \cup {key} |->
                  IF k = key THEN [durations |-> Durations(t, k), start |-> 0] ELSE @[k]]]
    BY DEF StartPhase
  <2> HIDE DEF l, o, u
  <2> QED
    BY <2>1, <2>2
<1> HIDE DEF u
<1>2. /\ DOMAIN p = D \cup {key}
      /\ \A k \in D \cup {key} : p[k] = [durations |-> Durations(t, k), start |-> 0]
      /\ p \in [D \cup {key} -> [durations : Seq(0..MaxTime), start : {0}]]
  <2>1. \A k \in D \cup {key} : p[k] = [durations |-> Durations(t, k), start |-> 0]
    BY DurationsAre
  <2>2. \A k \in D \cup {key} : p[k] \in [durations : Seq(0..MaxTime), start : {0}]
    <3> HIDE DEF p, D
    <3>1. \A k : Durations(t, k) \in Seq(0..MaxTime)
      BY DurationsAre
    <3>2. \A d \in Seq(0..MaxTime) :
             [durations |-> d, start |-> 0] \in [durations : Seq(0..MaxTime), start : {0}]
      OBVIOUS
    <3> QED
      BY <2>1, <3>1, <3>2
  <2> QED
    BY <2>1, <2>2
<1> HIDE DEF p, o
<1>3. u.phases = p /\ u.order = o
  BY <1>1
<1>4. ASSUME NEW k PROVE Durations(u, k) = Durations(t, k)
  <2>1. CASE k \in D \cup {key}
    <3>1. Durations(u, k) = p[k].durations
      BY <1>2, <1>3, <2>1 DEF Durations
    <3>2. p[k] = [durations |-> Durations(t, k), start |-> 0]
      BY <1>2, <2>1
    <3> QED
      BY <3>1, <3>2
  <2>2. CASE k \notin D \cup {key}
    BY <1>2, <1>3, <2>2 DEF Durations
  <2> QED
    BY <2>1, <2>2
<1>5. TrackerOK(u)
  <2>1. D \subseteq Keys /\ \A k \in D : <<k[1]>> \in D
    BY DEF TrackerOK
  <2>2. \A k \in D \cup {key} : <<k[1]>> \in D \cup {key}
    BY <2>1
  <2>3. DOMAIN u.phases \subseteq Keys
    BY <1>2, <1>3, <2>1
  <2> QED
    BY <1>1, <1>2, <1>3, <2>2, <2>3 DEF TrackerOK, o
<1> QED
  BY <1>2, <1>3, <1>4, <1>5 DEF u

\* A phase that started ends.
LEMMA PhaseEnded ==
    ASSUME NEW t, TrackerOK(t), NEW key \in DOMAIN t.phases, NEW time \in 0..MaxTime
    PROVE  /\ TrackerOK(EndPhase(t, key, time))
           /\ DOMAIN EndPhase(t, key, time).phases = DOMAIN t.phases
           /\ \A k : Durations(EndPhase(t, key, time), k) =
                        IF k = key THEN Append(Durations(t, k), time) ELSE Durations(t, k)
<1> DEFINE u == EndPhase(t, key, time)
           D == DOMAIN t.phases
           more == Append(Durations(t, key), time)
<1>1. t.phases[key] = [durations |-> Durations(t, key), start |-> 0]
      /\ Durations(t, key) \in Seq(0..MaxTime)
  BY DurationsAre
<1>2. more \in Seq(0..MaxTime)
  BY <1>1, AppendProperties
<1>3. time - 0 = time
  BY BenchConstants
<1> HIDE DEF more
<1>4. u = [t EXCEPT !.phases[key].durations = more]
  <2>1. Durations(t, key) = t.phases[key].durations
    BY DEF Durations
  <2>2. u = [t EXCEPT !.phases[key].durations = Append(t.phases[key].durations, time - t.phases[key].start)]
    BY DEF EndPhase
  <2>3. t.phases[key].start = 0
    BY <1>1
  <2> QED
    BY <1>3, <2>1, <2>2, <2>3 DEF more
<1> HIDE DEF u
<1> DEFINE p == [t.phases EXCEPT ![key] = [durations |-> more, start |-> 0]]
<1>5. u = [phases |-> p, order |-> t.order]
  <2>1. t = [phases |-> t.phases, order |-> t.order]
        /\ t.phases \in [D -> [durations : Seq(0..MaxTime), start : {0}]]
    BY DEF TrackerOK
  <2>2. [t.phases[key] EXCEPT !.durations = more] = [durations |-> more, start |-> 0]
    BY <1>1
  <2>3. u = [t EXCEPT !.phases = [t.phases EXCEPT ![key] = [t.phases[key] EXCEPT !.durations = more]]]
    BY <1>4
  <2> QED
    BY <2>1, <2>2, <2>3
<1>6. /\ DOMAIN p = D /\ p \in [D -> [durations : Seq(0..MaxTime), start : {0}]]
      /\ \A k \in D : p[k] = IF k = key THEN [durations |-> more, start |-> 0] ELSE t.phases[k]
  BY <1>2 DEF TrackerOK
<1> HIDE DEF p
<1>7. u.phases = p /\ u.order = t.order
  BY <1>5
<1>8. \A k : Durations(u, k) = IF k = key THEN more ELSE Durations(t, k)
  BY <1>6, <1>7 DEF Durations
<1>9. TrackerOK(u)
  <2>1. u = [phases |-> u.phases, order |-> u.order]
    BY <1>5, <1>7
  <2> QED
    BY <1>6, <1>7, <2>1 DEF TrackerOK
<1> QED
  BY <1>6, <1>7, <1>8, <1>9 DEF u, more

\* A phase that takes a time.
LEMMA PhaseTimed ==
    ASSUME NEW t, TrackerOK(t), NEW key \in Keys,
           <<key[1]>> \in DOMAIN t.phases \cup {key}, NEW time \in 0..MaxTime
    PROVE  /\ TrackerOK(Timed(t, key, time))
           /\ DOMAIN Timed(t, key, time).phases = DOMAIN t.phases \cup {key}
           /\ \A k : Durations(Timed(t, key, time), k) =
                        IF k = key THEN Append(Durations(t, k), time) ELSE Durations(t, k)
<1> DEFINE s == StartPhase(t, key, 0)
<1>1. TrackerOK(s) /\ DOMAIN s.phases = DOMAIN t.phases \cup {key}
      /\ \A k : Durations(s, k) = Durations(t, k)
  BY PhaseStarted
<1>2. Timed(t, key, time) = EndPhase(s, key, time)
  BY DEF Timed
<1> HIDE DEF s
<1>3. key \in DOMAIN s.phases
  BY <1>1
<1>4. /\ TrackerOK(EndPhase(s, key, time))
      /\ DOMAIN EndPhase(s, key, time).phases = DOMAIN s.phases
      /\ \A k : Durations(EndPhase(s, key, time), k) =
                   IF k = key THEN Append(Durations(s, k), time) ELSE Durations(s, k)
  BY <1>1, <1>3, PhaseEnded
<1> QED
  BY <1>1, <1>2, <1>4

\* A tracker starts with nothing.
LEMMA NewTrackerOK ==
    /\ TrackerOK(NewTracker) /\ DOMAIN NewTracker.phases = {}
    /\ \A k : Durations(NewTracker, k) = <<>>
<1> DEFINE t == NewTracker
<1>1. t.phases = <<>> /\ DOMAIN t.phases = {} /\ t.order = [k \in {} |-> 1]
      /\ t = [phases |-> t.phases, order |-> t.order]
  BY DEF NewTracker, EmptyBag, SetToBag
<1>2. t.phases = [k \in {} |-> 0]
  BY <1>1
<1> HIDE DEF t
<1>3. t.phases \in [{} -> [durations : Seq(0..MaxTime), start : {0}]]
  BY <1>2
<1>4. TrackerOK(t)
  BY <1>1, <1>3 DEF TrackerOK
<1>5. \A k : Durations(t, k) = <<>>
  BY <1>1 DEF Durations
<1> QED
  BY <1>1, <1>4, <1>5 DEF t

\* u is the tracker t after each of these phases took place once more
Longer(t, u, keys) ==
    /\ TrackerOK(u) /\ DOMAIN u.phases = DOMAIN t.phases \cup keys
    /\ \A k : Len(Durations(u, k)) = Len(Durations(t, k)) + IF k \in keys THEN 1 ELSE 0

\* A phase that takes a time took place.
LEMMA TimedIsLonger ==
    ASSUME NEW t, TrackerOK(t), NEW key \in Keys,
           <<key[1]>> \in DOMAIN t.phases \cup {key}, NEW time \in 0..MaxTime
    PROVE  Longer(t, Timed(t, key, time), {key})
<1> DEFINE u == Timed(t, key, time)
<1>1. /\ TrackerOK(u) /\ DOMAIN u.phases = DOMAIN t.phases \cup {key}
      /\ \A k : Durations(u, k) = IF k = key THEN Append(Durations(t, k), time) ELSE Durations(t, k)
  BY PhaseTimed
<1> HIDE DEF u
<1>2. ASSUME NEW k
      PROVE  Len(Durations(u, k)) = Len(Durations(t, k)) + IF k \in {key} THEN 1 ELSE 0
  <2>1. Durations(t, k) \in Seq(0..MaxTime) /\ Len(Durations(t, k)) \in Nat
    BY DurationsAre, LenProperties
  <2>2. CASE k = key
    <3>1. Durations(u, k) = Append(Durations(t, k), time)
      BY <1>1, <2>2
    <3>2. Len(Append(Durations(t, k), time)) = Len(Durations(t, k)) + 1
      BY <2>1, AppendProperties
    <3> QED
      BY <2>2, <3>1, <3>2
  <2>3. CASE k # key
    BY <1>1, <2>1, <2>3
  <2> QED
    BY <2>2, <2>3
<1> QED
  BY <1>1, <1>2 DEF Longer, u

\* Two rows of phases are one.
LEMMA LongerTwice ==
    ASSUME NEW t, NEW u, NEW v, NEW A, NEW B, TrackerOK(t),
           Longer(t, u, A), Longer(u, v, B), A \cap B = {}
    PROVE  Longer(t, v, A \cup B)
<1>1. ASSUME NEW k
      PROVE  Len(Durations(v, k)) = Len(Durations(t, k)) + IF k \in A \cup B THEN 1 ELSE 0
  <2>1. Len(Durations(t, k)) \in Nat
    BY DurationsAre, LenProperties
  <2>2. /\ Len(Durations(u, k)) = Len(Durations(t, k)) + IF k \in A THEN 1 ELSE 0
        /\ Len(Durations(v, k)) = Len(Durations(u, k)) + IF k \in B THEN 1 ELSE 0
    BY DEF Longer
  <2> DEFINE x == Len(Durations(t, k))
             y == Len(Durations(u, k))
             z == Len(Durations(v, k))
  <2> HIDE DEF x, y, z
  <2>3. x \in Nat /\ y = x + (IF k \in A THEN 1 ELSE 0) /\ z = y + (IF k \in B THEN 1 ELSE 0)
    BY <2>1, <2>2 DEF x, y, z
  <2>4. z = x + IF k \in A \cup B THEN 1 ELSE 0
    <3>1. CASE k \in A
      <4>1. k \notin B /\ k \in A \cup B
        BY <3>1
      <4> QED
        BY <2>3, <3>1, <4>1
    <3>2. CASE k \notin A
      <4>1. k \in B <=> k \in A \cup B
        BY <3>2
      <4> QED
        BY <2>3, <3>2, <4>1
    <3> QED
      BY <3>1, <3>2
  <2> QED
    BY <2>4 DEF x, z
<1> QED
  BY <1>1 DEF Longer

\* What a filesystem instruction adds.
LEMMA FilePhasesTimed ==
    ASSUME NEW t, TrackerOK(t), NEW time \in 0..MaxTime
    PROVE  LET executed == Timed(Timed(Timed(t, <<"Cache Lookup">>, 0), <<"RootFS Prepare">>, 0),
                                 <<"Instruction Execute">>, time)
               diffed   == Timed(StartPhase(executed, <<"Layer Snapshot">>, 0),
                                 <<"Layer Snapshot", "Diff">>, 0)
               written  == EndPhase(Timed(diffed, <<"Layer Snapshot", "Tar+Compress">>, 0),
                                    <<"Layer Snapshot">>, 0)
           IN  Longer(t, Timed(written, <<"Metadata Store">>, 0),
                      {<<"Cache Lookup">>} \cup FilePhases)
<1> DEFINE CL == <<"Cache Lookup">>
           RP == <<"RootFS Prepare">>
           IE == <<"Instruction Execute">>
           LS == <<"Layer Snapshot">>
           DI == <<"Layer Snapshot", "Diff">>
           TC == <<"Layer Snapshot", "Tar+Compress">>
           MS == <<"Metadata Store">>
           t1 == Timed(t, CL, 0)
           t2 == Timed(t1, RP, 0)
           t3 == Timed(t2, IE, time)
           t4 == StartPhase(t3, LS, 0)
           t5 == Timed(t4, DI, 0)
           t6 == Timed(t5, TC, 0)
           t7 == EndPhase(t6, LS, 0)
           t8 == Timed(t7, MS, 0)
<1>0. 0 \in 0..MaxTime
  BY BenchConstants
<1>1. /\ {CL, RP, IE, LS, DI, TC, MS} \subseteq Keys
      /\ <<CL[1]>> = CL /\ <<RP[1]>> = RP /\ <<IE[1]>> = IE /\ <<LS[1]>> = LS /\ <<MS[1]>> = MS
      /\ <<DI[1]>> = LS /\ <<TC[1]>> = LS
      /\ FilePhases = {RP, IE, LS, DI, TC, MS}
  BY DEF Keys, FilePhases, SubPhases, SnapshotPhase
<1>2. /\ CL \notin {RP, IE, LS, DI, TC, MS} /\ RP \notin {IE, LS, DI, TC, MS}
      /\ IE \notin {LS, DI, TC, MS} /\ LS \notin {DI, TC, MS} /\ DI \notin {TC, MS} /\ TC # MS
  OBVIOUS
<1> HIDE DEF CL, RP, IE, LS, DI, TC, MS
<1>3. Longer(t, t1, {CL})
  BY <1>0, <1>1, TimedIsLonger
<1> HIDE DEF t1
<1>4. Longer(t, t2, {CL, RP})
  <2>1. Longer(t1, t2, {RP})
    <3>1. TrackerOK(t1) /\ RP \in Keys /\ <<RP[1]>> \in DOMAIN t1.phases \cup {RP}
      BY <1>1, <1>3 DEF Longer
    <3> QED
      BY <1>0, <3>1, TimedIsLonger
  <2>2. {CL} \cap {RP} = {} /\ {CL} \cup {RP} = {CL, RP}
    BY <1>2
  <2> HIDE DEF t2
  <2>3. Longer(t, t2, {CL} \cup {RP})
    BY <1>3, <2>1, <2>2, LongerTwice
  <2> QED
    BY <2>2, <2>3
<1> HIDE DEF t2
<1>5. Longer(t, t3, {CL, RP, IE})
  <2>1. Longer(t2, t3, {IE})
    <3>1. TrackerOK(t2) /\ IE \in Keys /\ <<IE[1]>> \in DOMAIN t2.phases \cup {IE}
      BY <1>1, <1>4 DEF Longer
    <3> QED
      BY <1>0, <3>1, TimedIsLonger
  <2>2. {CL, RP} \cap {IE} = {} /\ {CL, RP} \cup {IE} = {CL, RP, IE}
    BY <1>2
  <2> HIDE DEF t3
  <2>3. Longer(t, t3, {CL, RP} \cup {IE})
    BY <1>4, <2>1, <2>2, LongerTwice
  <2> QED
    BY <2>2, <2>3
<1> HIDE DEF t3
<1>6. Longer(t3, t7, {LS, DI, TC})
  <2>1. TrackerOK(t3)
    BY <1>5 DEF Longer
  <2>2. /\ TrackerOK(t4) /\ DOMAIN t4.phases = DOMAIN t3.phases \cup {LS}
        /\ \A k : Durations(t4, k) = Durations(t3, k)
    BY <1>1, <2>1, PhaseStarted
  <2> HIDE DEF t4
  <2>3. Longer(t4, t5, {DI})
    BY <1>0, <1>1, <2>2, TimedIsLonger
  <2> HIDE DEF t5
  <2>4. Longer(t5, t6, {TC})
    <3>1. TrackerOK(t5) /\ TC \in Keys /\ <<TC[1]>> \in DOMAIN t5.phases \cup {TC}
      BY <1>1, <2>2, <2>3 DEF Longer
    <3> QED
      BY <1>0, <3>1, TimedIsLonger
  <2> HIDE DEF t6
  <2>5. Longer(t4, t6, {DI, TC})
    <3>1. {DI} \cap {TC} = {} /\ {DI} \cup {TC} = {DI, TC}
      BY <1>2
    <3>2. Longer(t4, t6, {DI} \cup {TC})
      BY <2>2, <2>3, <2>4, <3>1, LongerTwice
    <3> QED
      BY <3>1, <3>2
  <2>6. TrackerOK(t6) /\ LS \in DOMAIN t6.phases
    BY <2>2, <2>5 DEF Longer
  <2>7. /\ TrackerOK(t7) /\ DOMAIN t7.phases = DOMAIN t6.phases
        /\ \A k : Durations(t7, k) =
                    IF k = LS THEN Append(Durations(t6, k), 0) ELSE Durations(t6, k)
    BY <1>0, <2>6, PhaseEnded
  <2> HIDE DEF t7
  <2>8. DOMAIN t7.phases = DOMAIN t3.phases \cup {LS, DI, TC}
    BY <2>2, <2>5, <2>7 DEF Longer
  <2>9. ASSUME NEW k
        PROVE  Len(Durations(t7, k)) =
                 Len(Durations(t3, k)) + IF k \in {LS, DI, TC} THEN 1 ELSE 0
    <3>1. /\ Durations(t6, k) \in Seq(0..MaxTime) /\ Len(Durations(t6, k)) \in Nat
          /\ Len(Durations(t3, k)) \in Nat
      BY <2>1, <2>6, DurationsAre, LenProperties
    <3>2. Len(Durations(t6, k)) = Len(Durations(t3, k)) + IF k \in {DI, TC} THEN 1 ELSE 0
      BY <2>2, <2>5 DEF Longer
    <3>3. CASE k = LS
      <4>1. Durations(t7, k) = Append(Durations(t6, k), 0)
        BY <2>7, <3>3
      <4>2. Len(Append(Durations(t6, k), 0)) = Len(Durations(t6, k)) + 1
        BY <1>0, <3>1, AppendProperties
      <4>3. k \notin {DI, TC}
        BY <1>2, <3>3
      <4> QED
        BY <3>1, <3>2, <3>3, <4>1, <4>2, <4>3
    <3>4. CASE k # LS
      <4>1. Durations(t7, k) = Durations(t6, k)
        BY <2>7, <3>4
      <4> QED
        BY <3>2, <3>4, <4>1
    <3> QED
      BY <3>3, <3>4
  <2> QED
    BY <2>7, <2>8, <2>9 DEF Longer
<1> HIDE DEF t7
<1>7. Longer(t, t7, {CL, RP, IE, LS, DI, TC})
  <2>1. {CL, RP, IE} \cap {LS, DI, TC} = {}
        /\ {CL, RP, IE} \cup {LS, DI, TC} = {CL, RP, IE, LS, DI, TC}
    BY <1>2
  <2>2. Longer(t, t7, {CL, RP, IE} \cup {LS, DI, TC})
    BY <1>5, <1>6, <2>1, LongerTwice
  <2> QED
    BY <2>1, <2>2
<1>8. Longer(t, t8, {CL} \cup FilePhases)
  <2>1. Longer(t7, t8, {MS})
    <3>1. TrackerOK(t7) /\ MS \in Keys /\ <<MS[1]>> \in DOMAIN t7.phases \cup {MS}
      BY <1>1, <1>7 DEF Longer
    <3> QED
      BY <1>0, <3>1, TimedIsLonger
  <2>2. /\ {CL, RP, IE, LS, DI, TC} \cap {MS} = {}
        /\ {CL, RP, IE, LS, DI, TC} \cup {MS} = {CL} \cup FilePhases
    BY <1>1, <1>2
  <2> HIDE DEF t8
  <2>3. Longer(t, t8, {CL, RP, IE, LS, DI, TC} \cup {MS})
    BY <1>7, <2>1, <2>2, LongerTwice
  <2> QED
    BY <2>2, <2>3
<1> QED
  BY <1>8 DEF t1, t2, t3, t7, CL, RP, IE, LS, DI, TC, MS

\* A merge has the phases of both trackers, and their samples one after the other.
LEMMA MergeIs ==
    ASSUME NEW a, TrackerOK(a), NEW run, TrackerOK(run)
    PROVE  /\ TrackerOK(Merge(a, run))
           /\ DOMAIN Merge(a, run).phases = DOMAIN a.phases \cup DOMAIN run.phases
           /\ \A k : Durations(Merge(a, run), k) = Durations(a, k) \o Durations(run, k)
<1> DEFINE u == Merge(a, run)
           D == DOMAIN a.phases \cup DOMAIN run.phases
           p == [k \in D |-> [durations |-> Durations(a, k) \o Durations(run, k), start |-> 0]]
           o == [k \in D |-> 1]
<1>1. u = [phases |-> p, order |-> o]
  <2> DEFINE l == Listed(a, DOMAIN run.phases)
  <2>1. l = [phases |-> a.phases, order |-> o]
    BY ListedIs
  <2>2. u = [l EXCEPT !.phases =
               [k \in DOMAIN @ \cup DOMAIN run.phases |->
                  [durations |-> Durations(a, k) \o Durations(run, k), start |-> 0]]]
    BY DEF Merge
  <2> HIDE DEF l, o, u
  <2> QED
    BY <2>1, <2>2
<1> HIDE DEF u
<1>2. \A k : /\ Durations(a, k) \in Seq(0..MaxTime) /\ Durations(run, k) \in Seq(0..MaxTime)
             /\ Durations(a, k) \o Durations(run, k) \in Seq(0..MaxTime)
  BY DurationsAre, ConcatProperties
<1>3. /\ DOMAIN p = D
      /\ \A k \in D : p[k] = [durations |-> Durations(a, k) \o Durations(run, k), start |-> 0]
      /\ p \in [D -> [durations : Seq(0..MaxTime), start : {0}]]
  BY <1>2
<1> HIDE DEF p, o
<1>4. u.phases = p /\ u.order = o
  BY <1>1
<1>5. ASSUME NEW k
      PROVE  Durations(u, k) = Durations(a, k) \o Durations(run, k)
  <2>1. CASE k \in D
    <3>1. Durations(u, k) = p[k].durations
      BY <1>3, <1>4, <2>1 DEF Durations
    <3>2. p[k] = [durations |-> Durations(a, k) \o Durations(run, k), start |-> 0]
      BY <1>3, <2>1
    <3> QED
      BY <3>1, <3>2
  <2>2. CASE k \notin D
    <3>1. Durations(u, k) = <<>> /\ Durations(a, k) = <<>> /\ Durations(run, k) = <<>>
      BY <1>3, <1>4, <2>2 DEF Durations
    <3> QED
      BY <3>1
  <2> QED
    BY <2>1, <2>2
<1>6. TrackerOK(u)
  <2>1. D \subseteq Keys /\ \A k \in D : <<k[1]>> \in D
    BY DEF TrackerOK
  <2> HIDE DEF D
  <2> QED
    BY <1>1, <1>3, <1>4, <2>1 DEF TrackerOK, o
<1> QED
  BY <1>3, <1>4, <1>5, <1>6 DEF u

-----------------------------------------------------------------------------
(* What main keeps, and the types of it all.                               *)

\* what main keeps: the instructions left are of the Dockerfile's
MainOK ==
    /\ n \in Iterations
    /\ at \in {"start", "parse", "execute", "end"} /\ result \in {"none", "ok", "error"}
    /\ left \in Seq(Range(insts))
    /\ at \in {"start", "parse"} => left = <<>>
    /\ TrackerOK(tracker) /\ TrackerOK(agg)
    /\ at = "parse" => <<"Dockerfile Parse">> \in DOMAIN tracker.phases

\* Some keys, and who their parents are.
LEMMA SomeKeys ==
    /\ {<<"Dockerfile Parse">>, <<"Cache Lookup">>, <<"OCI Export">>} \subseteq Keys
    /\ \A key \in {<<"Dockerfile Parse">>, <<"Cache Lookup">>, <<"OCI Export">>} : <<key[1]>> = key
    /\ 0 \in 0..MaxTime
BY BenchConstants DEF Keys

\* The empty sequence is one of any elements.
LEMMA NoneOfAny == \A S : <<>> \in Seq(S)
OBVIOUS

\* A build starts with a tracker of its own.
LEMMA StartKeepsMain ==
    ASSUME MainOK, StartBuild
    PROVE  MainOK'
<1> DEFINE DP == <<"Dockerfile Parse">>
<1>1. /\ at = "start" /\ at' = "parse" /\ tracker' = StartPhase(NewTracker, DP, 0)
      /\ UNCHANGED <<n, left, agg, result>>
  BY DEF StartBuild
<1>2. left = <<>> /\ left' \in Seq(Range(insts'))
  BY <1>1, NoneOfAny DEF MainOK
<1>3. DP \in Keys /\ <<DP[1]>> = DP
  BY SomeKeys
<1> HIDE DEF DP
<1>4. TrackerOK(tracker') /\ DP \in DOMAIN tracker'.phases
  <2> DEFINE new == NewTracker
  <2>1. TrackerOK(new) /\ DP \in Keys /\ <<DP[1]>> \in DOMAIN new.phases \cup {DP}
    BY <1>3, NewTrackerOK
  <2> HIDE DEF new
  <2>2. TrackerOK(StartPhase(new, DP, 0)) /\ DP \in DOMAIN StartPhase(new, DP, 0).phases
    BY <2>1, PhaseStarted
  <2> QED
    BY <1>1, <2>2 DEF new
<1> QED
  BY <1>1, <1>2, <1>4 DEF MainOK, TrackerOK, DP

\* While the Dockerfile is parsed nothing is left.
LEMMA ParseKeepsMain ==
    ASSUME MainOK, ParseDockerfile
    PROVE  MainOK'
<1>1. at = "parse" /\ UNCHANGED buildVars
  BY DEF ParseDockerfile
<1>2. left = <<>> /\ left' \in Seq(Range(insts'))
  BY <1>1, NoneOfAny DEF MainOK, buildVars
<1> QED
  BY <1>1, <1>2 DEF MainOK, TrackerOK, buildVars

\* The instructions of all stages are left.
LEMMA ParsedKeepsMain ==
    ASSUME MainOK, Grouping, Parsed
    PROVE  MainOK'
<1> DEFINE DP == <<"Dockerfile Parse">>
<1>1. /\ at = "parse" /\ phase = "parsed" /\ at' = "execute"
      /\ tracker' = EndPhase(tracker, DP, 0)
      /\ left' = FlattenSeq(Parts)
      /\ UNCHANGED <<dockerfileVars, n, agg, result>>
  BY DEF Parsed, Parts
<1>2. Parts \in Seq(Seq(Range(insts))) /\ insts' = insts
  BY <1>1 DEF Grouping, GroupedSoFar, dockerfileVars
<1>3. left' \in Seq(Range(insts'))
  <2> QED
    BY <1>1, <1>2, NoneOfAny, FlattenAppend
<1>4. TrackerOK(tracker')
  <2>1. TrackerOK(tracker) /\ DP \in DOMAIN tracker.phases /\ 0 \in 0..MaxTime
    BY <1>1, SomeKeys DEF MainOK
  <2> QED
    BY <1>1, <2>1, PhaseEnded
<1> QED
  BY <1>1, <1>3, <1>4 DEF MainOK, TrackerOK

\* An instruction is executed.
LEMMA ExecuteKeepsMain ==
    ASSUME MainOK, NEW after, TrackerOK(after), Execute(after)
    PROVE  MainOK'
<1>1. /\ at = "execute" /\ left # <<>> /\ tracker' = after /\ left' = Tail(left)
      /\ UNCHANGED <<dockerfileVars, n, at, agg, result>>
  BY DEF Execute
<1>2. left' \in Seq(Range(insts')) /\ insts' = insts
  <2>1. left \in Seq(Range(insts)) /\ insts' = insts
    BY <1>1 DEF MainOK, dockerfileVars
  <2> QED
    BY <1>1, <2>1, HeadTailProperties
<1> QED
  BY <1>1, <1>2 DEF MainOK, TrackerOK

\* What both kinds of instructions do to the tracker.
LEMMA ExecutesAre ==
    ASSUME MainOK, LookupOnly \/ FilesystemInstruction
    PROVE  \E after, keys :
              /\ Execute(after) /\ Longer(tracker, after, keys)
              /\ keys \in {{<<"Cache Lookup">>}, {<<"Cache Lookup">>} \cup FilePhases}
<1>0. TrackerOK(tracker)
  BY DEF MainOK
<1>1. CASE LookupOnly
  <2> DEFINE CL == <<"Cache Lookup">>
  <2>1. Execute(Timed(tracker, CL, 0))
    BY <1>1 DEF LookupOnly, Looked
  <2>2. CL \in Keys /\ <<CL[1]>> \in DOMAIN tracker.phases \cup {CL} /\ 0 \in 0..MaxTime
    BY SomeKeys
  <2> HIDE DEF CL
  <2>3. Longer(tracker, Timed(tracker, CL, 0), {CL})
    BY <1>0, <2>2, TimedIsLonger
  <2> QED
    BY <2>1, <2>3 DEF CL
<1>2. CASE FilesystemInstruction
  <2>1. PICK time \in 0..MaxTime :
          LET executed == Timed(Timed(Looked, <<"RootFS Prepare">>, 0), <<"Instruction Execute">>, time)
              diffed   == Timed(StartPhase(executed, <<"Layer Snapshot">>, 0),
                                <<"Layer Snapshot", "Diff">>, 0)
              written  == EndPhase(Timed(diffed, <<"Layer Snapshot", "Tar+Compress">>, 0),
                                   <<"Layer Snapshot">>, 0)
          IN  Execute(Timed(written, <<"Metadata Store">>, 0))
    BY <1>2 DEF FilesystemInstruction
  <2> DEFINE executed == Timed(Timed(Looked, <<"RootFS Prepare">>, 0), <<"Instruction Execute">>, time)
             diffed   == Timed(StartPhase(executed, <<"Layer Snapshot">>, 0),
                               <<"Layer Snapshot", "Diff">>, 0)
             written  == EndPhase(Timed(diffed, <<"Layer Snapshot", "Tar+Compress">>, 0),
                                  <<"Layer Snapshot">>, 0)
             after    == Timed(written, <<"Metadata Store">>, 0)
  <2>2. Longer(tracker, after, {<<"Cache Lookup">>} \cup FilePhases)
    BY <1>0, FilePhasesTimed DEF Looked
  <2>3. Execute(after)
    BY <2>1
  <2> HIDE DEF after
  <2> QED
    BY <2>2, <2>3
<1> QED
  BY <1>1, <1>2

\* The export of an image.
LEMMA ExportIs ==
    ASSUME MainOK, Export
    PROVE  /\ Longer(tracker, tracker', {<<"OCI Export">>})
           /\ agg' = IF n = 0 THEN agg ELSE Merge(agg, tracker')
           /\ builds' = Append(builds, tracker') /\ at = "execute" /\ left = <<>>
           /\ \/ Len(builds') < n /\ at' = "start" /\ result' = result
              \/ ~(Len(builds') < n) /\ at' = "end" /\ result' = "ok"
           /\ UNCHANGED <<dockerfileVars, n, left>>
<1> DEFINE OE == <<"OCI Export">>
           ended == Timed(tracker, OE, 0)
<1>1. /\ tracker' = ended /\ agg' = IF n = 0 THEN agg ELSE Merge(agg, ended)
      /\ builds' = Append(builds, ended) /\ at = "execute" /\ left = <<>>
      /\ IF Len(builds') < n THEN at' = "start" /\ UNCHANGED result
                             ELSE at' = "end" /\ result' = "ok"
      /\ UNCHANGED <<dockerfileVars, n, left>>
  BY DEF Export
<1>2. TrackerOK(tracker) /\ OE \in Keys /\ <<OE[1]>> \in DOMAIN tracker.phases \cup {OE}
      /\ 0 \in 0..MaxTime
  BY SomeKeys DEF MainOK
<1> HIDE DEF OE
<1>3. Longer(tracker, ended, {OE})
  BY <1>2, TimedIsLonger
<1> HIDE DEF ended
<1> QED
  BY <1>1, <1>3 DEF OE

\* Every step.
LEMMA StepKeepsMain ==
    ASSUME MainOK, Grouping, [Next]_allVars
    PROVE  MainOK'
<1>1. CASE Fail
  BY <1>1 DEF Fail, MainOK, TrackerOK, dockerfileVars
<1>2. CASE LookupOnly \/ FilesystemInstruction
  BY <1>2, ExecutesAre, ExecuteKeepsMain DEF Longer
<1>3. CASE Export
  <2>1. /\ Longer(tracker, tracker', {<<"OCI Export">>}) /\ at = "execute" /\ left = <<>>
        /\ agg' = IF n = 0 THEN agg ELSE Merge(agg, tracker')
        /\ UNCHANGED <<dockerfileVars, n, left>>
    BY <1>3, ExportIs
  <2>2. TrackerOK(tracker')
    BY <2>1 DEF Longer
  <2>3. TrackerOK(agg')
    <3>1. CASE n = 0
      BY <2>1, <3>1 DEF MainOK
    <3>2. CASE n # 0
      <4>1. TrackerOK(agg) /\ TrackerOK(tracker') /\ agg' = Merge(agg, tracker')
        BY <2>1, <2>2, <3>2 DEF MainOK
      <4> QED
        BY <4>1, MergeIs
    <3> QED
      BY <3>1, <3>2
  <2>4. at' \in {"start", "end"} /\ result' \in {"none", "ok", "error"}
    BY <1>3, ExportIs DEF MainOK
  <2>5. left' = <<>> /\ left' \in Seq(Range(insts')) /\ n' = n
    BY <2>1, NoneOfAny
  <2> QED
    BY <2>2, <2>3, <2>4, <2>5 DEF MainOK, TrackerOK
<1>4. CASE UNCHANGED vars
  BY <1>4 DEF MainOK, TrackerOK, vars, buildVars, dockerfileVars
<1> QED
  BY <1>1, <1>2, <1>3, <1>4, StartKeepsMain, ParseKeepsMain, ParsedKeepsMain
  DEF Next, Main, allVars

\* Main starts.
LEMMA StartsMain ==
    ASSUME FrontendInit
    PROVE  MainOK
<1>1. CASE Init
  BY <1>1, NewTrackerOK, NoneOfAny DEF Init, MainOK
<1>2. CASE NoBuild
  BY <1>2, NewTrackerOK, NoneOfAny, BenchConstants DEF NoBuild, MainOK
<1> QED
  BY <1>1, <1>2 DEF FrontendInit

\* The invariants of the parts are the type invariant.
LEMMA PartsAreTyped ==
    ASSUME LexOK, ParseOK, MainOK
    PROVE  TypeOK
<1>1. DockerfileTypeOK
  <2>1. line \in 1..(Len(text) + 1)
    <3>1. Len(text) \in Nat
      BY LenProperties DEF LexOK
    <3> QED
      BY <3>1 DEF LexOK
  <2> QED
    BY <2>1 DEF DockerfileTypeOK, LexOK, ParseOK, InstOK
<1>2. Range(left) \subseteq Range(insts)
  <2>1. left \in Seq(Range(insts))
    BY DEF MainOK
  <2>2. \A i \in DOMAIN left : left[i] \in Range(insts)
    BY <2>1
  <2> QED
    BY <2>2 DEF Range
<1>3. ASSUME NEW t \in {tracker, agg}, NEW key \in DOMAIN t.phases
      PROVE  /\ t.phases[key].durations \in Seq(0..MaxTime)
             /\ <<key[1]>> \in DOMAIN t.phases
  <2>1. TrackerOK(t)
    BY DEF MainOK
  <2> QED
    BY <2>1 DEF TrackerOK
<1> QED
  BY <1>1, <1>2, <1>3 DEF TypeOK, MainOK

\* Every variable of main and its builds has its type: what the lexer reads are
\* tokens of the lines it has read, what the parser makes of them instructions
\* with arguments, and every sample of a phase a time an instruction may take.
\* (Tokenize, parseInstruction, postProcess, buildDockerfile, the tracker.)
THEOREM FrontendTyped == FrontendSpec => []TypeOK
<1> DEFINE IInv == LexOK /\ ParseOK /\ Grouping /\ MainOK
<1>1. FrontendInit => IInv
  BY StartsOK, StartsMain, NothingGrouped
<1>2. IInv /\ [Next]_allVars => IInv'
  BY StepKeepsOK, StepKeepsGrouping, StepKeepsMain
<1>3. IInv => TypeOK
  BY PartsAreTyped
<1> QED
  BY <1>1, <1>2, <1>3, PTL DEF FrontendSpec

-----------------------------------------------------------------------------
(* Statistics.                                                             *)

\* how many of the items at some positions are not larger than v
UpTo(d, s, v) == Cardinality({i \in s : d[i] <= v})

\* an item put behind those that are not larger
Inserted(s, x) == InsertAt(s, 1 + Cardinality({i \in DOMAIN s : s[i] <= x}), x)

\* what Sorted computes, by the positions it has been through
Sorting(f, d) ==
    f = [s \in SUBSET DOMAIN d |->
            IF s = {} THEN <<>> ELSE Inserted(f[s \ {Max(s)}], d[Max(s)])]

\* these items are those at some positions, in ascending order
SortedAre(items, d, s) ==
    /\ items \in Seq(Nat) /\ Len(items) = Cardinality(s)
    /\ \A v \in Nat, k \in 1..Len(items) : items[k] <= v <=> k <= UpTo(d, s, v)

\* Items up to a number are counted, and more up to a larger one.
LEMMA UpToGrows ==
    ASSUME NEW len \in Nat, NEW d, DOMAIN d = 1..len, \A i \in 1..len : d[i] \in Nat,
           NEW s \in SUBSET (1..len), NEW v \in Nat
    PROVE  /\ UpTo(d, s, v) \in Nat
           /\ UpTo(d, s, v) <= Cardinality(s) /\ Cardinality(s) \in Nat /\ IsFiniteSet(s)
           /\ \A w \in Nat : v <= w => UpTo(d, s, v) <= UpTo(d, s, w)
<1>1. IsFiniteSet(1..len)
  BY FS_Interval
<1>2. IsFiniteSet(s) /\ Cardinality(s) \in Nat
  BY <1>1, FS_Subset, FS_CardinalityType
<1>3. ASSUME NEW w \in Nat
      PROVE  LET at_ == {i \in s : d[i] <= w} IN
             at_ \in SUBSET s /\ IsFiniteSet(at_) /\ Cardinality(at_) \in Nat
             /\ Cardinality(at_) <= Cardinality(s)
  <2> DEFINE T == {i \in s : d[i] <= w}
  <2>1. T \in SUBSET s
    OBVIOUS
  <2> HIDE DEF T
  <2>2. IsFiniteSet(T) /\ Cardinality(T) <= Cardinality(s) /\ Cardinality(T) \in Nat
    BY <1>2, <2>1, FS_Subset, FS_CardinalityType
  <2> QED
    BY <2>1, <2>2 DEF T
<1>4. ASSUME NEW w \in Nat, v <= w
      PROVE  UpTo(d, s, v) <= UpTo(d, s, w)
  <2> DEFINE T == {i \in s : d[i] <= v}
             W == {i \in s : d[i] <= w}
  <2>1. T \in SUBSET W
    <3>1. ASSUME NEW i \in s, d[i] <= v
          PROVE  d[i] <= w
      <4>1. d[i] \in Nat
        OBVIOUS
      <4> QED
        BY <1>4, <3>1, <4>1
    <3> QED
      BY <3>1
  <2>2. IsFiniteSet(W)
    BY <1>3
  <2> HIDE DEF T, W
  <2>3. Cardinality(T) <= Cardinality(W)
    BY <2>1, <2>2, FS_Subset
  <2> QED
    BY <2>3 DEF T, W, UpTo
<1> QED
  BY <1>2, <1>3, <1>4 DEF UpTo

\* the item at m, one of the positions, counts for the numbers from it on
OneMore(d, s, m) ==
    /\ Cardinality(s) = Cardinality(s \ {m}) + 1
    /\ \A v \in Nat : UpTo(d, s, v) =
          IF d[m] <= v THEN UpTo(d, s \ {m}, v) + 1 ELSE UpTo(d, s \ {m}, v)

\* An item more is counted when it is not larger.
LEMMA UpToOneMore ==
    ASSUME NEW len \in Nat, NEW d, DOMAIN d = 1..len, \A i \in 1..len : d[i] \in Nat,
           NEW s \in SUBSET (1..len), NEW m \in s
    PROVE  OneMore(d, s, m)
<1> SUFFICES ASSUME NEW v \in Nat
             PROVE  /\ Cardinality(s) = Cardinality(s \ {m}) + 1
                    /\ UpTo(d, s, v) =
                          IF d[m] <= v THEN UpTo(d, s \ {m}, v) + 1 ELSE UpTo(d, s \ {m}, v)
  <2>1. 0 \in Nat
    OBVIOUS
  <2> QED
    BY <2>1 DEF OneMore
<1> DEFINE r == s \ {m}
           T == {i \in r : d[i] <= v}
<1>1. r \in SUBSET (1..len) /\ T \in SUBSET r
  OBVIOUS
<1>0. IsFiniteSet(1..len)
  BY FS_Interval
<1>2. IsFiniteSet(r) /\ IsFiniteSet(T) /\ Cardinality(r) \in Nat /\ Cardinality(T) \in Nat
  <2> HIDE DEF r, T
  <2> QED
    BY <1>0, <1>1, FS_Subset, FS_CardinalityType
<1>3. Cardinality(s) = Cardinality(r) + 1
  <2>1. s = r \cup {m} /\ m \notin r
    OBVIOUS
  <2> HIDE DEF r
  <2> QED
    BY <1>2, <2>1, FS_AddElement
<1>4. CASE d[m] <= v
  <2>1. {i \in s : d[i] <= v} = T \cup {m} /\ m \notin T
    BY <1>4
  <2> HIDE DEF T
  <2>2. Cardinality(T \cup {m}) = Cardinality(T) + 1
    BY <1>2, <2>1, FS_AddElement
  <2> QED
    BY <1>3, <1>4, <2>1, <2>2 DEF UpTo, T
<1>5. CASE ~(d[m] <= v)
  <2>1. {i \in s : d[i] <= v} = T
    BY <1>5
  <2> QED
    BY <1>3, <1>5, <2>1 DEF UpTo
<1> QED
  BY <1>4, <1>5

\* Inserting the item at one more position keeps the others in order.
LEMMA InsertedIs ==
    ASSUME NEW len \in Nat, NEW d, DOMAIN d = 1..len, \A i \in 1..len : d[i] \in Nat,
           NEW s \in SUBSET (1..len), NEW m \in s, NEW items, SortedAre(items, d, s \ {m})
    PROVE  SortedAre(Inserted(items, d[m]), d, s)
<1> DEFINE r == s \ {m}
           x == d[m]
           c == UpTo(d, r, x)
           l == Len(items)
           new == Inserted(items, x)
<1>0. /\ Cardinality(s) = Cardinality(s \ {m}) + 1
      /\ \A v \in Nat : UpTo(d, s, v) =
            IF d[m] <= v THEN UpTo(d, s \ {m}, v) + 1 ELSE UpTo(d, s \ {m}, v)
  <2>1. OneMore(d, s, m)
    BY UpToOneMore
  <2> QED
    BY <2>1 DEF OneMore
<1>1. r \in SUBSET (1..len) /\ x \in Nat
  OBVIOUS
<1>2. /\ items \in Seq(Nat) /\ l \in Nat /\ l = Cardinality(r) /\ DOMAIN items = 1..l
      /\ \A v \in Nat, k \in 1..l : items[k] <= v <=> k <= UpTo(d, r, v)
  BY LenProperties DEF SortedAre
<1> HIDE DEF x, r
<1> HIDE DEF l
<1>3. /\ c \in Nat /\ c <= l /\ l \in Nat
      /\ \A v \in Nat : /\ UpTo(d, r, v) \in Nat /\ UpTo(d, r, v) <= l
                        /\ x <= v => c <= UpTo(d, r, v)
                        /\ v <= x => UpTo(d, r, v) <= c
  <2>1. ASSUME NEW v \in Nat
        PROVE  /\ UpTo(d, r, v) \in Nat /\ UpTo(d, r, v) <= Cardinality(r)
               /\ \A w \in Nat : v <= w => UpTo(d, r, v) <= UpTo(d, r, w)
    BY <1>1, UpToGrows
  <2> QED
    BY <1>1, <1>2, <2>1
<1>4. Cardinality({i \in DOMAIN items : items[i] <= x}) = c
  <2>1. {i \in DOMAIN items : items[i] <= x} = 1..c
    <3>1. \A i \in 1..l : items[i] <= x <=> i <= c
      BY <1>1, <1>2
    <3>2. c \in Nat /\ c <= l /\ l \in Nat /\ DOMAIN items = 1..l
      BY <1>2, <1>3
    <3> HIDE DEF c
    <3> QED
      BY <3>1, <3>2
  <2> HIDE DEF c
  <2>2. Cardinality(1..c) = c
    BY <1>3, FS_Interval
  <2> QED
    BY <2>1, <2>2
<1>5. new = (SubSeq(items, 1, c) \o <<x>>) \o SubSeq(items, c + 1, l)
  <2>1. new = SubSeq(items, 1, (1 + c) - 1) \o <<x>> \o SubSeq(items, 1 + c, Len(items))
    BY <1>4 DEF Inserted, InsertAt
  <2>2. c \in Nat /\ l = Len(items)
    BY <1>3 DEF l
  <2> HIDE DEF new, c
  <2>3. (1 + c) - 1 = c /\ 1 + c = c + 1
    BY <2>2
  <2> QED
    BY <2>1, <2>2, <2>3
<1> HIDE DEF c, new
<1>6. /\ SubSeq(items, 1, c) \in Seq(Nat) /\ Len(SubSeq(items, 1, c)) = c
      /\ \A k \in 1..c : SubSeq(items, 1, c)[k] = items[k]
  <2>1. CASE c = 0
    BY <1>2, <2>1, SubSeqEmpty
  <2>2. CASE c # 0
    <3>1. /\ 1 \in 1..Len(items) /\ c \in 1..Len(items) /\ c - 1 + 1 = c
          /\ \A k \in 1..c : 1 + k - 1 = k
      BY <1>3, <2>2 DEF l
    <3>2. items \in Seq(Nat)
      BY <1>2
    <3> QED
      BY <3>1, <3>2, SubSeqProperties
  <2> QED
    BY <2>1, <2>2
<1>7. /\ SubSeq(items, c + 1, l) \in Seq(Nat) /\ Len(SubSeq(items, c + 1, l)) = l - c
      /\ \A k \in 1..(l - c) : SubSeq(items, c + 1, l)[k] = items[c + k]
  <2>1. CASE c = l
    <3>1. SubSeq(items, c + 1, l) = <<>>
      BY <1>2, <1>3, <2>1, SubSeqEmpty
    <3> QED
      BY <1>2, <2>1, <3>1, NoneOfAny
  <2>2. CASE c # l
    <3>1. /\ c + 1 \in 1..Len(items) /\ l \in (c + 1)..Len(items) /\ l - (c + 1) + 1 = l - c
      BY <1>3, <2>2 DEF l
    <3>2. items \in Seq(Nat) /\ c \in Nat
      BY <1>2, <1>3
    <3>3. /\ SubSeq(items, c + 1, l) \in Seq(Nat) /\ Len(SubSeq(items, c + 1, l)) = l - (c + 1) + 1
          /\ \A k \in 1..(l - (c + 1) + 1) : SubSeq(items, c + 1, l)[k] = items[(c + 1) + k - 1]
      <4> DEFINE a == c + 1
      <4>1. items \in Seq(Nat) /\ a \in 1..Len(items) /\ l \in a..Len(items)
        BY <3>1, <3>2
      <4> HIDE DEF a, l
      <4>2. /\ SubSeq(items, a, l) \in Seq(Nat) /\ Len(SubSeq(items, a, l)) = l - a + 1
            /\ \A k \in 1..(l - a + 1) : SubSeq(items, a, l)[k] = items[a + k - 1]
        <5>1. /\ a \in Int /\ l \in Int /\ a <= l
              /\ \A i \in a..l : items[i] \in Nat
          BY <4>1
        <5>2. /\ SubSeq(items, a, l) \in Seq(Nat)
              /\ Len(SubSeq(items, a, l)) = IF a <= l THEN l - a + 1 ELSE 0
              /\ \A k \in 1..(l - a + 1) : SubSeq(items, a, l)[k] = items[a + k - 1]
          BY ONLY <5>1, SubSeqProperties
        <5> QED
          BY <5>1, <5>2
      <4> QED
        BY <4>2 DEF a
    <3>4. \A k \in 1..(l - c) : (c + 1) + k - 1 = c + k
      BY <3>2, <1>3
    <3> QED
      BY <3>1, <3>3, <3>4
  <2> QED
    BY <2>1, <2>2
<1>8. /\ new \in Seq(Nat) /\ Len(new) = l + 1
      /\ \A k \in 1..c : new[k] = items[k]
      /\ new[c + 1] = x
      /\ \A k \in (c + 2)..(l + 1) : new[k] = items[k - 1]
  <2> DEFINE front == SubSeq(items, 1, c)
             back  == SubSeq(items, c + 1, l)
             ones  == <<x>>
             half  == front \o ones
  <2>0. c \in Nat /\ l \in Nat /\ c <= l
    BY <1>3
  <2>1. ones \in Seq(Nat) /\ Len(ones) = 1 /\ ones[1] = x
    BY <1>1
  <2>2. /\ front \in Seq(Nat) /\ Len(front) = c /\ \A k \in 1..c : front[k] = items[k]
        /\ back \in Seq(Nat) /\ Len(back) = l - c /\ \A k \in 1..(l - c) : back[k] = items[c + k]
        /\ new = half \o back
    BY <1>5, <1>6, <1>7
  <2> HIDE DEF front, back, ones, new
  <2>3. /\ half \in Seq(Nat) /\ Len(half) = c + 1
        /\ \A k \in 1..(c + 1) : half[k] = IF k <= c THEN front[k] ELSE ones[k - c]
    <3>1. /\ half \in Seq(Nat) /\ Len(half) = Len(front) + Len(ones)
          /\ \A k \in 1..(Len(front) + Len(ones)) :
                half[k] = IF k <= Len(front) THEN front[k] ELSE ones[k - Len(front)]
      <4>1. front \in Seq(Nat) /\ ones \in Seq(Nat)
        BY <2>1, <2>2
      <4> QED
        BY <4>1, ConcatProperties
    <3> HIDE DEF half
    <3> QED
      BY <2>1, <2>2, <3>1
  <2> HIDE DEF half
  <2>4. /\ half \o back \in Seq(Nat) /\ Len(half \o back) = l + 1
        /\ \A k \in 1..(l + 1) : (half \o back)[k] =
              IF k <= c + 1 THEN half[k] ELSE back[k - (c + 1)]
    <3> DEFINE whole == half \o back
    <3>1. /\ whole \in Seq(Nat) /\ Len(whole) = Len(half) + Len(back)
          /\ \A k \in 1..(Len(half) + Len(back)) :
                whole[k] = IF k <= Len(half) THEN half[k] ELSE back[k - Len(half)]
      <4>1. half \in Seq(Nat) /\ back \in Seq(Nat)
        BY <2>2, <2>3
      <4> QED
        BY <4>1, ConcatProperties
    <3>2. (c + 1) + (l - c) = l + 1
      BY <2>0
    <3> HIDE DEF whole
    <3>3. /\ whole \in Seq(Nat) /\ Len(whole) = l + 1
          /\ \A k \in 1..(l + 1) : whole[k] = IF k <= c + 1 THEN half[k] ELSE back[k - (c + 1)]
      BY <2>2, <2>3, <3>1, <3>2
    <3> QED
      BY <3>3 DEF whole
  <2>5. \A k \in 1..c : new[k] = items[k]
    <3>1. \A k \in 1..c : k \in 1..(l + 1) /\ k \in 1..(c + 1) /\ k <= c + 1 /\ k <= c
      BY <2>0
    <3> QED
      BY <2>2, <2>3, <2>4, <3>1
  <2>6. new[c + 1] = x
    <3>1. c + 1 \in 1..(l + 1) /\ c + 1 \in 1..(c + 1) /\ ~(c + 1 <= c) /\ (c + 1) - c = 1
      BY <2>0
    <3> QED
      BY <2>1, <2>2, <2>3, <2>4, <3>1
  <2>7. ASSUME NEW k \in (c + 2)..(l + 1)
        PROVE  new[k] = items[k - 1]
    <3>1. /\ k \in 1..(l + 1) /\ ~(k <= c + 1) /\ k - (c + 1) \in 1..(l - c)
          /\ c + (k - (c + 1)) = k - 1
      BY <2>0
    <3>2. new[k] = back[k - (c + 1)]
      BY <2>2, <2>4, <3>1
    <3>3. back[k - (c + 1)] = items[c + (k - (c + 1))]
      BY <2>2, <3>1
    <3> QED
      BY <3>1, <3>2, <3>3
  <2> QED
    BY <2>2, <2>4, <2>5, <2>6, <2>7
<1>9. Cardinality(s) = l + 1
  BY <1>2, <1>0 DEF r
<1>10. ASSUME NEW v \in Nat, NEW k \in 1..(l + 1)
       PROVE  new[k] <= v <=> k <= UpTo(d, s, v)
  <2>00. UpTo(d, s, v) = IF d[m] <= v THEN UpTo(d, s \ {m}, v) + 1 ELSE UpTo(d, s \ {m}, v)
    BY <1>0
  <2> DEFINE u == UpTo(d, r, v)
             y == UpTo(d, s, v)
  <2>1. y = IF x <= v THEN u + 1 ELSE u
    BY <2>00 DEF r, x
  <2>2. u \in Nat /\ u <= l /\ (x <= v => c <= u) /\ (v <= x => u <= c)
    BY <1>3
  <2>3. \A j \in 1..l : items[j] <= v <=> j <= u
    BY <1>2
  <2>4. \A j \in 1..l : items[j] <= x <=> j <= c
    BY <1>1, <1>2 DEF c
  <2>5. \A j \in 1..l : items[j] \in Nat
    BY <1>2
  <2>0. c \in Nat /\ l \in Nat /\ c <= l /\ x \in Nat /\ k \in Nat /\ 1 <= k /\ k <= l + 1
    BY <1>1, <1>3
  <2> HIDE DEF u, y
  <2>6. CASE k <= c
    <3>1. k \in 1..c /\ k \in 1..l
      BY <2>0, <2>6
    <3>2. new[k] = items[k] /\ items[k] \in Nat /\ (items[k] <= v <=> k <= u)
      BY <1>8, <2>3, <2>5, <3>1
    <3>3. k <= u <=> k <= y
      BY <2>0, <2>1, <2>2, <2>6
    <3> QED
      BY <3>2, <3>3 DEF y
  <2>7. CASE k = c + 1
    <3>1. new[k] = x
      BY <1>8, <2>7
    <3>2. x <= v <=> k <= y
      BY <2>0, <2>1, <2>2, <2>7
    <3> QED
      BY <3>1, <3>2 DEF y
  <2>8. CASE k > c + 1
    <3> DEFINE j == k - 1
    <3>1. k \in (c + 2)..(l + 1) /\ j \in 1..l /\ ~(j <= c) /\ k = j + 1
      BY <2>0, <2>8
    <3> HIDE DEF j
    <3>2. new[k] = items[j] /\ items[j] \in Nat /\ (items[j] <= v <=> j <= u) /\ ~(items[j] <= x)
      BY <1>8, <2>3, <2>4, <2>5, <3>1 DEF j
    <3>3. j \in Nat /\ u \in Nat /\ c \in Nat /\ x \in Nat
      BY <2>0, <2>2, <3>1
    <3>4. items[j] <= v <=> k <= y
      <4> DEFINE z == items[j]
      <4>1. z \in Nat /\ (z <= v <=> j <= u) /\ ~(z <= x)
        BY <3>2
      <4> HIDE DEF z
      <4>2. ASSUME x <= v PROVE z <= v <=> k <= y
        BY <2>1, <3>1, <3>3, <4>1, <4>2
      <4>3. ASSUME ~(x <= v) PROVE z <= v <=> k <= y
        <5>1. ~(z <= v) /\ y = u /\ u <= c
          BY <2>1, <2>2, <3>3, <4>1, <4>3
        <5> QED
          BY <3>1, <3>3, <4>1, <5>1
      <4> QED
        BY <4>1, <4>2, <4>3 DEF z
    <3> QED
      BY <3>2, <3>4 DEF y
  <2> QED
    BY <2>0, <2>6, <2>7, <2>8
<1> QED
  BY <1>8, <1>9, <1>10 DEF SortedAre, new, x

\* Sorted has all items, in ascending order.
LEMMA SortedIs ==
    ASSUME NEW d \in Seq(Nat)
    PROVE  SortedAre(Sorted(d), d, DOMAIN d)
<1> DEFINE len == Len(d)
           D   == DOMAIN d
           G   == [p \in D \X Seq(Nat) |-> Inserted(p[2], d[p[1]])]
           F   == CHOOSE f : Sorting(f, d)
<1>1. len \in Nat /\ D = 1..len /\ \A i \in 1..len : d[i] \in Nat
  BY LenProperties
<1>2. \A i \in D, y \in Seq(Nat) : G[<<i, y>>] = Inserted(y, d[i]) /\ G[<<i, y>>] \in Seq(Nat)
  <2>1. ASSUME NEW i \in D, NEW y \in Seq(Nat)
        PROVE  Inserted(y, d[i]) \in Seq(Nat)
    <3> DEFINE c == Cardinality({k \in DOMAIN y : y[k] <= d[i]})
               T == {k \in 1..Len(y) : y[k] <= d[i]}
    <3>1. c \in 0..Len(y) /\ Len(y) \in Nat
      <4>1. Len(y) \in Nat /\ DOMAIN y = 1..Len(y) /\ 1 \in Nat /\ Len(y) + 1 \in Nat
        BY LenProperties
      <4>2. T \subseteq 1..((Len(y) + 1) - 1) /\ 1 <= Len(y) + 1 /\ (Len(y) + 1) - 1 = Len(y)
        BY <4>1
      <4> HIDE DEF T
      <4>3. Cardinality(T) \in 0..Len(y)
        BY <4>1, <4>2, CountUpTo
      <4> QED
        BY <4>1, <4>3 DEF T
    <3> HIDE DEF c
    <3>2. \A a \in 1..(Len(y) + 1), b \in 0..Len(y) : SubSeq(y, a, b) \in Seq(Nat)
      <4>1. ASSUME NEW a \in 1..(Len(y) + 1), NEW b \in 0..Len(y)
            PROVE  SubSeq(y, a, b) \in Seq(Nat)
        <5>1. CASE a <= b
          <6>1. a \in 1..Len(y) /\ b \in a..Len(y)
            BY <3>1, <5>1
          <6> QED
            BY <6>1, SubSeqProperties
        <5>2. CASE ~(a <= b)
          <6>1. SubSeq(y, a, b) = <<>>
            BY <3>1, <5>2, SubSeqEmpty
          <6> QED
            BY <6>1, NoneOfAny
        <5> QED
          BY <5>1, <5>2
      <4> QED
        BY <4>1
    <3>3. SubSeq(y, 1, (1 + c) - 1) \in Seq(Nat) /\ SubSeq(y, 1 + c, Len(y)) \in Seq(Nat)
          /\ <<d[i]>> \in Seq(Nat)
      <4>1. (1 + c) - 1 \in 0..Len(y) /\ 1 + c \in 1..(Len(y) + 1) /\ Len(y) \in 0..Len(y)
            /\ 1 \in 1..(Len(y) + 1)
        BY <3>1
      <4>2. d[i] \in Nat
        BY <1>1
      <4> QED
        BY <3>2, <4>1, <4>2
    <3> QED
      BY <3>3, ConcatProperties DEF Inserted, InsertAt, c
  <2> QED
    BY <2>1
<1>3. HasFold(D, Seq(Nat), <<>>, G)
  <2>1. \A i \in D, y \in Seq(Nat) : G[<<i, y>>] \in Seq(Nat)
    BY <1>2
  <2> HIDE DEF G
  <2>2. D \subseteq 1..len /\ <<>> \in Seq(Nat)
    BY <1>1, NoneOfAny
  <2> HIDE DEF D
  <2> QED
    BY <1>1, <2>1, <2>2, FoldExists
<1>4. PICK h \in [SUBSET D -> Seq(Nat)] :
         \A s \in SUBSET D : h[s] = IF s = {} THEN <<>> ELSE G[<<Max(s), h[s \ {Max(s)}]>>]
  BY <1>3 DEF HasFold
<1>5. \A s \in SUBSET D : s # {} => Max(s) \in s /\ Max(s) \in D /\ s \ {Max(s)} \in SUBSET D
  BY <1>1, EndsExist
<1>6. Sorting(h, d)
  <2>1. \A s \in SUBSET D : h[s] = IF s = {} THEN <<>> ELSE Inserted(h[s \ {Max(s)}], d[Max(s)])
    <3> HIDE DEF G, D
    <3> QED
      BY <1>2, <1>4, <1>5
  <2>2. h = [s \in SUBSET D |-> h[s]]
    BY <1>4
  <2> HIDE DEF G
  <2> QED
    BY <2>1, <2>2 DEF Sorting
<1>7. Sorting(F, d)
  <2> HIDE DEF G
  <2> QED
    BY <1>6
<1>8. Sorted(d) = F[D]
  BY DEF Sorted, FoldLeft, MapThenFoldSet, Sorting, Inserted
<1> HIDE DEF F, G
<1> DEFINE P == {s \in SUBSET D : SortedAre(F[s], d, s)}
<1>9. {} \in P
  <2>1. F[{}] = <<>>
    <3>1. {} \in SUBSET D
      OBVIOUS
    <3> QED
      BY <1>7, <3>1 DEF Sorting
  <2>2. SortedAre(<<>>, d, {})
    <3>1. Len(<<>>) = 0 /\ <<>> \in Seq(Nat) /\ Cardinality({}) = 0 /\ 1..0 = {}
      BY NoneOfAny, FS_EmptySet
    <3> QED
      BY <3>1 DEF SortedAre
  <2> QED
    BY <2>1, <2>2
<1>10. ASSUME NEW s \in SUBSET D, s # {}, s \ {Max(s)} \in P
       PROVE  s \in P
  <2> DEFINE m == Max(s)
  <2>1. m \in s /\ SortedAre(F[s \ {m}], d, s \ {m})
    BY <1>5, <1>10
  <2>2. F[s] = Inserted(F[s \ {m}], d[m])
    BY <1>7, <1>10 DEF Sorting
  <2> HIDE DEF m
  <2>3. s \in SUBSET (1..len)
    BY <1>1
  <2>4. SortedAre(Inserted(F[s \ {m}], d[m]), d, s)
    BY <1>1, <2>1, <2>3, InsertedIs
  <2> QED
    BY <2>2, <2>4
<1>11. \A s \in SUBSET D : s \in P
  <2>1. D \subseteq 1..len
    BY <1>1
  <2> HIDE DEF P, D
  <2> QED
    BY <1>1, <1>9, <1>10, <2>1, MaxInduction
<1> QED
  BY <1>8, <1>11

\* what the sum computes, by the positions it has been through
Summing(f, d) ==
    f = [s \in SUBSET DOMAIN d |-> IF s = {} THEN 0 ELSE f[s \ {Max(s)}] + d[Max(s)]]

\* a number once more
LEMMA OnceMore == \A c, a \in Nat : (c + 1) * a = c * a + a /\ c * a \in Nat
OBVIOUS

\* A sum of items from a to b is one of so many a at least, of so many b at most.
LEMMA SumIs ==
    ASSUME NEW d \in Seq(Nat), NEW a \in Nat, NEW b \in Nat,
           \A i \in DOMAIN d : a <= d[i] /\ d[i] <= b
    PROVE  /\ FoldLeft(+, 0, d) \in Nat
           /\ Len(d) * a <= FoldLeft(+, 0, d) /\ FoldLeft(+, 0, d) <= Len(d) * b
<1> DEFINE len == Len(d)
           D   == DOMAIN d
           G   == [p \in D \X Nat |-> p[2] + d[p[1]]]
           F   == CHOOSE f : Summing(f, d)
<1>1. len \in Nat /\ D = 1..len /\ \A i \in D : d[i] \in Nat
  BY LenProperties
<1>2. \A i \in D, y \in Nat : G[<<i, y>>] = y + d[i] /\ G[<<i, y>>] \in Nat
  BY <1>1
<1>3. HasFold(D, Nat, 0, G)
  <2>1. \A i \in D, y \in Nat : G[<<i, y>>] \in Nat
    BY <1>2
  <2> HIDE DEF G
  <2>2. D \subseteq 1..len /\ 0 \in Nat
    BY <1>1
  <2> HIDE DEF D
  <2> QED
    BY <1>1, <2>1, <2>2, FoldExists
<1>4. PICK h \in [SUBSET D -> Nat] :
         \A s \in SUBSET D : h[s] = IF s = {} THEN 0 ELSE G[<<Max(s), h[s \ {Max(s)}]>>]
  BY <1>3 DEF HasFold
<1>5. \A s \in SUBSET D : s # {} => Max(s) \in s /\ Max(s) \in D /\ s \ {Max(s)} \in SUBSET D
  BY <1>1, EndsExist
<1>6. Summing(h, d)
  <2>1. \A s \in SUBSET D : h[s] = IF s = {} THEN 0 ELSE h[s \ {Max(s)}] + d[Max(s)]
    <3> HIDE DEF G, D
    <3> QED
      BY <1>2, <1>4, <1>5
  <2>2. h = [s \in SUBSET D |-> h[s]]
    BY <1>4
  <2> HIDE DEF G
  <2> QED
    BY <2>1, <2>2 DEF Summing
<1>7. Summing(F, d)
  <2> HIDE DEF G
  <2> QED
    BY <1>6
<1>8. FoldLeft(+, 0, d) = F[D]
  BY DEF FoldLeft, MapThenFoldSet, Summing
<1> HIDE DEF F, G
<1> DEFINE c(s) == Cardinality(s)
           P == {s \in SUBSET D : F[s] \in Nat /\ c(s) * a <= F[s] /\ F[s] <= c(s) * b}
<1>9. {} \in P
  <2>1. F[{}] = 0
    <3>1. {} \in SUBSET D
      OBVIOUS
    <3> QED
      BY <1>7, <3>1 DEF Summing
  <2>2. c({}) = 0 /\ 0 * a = 0 /\ 0 * b = 0
    BY FS_EmptySet
  <2> QED
    BY <2>1, <2>2
<1>10. ASSUME NEW s \in SUBSET D, s # {}, s \ {Max(s)} \in P
       PROVE  s \in P
  <2> DEFINE m == Max(s)
             r == s \ {m}
             k == c(r)
  <2>1. m \in s /\ m \in D /\ F[r] \in Nat /\ k * a <= F[r] /\ F[r] <= k * b
    BY <1>5, <1>10
  <2>2. F[s] = F[r] + d[m]
    BY <1>7, <1>10 DEF Summing
  <2>3. d[m] \in Nat /\ a <= d[m] /\ d[m] <= b
    BY <1>1, <2>1
  <2> HIDE DEF m
  <2>4. c(s) = k + 1 /\ k \in Nat
    <3>1. s \in SUBSET (1..len) /\ r \in SUBSET (1..len) /\ 0 \in Nat
          /\ \A i \in 1..len : d[i] \in Nat
      BY <1>1
    <3>2. OneMore(d, s, m)
      BY <1>1, <2>1, <3>1, UpToOneMore
    <3>3. Cardinality(r) \in Nat
      <4> HIDE DEF r
      <4> QED
        BY <1>1, <3>1, UpToGrows
    <3> QED
      BY <3>2, <3>3 DEF OneMore
  <2> DEFINE ka == k * a
             kb == k * b
             x  == d[m]
             y  == F[r]
  <2>5. ka \in Nat /\ kb \in Nat /\ (k + 1) * a = ka + a /\ (k + 1) * b = kb + b
    <3> HIDE DEF k
    <3> QED
      BY <2>4, OnceMore
  <2>6. x \in Nat /\ a <= x /\ x <= b /\ y \in Nat /\ ka <= y /\ y <= kb
    BY <2>1, <2>3
  <2> HIDE DEF k, r, ka, kb, x, y
  <2>7. y + x \in Nat /\ ka + a <= y + x /\ y + x <= kb + b
    BY <2>5, <2>6
  <2>8. F[s] = y + x /\ c(s) * a = ka + a /\ c(s) * b = kb + b
    BY <2>2, <2>4, <2>5 DEF x, y
  <2> QED
    BY <2>7, <2>8
<1>11. \A s \in SUBSET D : s \in P
  <2>1. D \subseteq 1..len
    BY <1>1
  <2> HIDE DEF P, D
  <2> QED
    BY <1>1, <1>9, <1>10, <2>1, MaxInduction
<1>12. D \in P
  BY <1>11
<1>13. Cardinality(D) = len
  <2>1. Cardinality(1..len) = len
    <3> HIDE DEF len
    <3> QED
      BY <1>1, FS_Interval
  <2> QED
    BY <1>1, <2>1
<1> QED
  BY <1>8, <1>12, <1>13

\* A mean is no smaller than the least and no larger than the greatest.
LEMMA MeanIs ==
    ASSUME NEW c \in Nat \ {0}, NEW a \in Nat, NEW b \in Nat, NEW sum \in Nat,
           c * a <= sum, sum <= c * b
    PROVE  sum \div c \in Nat /\ a <= sum \div c /\ sum \div c <= b
<1> DEFINE q == sum \div c
           r == sum % c
<1>1. q \in Nat /\ r \in Nat /\ r < c /\ sum = c * q + r
  OBVIOUS
<1> HIDE DEF q, r
<1>2. \A x, y \in Nat : x + 1 <= y => c * x + c <= c * y
  OBVIOUS
<1>3. a <= q
  <2>1. SUFFICES ASSUME q + 1 <= a PROVE FALSE
    BY <1>1
  <2>2. c * q + c <= c * a /\ c * q \in Nat /\ c * a \in Nat
    BY <1>1, <1>2, <2>1
  <2> QED
    BY <1>1, <2>2
<1>4. q <= b
  <2>1. SUFFICES ASSUME b + 1 <= q PROVE FALSE
    BY <1>1
  <2>2. c * b + c <= c * q /\ c * q \in Nat /\ c * b \in Nat
    BY <1>1, <1>2, <2>1
  <2> QED
    BY <1>1, <2>2
<1> QED
  BY <1>1, <1>3, <1>4 DEF q

\* The item at a rank is at that rank.
LEMMA RankIs ==
    ASSUME NEW d \in Seq(Nat), NEW items, SortedAre(items, d, DOMAIN d), NEW percent \in Nat,
           Rank(percent, Len(d)) \in 0..(Len(d) - 1)
    PROVE  AtRank(items[1 + Rank(percent, Len(d))], d, percent)
<1> DEFINE len == Len(d)
           r == Rank(percent, len)
           v == items[1 + r]
<1>1. len \in Nat /\ DOMAIN d = 1..len /\ \A i \in 1..len : d[i] \in Nat
  BY LenProperties
<1>2. Len(items) = len
  <2>1. Len(items) = Cardinality(1..len)
    BY <1>1 DEF SortedAre
  <2> HIDE DEF len
  <2>2. Cardinality(1..len) = len
    BY <1>1, FS_Interval
  <2> QED
    BY <2>1, <2>2
<1>3. r \in Nat /\ 1 + r \in 1..len
  BY <1>1
<1> HIDE DEF r
<1>4. v \in Nat /\ \A w \in Nat : v <= w <=> 1 + r <= UpTo(d, 1..len, w)
  BY <1>1, <1>2, <1>3 DEF SortedAre
<1> HIDE DEF v, len
<1>5. Cardinality({i \in DOMAIN d : d[i] <= v}) > r
  <2>1. UpTo(d, 1..len, v) \in Nat
    <3>1. 1..len \in SUBSET (1..len)
      OBVIOUS
    <3> QED
      BY <1>1, <1>4, <3>1, UpToGrows
  <2>2. 1 + r <= UpTo(d, 1..len, v)
    BY <1>4
  <2>3. UpTo(d, 1..len, v) > r
    BY <1>3, <2>1, <2>2
  <2> QED
    BY <1>1, <2>3 DEF UpTo
<1>6. Cardinality({i \in DOMAIN d : d[i] < v}) <= r
  <2>1. CASE v = 0
    <3>1. {i \in DOMAIN d : d[i] < v} = {}
      BY <1>1, <2>1
    <3>2. Cardinality({}) = 0 /\ 0 <= r
      BY <1>3, FS_EmptySet
    <3> QED
      BY <3>1, <3>2
  <2>2. CASE v # 0
    <3> DEFINE w == v - 1
    <3>1. w \in Nat /\ ~(v <= w) /\ \A x \in Nat : x < v <=> x <= w
      BY <1>4, <2>2
    <3> HIDE DEF w
    <3>2. {i \in DOMAIN d : d[i] < v} = {i \in 1..len : d[i] <= w}
      BY <1>1, <3>1
    <3>3. ~(1 + r <= UpTo(d, 1..len, w))
      BY <1>4, <3>1
    <3>4. UpTo(d, 1..len, w) \in Nat
      <4>1. 1..len \in SUBSET (1..len)
        OBVIOUS
      <4> QED
        BY <1>1, <3>1, <4>1, UpToGrows
    <3>5. UpTo(d, 1..len, w) <= r
      BY <1>3, <3>3, <3>4
    <3> QED
      BY <3>2, <3>5 DEF UpTo
  <2> QED
    BY <2>1, <2>2
<1> DEFINE below  == Cardinality({i \in DOMAIN d : d[i] < v})
           atMost == Cardinality({i \in DOMAIN d : d[i] <= v})
           place  == percent * (len - 1)
<1>7. below \in Nat /\ atMost \in Nat
  <2>1. IsFiniteSet(DOMAIN d)
    BY <1>1, FS_Interval
  <2> HIDE DEF v
  <2> QED
    BY <2>1, FS_Subset, FS_CardinalityType
<1>8. place \in Nat /\ 100 * r <= place /\ place < 100 * (r + 1)
  <2>1. place \in Nat /\ r = place \div 100
    BY <1>1, <1>3 DEF Rank, r
  <2> HIDE DEF place
  <2> QED
    BY <2>1
<1>9. below <= r /\ atMost > r
  BY <1>5, <1>6
<1>10. AtRank(v, d, percent) <=> 100 * below <= place /\ place < 100 * atMost
  BY DEF AtRank, len
<1> HIDE DEF below, atMost, place
<1>11. AtRank(v, d, percent)
  BY <1>3, <1>7, <1>8, <1>9, <1>10
<1> QED
  BY <1>11 DEF r, len, v

\* The statistics of samples are right.
LEMMA StatsAreRight ==
    ASSUME NEW d \in Seq(Nat), d # <<>>
    PROVE  RightStats(ComputeStats(d), d)
<1> DEFINE len == Len(d)
           items == Sorted(d)
           s == ComputeStats(d)
           sum == FoldLeft(+, 0, items)
<1>1. len \in Nat \ {0}
  BY EmptySeq, LenProperties
<1>2. SortedAre(items, d, DOMAIN d)
  BY SortedIs
<1> HIDE DEF items
<1>3. items \in Seq(Nat) /\ Len(items) = len /\ DOMAIN items = 1..len
  <2>1. Cardinality(1..len) = len /\ DOMAIN d = 1..len
    BY <1>1, FS_Interval, LenProperties
  <2> QED
    BY <1>2, <2>1, LenProperties DEF SortedAre
<1>4. s = [count |-> len, avg |-> sum \div len,
           p50 |-> Percentile(items, 50), p95 |-> Percentile(items, 95),
           p99 |-> Percentile(items, 99), min |-> items[1], max |-> items[len]]
  BY DEF ComputeStats, items
<1> HIDE DEF s, len, sum
<1>5. /\ Rank(0, len) = 0 /\ Rank(100, len) = len - 1
      /\ Rank(50, len) \in 0..(len - 1) /\ Rank(95, len) \in 0..(len - 1)
      /\ Rank(99, len) \in 0..(len - 1)
  BY <1>1 DEF Rank
<1>6. /\ \A percent \in {50, 95, 99} : Percentile(items, percent) = items[1 + Rank(percent, len)]
      /\ items[1] = items[1 + Rank(0, len)] /\ items[len] = items[1 + Rank(100, len)]
  BY <1>1, <1>3, <1>5 DEF Percentile
<1>7. \A percent \in {0, 50, 95, 99, 100} : AtRank(items[1 + Rank(percent, len)], d, percent)
  <2>1. ASSUME NEW percent \in {0, 50, 95, 99, 100}
        PROVE  AtRank(items[1 + Rank(percent, len)], d, percent)
    <3>1. Rank(percent, Len(d)) \in 0..(Len(d) - 1) /\ percent \in Nat
      BY <1>1, <1>5 DEF len
    <3> QED
      BY <1>2, <3>1, RankIs DEF len
  <2> QED
    BY <2>1
<1>8. items[1] <= sum \div len /\ sum \div len <= items[len]
  <2> DEFINE a == items[1]
             b == items[len]
  <2>1. a \in Nat /\ b \in Nat /\ \A i \in 1..len : items[i] \in Nat
    BY <1>1, <1>3
  <2>2. \A i \in 1..len : a <= items[i] /\ items[i] <= b
    <3>1. ASSUME NEW i \in 1..len, NEW j \in 1..len, i <= j
          PROVE  items[i] <= items[j]
      <4> DEFINE v == items[j]
                 u == UpTo(d, DOMAIN d, v)
      <4>1. v \in Nat
        BY <2>1
      <4>2. (v <= v <=> j <= u) /\ (items[i] <= v <=> i <= u)
        BY <1>2, <1>3, <4>1 DEF SortedAre
      <4>3. u \in Nat
        <5>1. DOMAIN d = 1..len /\ DOMAIN d \in SUBSET (1..len) /\ len \in Nat
              /\ \A k \in 1..len : d[k] \in Nat
          BY <1>1, LenProperties DEF len
        <5> HIDE DEF v
        <5> QED
          BY <4>1, <5>1, UpToGrows
      <4> HIDE DEF u
      <4>4. j <= u
        BY <4>1, <4>2
      <4>5. i <= u
        BY <3>1, <4>3, <4>4
      <4> QED
        BY <4>2, <4>5
    <3>2. 1 \in 1..len /\ len \in 1..len /\ \A i \in 1..len : 1 <= i /\ i <= len
      BY <1>1
    <3> QED
      BY <3>1, <3>2
  <2> HIDE DEF a, b
  <2>3. sum \in Nat /\ len * a <= sum /\ sum <= len * b
    <3>1. \A i \in DOMAIN items : a <= items[i] /\ items[i] <= b
      BY <1>3, <2>2
    <3>2. FoldLeft(+, 0, items) \in Nat /\ Len(items) * a <= FoldLeft(+, 0, items)
          /\ FoldLeft(+, 0, items) <= Len(items) * b
      BY <1>3, <2>1, <3>1, SumIs
    <3> QED
      BY <1>3, <3>2 DEF sum
  <2>4. a <= sum \div len /\ sum \div len <= b
    BY <1>1, <2>1, <2>3, MeanIs
  <2> QED
    BY <2>4 DEF a, b
<1> QED
  BY <1>4, <1>6, <1>7, <1>8 DEF RightStats, s, len

-----------------------------------------------------------------------------
(* Every build reads the same.                                             *)

\* what of a token the number of instructions depends on
TokenKind(t) == <<t.type, IF t.type = "instruction" THEN t.value[1] ELSE "none">>

\* the next token behind each position, and where it ends
NextToken(p) ==
    LET q == SkipSpaces(p) IN
    IF q > Len(text) THEN [kind |-> <<"eof", "none">>, end |-> Len(text) + 1]
    ELSE [kind |-> TokenKind(Read(q)), end |-> Read(q).end]
Shape == [p \in 1..(Len(text) + 1) |-> NextToken(p)]

\* where a parse is, as far as the number of its instructions depends on it
Kinds == [i \in DOMAIN tokens |-> TokenKind(tokens[i])]
Ops   == [i \in DOMAIN insts |-> insts[i].op]
Here  == [pos |-> pos, kinds |-> Kinds, phase |-> phase, cur |-> cur, ops |-> Ops,
          free |-> Len(globals), staged |-> Len(stages)]
Beginning == [pos |-> 1, kinds |-> <<>>, phase |-> "lex", cur |-> 1, ops |-> <<>>,
              free |-> 0, staged |-> 0]

\* the one way a parse that refuses nothing goes on
LexTurn(shape, s) ==
    [s EXCEPT !.pos = shape[s.pos].end, !.kinds = Append(@, shape[s.pos].kind),
              !.phase = IF shape[s.pos].kind[1] = "eof" THEN "parse" ELSE "lex"]
ParseTurn(s) ==
    IF s.cur > Len(s.kinds) THEN [s EXCEPT !.phase = "group", !.cur = 1]
    ELSE IF s.kinds[s.cur][1] = "instruction"
    THEN [s EXCEPT !.ops = Append(@, s.kinds[s.cur][2]),
                   !.cur = Min({j \in @..Len(s.kinds) : s.kinds[j][1] \in {"newline", "eof"}}) + 1]
    ELSE [s EXCEPT !.cur = @ + 1]
GroupTurn(s) ==
    IF s.cur > Len(s.ops) THEN [s EXCEPT !.phase = "parsed"]
    ELSE [s EXCEPT !.cur = @ + 1,
                   !.free   = IF s.ops[s.cur] = "ARG" /\ s.staged = 0 THEN @ + 1 ELSE @,
                   !.staged = IF s.ops[s.cur] = "FROM" THEN @ + 1 ELSE @]
Turn(shape, s) ==
    IF s.phase = "lex" THEN LexTurn(shape, s)
    ELSE IF s.phase = "parse" THEN ParseTurn(s) ELSE GroupTurn(s)

\* a parse of a text of that shape, and where one comes by
Reading(shape, run, k) ==
    /\ k \in Nat \ {0} /\ DOMAIN run = 1..k /\ run[1] = Beginning
    /\ \A i \in 1..(k - 1) : run[i].phase # "parsed" /\ run[i + 1] = Turn(shape, run[i])
ReadBy(shape, s) == \E k, run : Reading(shape, run, k) /\ run[k] = s

\* A parse begins.
LEMMA ReadingBegins == \A shape : ReadBy(shape, Beginning)
<1>1. ASSUME NEW shape PROVE ReadBy(shape, Beginning)
  <2> DEFINE run == [i \in 1..1 |-> Beginning]
  <2>1. Reading(shape, run, 1) /\ run[1] = Beginning
    BY DEF Reading
  <2> QED
    BY <2>1 DEF ReadBy
<1> QED
  BY <1>1

\* A parse that has not ended goes on.
LEMMA ReadingGoesOn ==
    ASSUME NEW shape, NEW s, ReadBy(shape, s), s.phase # "parsed"
    PROVE  ReadBy(shape, Turn(shape, s))
<1>1. PICK k, run : Reading(shape, run, k) /\ run[k] = s
  BY DEF ReadBy
<1> DEFINE more == [i \in 1..(k + 1) |-> IF i <= k THEN run[i] ELSE Turn(shape, s)]
<1>2. k \in Nat \ {0} /\ k + 1 \in Nat \ {0} /\ (k + 1) - 1 = k
  BY <1>1 DEF Reading
<1>3. /\ DOMAIN more = 1..(k + 1) /\ more[k + 1] = Turn(shape, s)
      /\ \A i \in 1..k : more[i] = run[i]
  BY <1>2
<1> HIDE DEF more
<1>4. more[1] = Beginning
  BY <1>1, <1>2, <1>3 DEF Reading
<1>5. ASSUME NEW i \in 1..k
      PROVE  more[i].phase # "parsed" /\ more[i + 1] = Turn(shape, more[i])
  <2>1. CASE i = k
    BY <1>1, <1>2, <1>3, <2>1
  <2>2. CASE i # k
    <3>1. i \in 1..(k - 1) /\ i + 1 \in 1..k
      BY <1>2, <2>2
    <3>2. run[i].phase # "parsed" /\ run[i + 1] = Turn(shape, run[i])
      BY <1>1, <3>1 DEF Reading
    <3> QED
      BY <1>3, <3>1, <3>2
  <2> QED
    BY <2>1, <2>2
<1>6. Reading(shape, more, k + 1)
  BY <1>2, <1>3, <1>4, <1>5 DEF Reading
<1> QED
  BY <1>3, <1>6 DEF ReadBy

\* Parses of the same text that end, end the same.
LEMMA ReadingsAgree ==
    ASSUME NEW shape, NEW s, NEW u, ReadBy(shape, s), ReadBy(shape, u),
           s.phase = "parsed", u.phase = "parsed"
    PROVE  s = u
<1>1. PICK k, run : Reading(shape, run, k) /\ run[k] = s
  BY DEF ReadBy
<1>2. PICK j, other : Reading(shape, other, j) /\ other[j] = u
  BY DEF ReadBy
<1> DEFINE T == {i \in Nat \ {0} : i <= k /\ i <= j => run[i] = other[i]}
<1>3. k \in Nat \ {0} /\ j \in Nat \ {0}
  BY <1>1, <1>2 DEF Reading
<1>4. 1 \in T
  BY <1>1, <1>2 DEF Reading
<1>5. ASSUME NEW i \in Nat \ {0}, i \in T
      PROVE  i + 1 \in T
  <2>1. SUFFICES ASSUME i + 1 <= k, i + 1 <= j
                 PROVE  run[i + 1] = other[i + 1]
    OBVIOUS
  <2>2. i \in 1..(k - 1) /\ i \in 1..(j - 1) /\ i <= k /\ i <= j
    BY <1>3, <2>1
  <2>3. run[i] = other[i]
    BY <1>5, <2>2
  <2>4. run[i + 1] = Turn(shape, run[i]) /\ other[i + 1] = Turn(shape, other[i])
    BY <1>1, <1>2, <2>2 DEF Reading
  <2> QED
    BY <2>3, <2>4
<1>6. \A i \in Nat \ {0} : i <= k /\ i <= j => run[i] = other[i]
  <2>1. Nat \ {0} \subseteq T
    <3> HIDE DEF T
    <3> QED
      BY <1>4, <1>5, SetInduction
  <2> QED
    BY <2>1
<1>7. CASE k < j
  <2>1. run[k] = other[k] /\ k \in 1..(j - 1)
    BY <1>3, <1>6, <1>7
  <2>2. other[k].phase # "parsed"
    BY <1>2, <2>1 DEF Reading
  <2> QED
    BY <1>1, <2>1, <2>2
<1>8. CASE j < k
  <2>1. run[j] = other[j] /\ j \in 1..(k - 1)
    BY <1>3, <1>6, <1>8
  <2>2. run[j].phase # "parsed"
    BY <1>1, <2>1 DEF Reading
  <2> QED
    BY <1>2, <2>1, <2>2
<1>9. CASE j = k
  BY <1>1, <1>2, <1>3, <1>6, <1>9
<1> QED
  BY <1>3, <1>7, <1>8, <1>9

\* A text keeps its shape.
LEMMA ShapeStays ==
    ASSUME text' = text
    PROVE  Shape' = Shape
<1>1. ASSUME NEW p
      PROVE  SkipSpaces(p)' = SkipSpaces(p)
  BY DEF SkipSpaces, Until, Is, Blank, Joins
<1>2. ASSUME NEW p
      PROVE  /\ EndOfWord(p)' = EndOfWord(p) /\ EndOfFlag(p)' = EndOfFlag(p)
             /\ EndOfComment(p)' = EndOfComment(p) /\ EndOfArray(p)' = EndOfArray(p)
             /\ EndOfString(p)' = EndOfString(p)
  <2>1. EndOfWord(p)' = EndOfWord(p)
    BY DEF EndOfWord, Until, Is
  <2>2. EndOfFlag(p)' = EndOfFlag(p)
    BY DEF EndOfFlag, Until, Is
  <2>3. EndOfComment(p)' = EndOfComment(p)
    BY DEF EndOfComment, Until, Is
  <2>4. EndOfArray(p)' = EndOfArray(p)
    BY DEF EndOfArray, CountIn, Is
  <2>5. EndOfString(p)' = EndOfString(p)
    BY DEF EndOfString, Until, Is, Escaped
  <2> QED
    BY <2>1, <2>2, <2>3, <2>4, <2>5
<1>3. ASSUME NEW p
      PROVE  /\ Read(p)'.type = Read(p).type /\ Read(p)'.end = Read(p).end
             /\ Read(p).type = "instruction" => Read(p)'.value = Read(p).value
  <2> DEFINE word == Slice(p, EndOfWord(p))
  <2>1. /\ Is(p, {"hash"})' <=> Is(p, {"hash"})
        /\ Is(p, {"nl"})' <=> Is(p, {"nl"})
        /\ Is(p, {"cr"})' <=> Is(p, {"cr"})
        /\ Is(p, {"lb"})' <=> Is(p, {"lb"})
        /\ Is(p, {"quote"})' <=> Is(p, {"quote"})
        /\ StartsFlag(p)' <=> StartsFlag(p)
        /\ Is(p + 1, {"nl"})' <=> Is(p + 1, {"nl"})
    BY DEF Is, StartsFlag
  <2>2. word' = word /\ Len(text)' = Len(text)
    BY <1>2 DEF Slice
  <2>3. CASE Is(p, {"hash"})
    BY <1>2, <2>1, <2>3 DEF Read
  <2>4. CASE ~Is(p, {"hash"}) /\ Is(p, {"nl"})
    BY <1>2, <2>1, <2>4 DEF Read
  <2>5. CASE ~Is(p, {"hash"}) /\ ~Is(p, {"nl"}) /\ Is(p, {"cr"})
    BY <1>2, <2>1, <2>5 DEF Read
  <2>6. CASE ~Is(p, {"hash"}) /\ ~Is(p, {"nl"}) /\ ~Is(p, {"cr"}) /\ StartsFlag(p)
    BY <1>2, <2>1, <2>6 DEF Read
  <2>7. CASE ~Is(p, {"hash"}) /\ ~Is(p, {"nl"}) /\ ~Is(p, {"cr"}) /\ ~StartsFlag(p) /\ Is(p, {"lb"})
    BY <1>2, <2>1, <2>7 DEF Read
  <2>8. CASE /\ ~Is(p, {"hash"}) /\ ~Is(p, {"nl"}) /\ ~Is(p, {"cr"}) /\ ~StartsFlag(p)
             /\ ~Is(p, {"lb"}) /\ Is(p, {"quote"})
    BY <1>2, <2>1, <2>2, <2>8 DEF Read
  <2>9. CASE /\ ~Is(p, {"hash"}) /\ ~Is(p, {"nl"}) /\ ~Is(p, {"cr"}) /\ ~StartsFlag(p)
             /\ ~Is(p, {"lb"}) /\ ~Is(p, {"quote"})
    <3>1. Read(p) = IF IsKeyword(word)
                    THEN [type |-> "instruction", value |-> <<Upper[word[1]]>>,
                          end |-> EndOfWord(p), newlines |-> 0]
                    ELSE [type |-> "argument", value |-> word, end |-> EndOfWord(p), newlines |-> 0]
      BY <2>9 DEF Read
    <3>2. Read(p)' = IF IsKeyword(word')
                     THEN [type |-> "instruction", value |-> <<Upper[word'[1]]>>,
                           end |-> EndOfWord(p)', newlines |-> 0]
                     ELSE [type |-> "argument", value |-> word', end |-> EndOfWord(p)', newlines |-> 0]
      BY <2>1, <2>9 DEF Read
    <3> HIDE DEF word
    <3> QED
      BY <1>2, <2>2, <3>1, <3>2
  <2> QED
    BY <2>3, <2>4, <2>5, <2>6, <2>7, <2>8, <2>9
<1>4. ASSUME NEW p
      PROVE  NextToken(p)' = NextToken(p)
  <2> DEFINE q == SkipSpaces(p)
  <2>1. q' = q
    BY <1>1
  <2> QED
    BY <1>1, <1>3 DEF NextToken, TokenKind
<1> QED
  BY <1>4 DEF Shape

\* What Append makes of a function on the first numbers.
LEMMA AppendIs ==
    ASSUME NEW k \in Nat, NEW f, f = [i \in 1..k |-> f[i]], NEW x
    PROVE  Append(f, x) = [i \in 1..(k + 1) |-> IF i <= k THEN f[i] ELSE x] /\ Len(f) = k
<1> DEFINE S == {f[i] : i \in 1..k} \cup {x}
           a == Append(f, x)
<1>1. f \in [1..k -> S] /\ x \in S
  <2>1. x \in S /\ DOMAIN f = 1..k /\ \A i \in 1..k : f[i] \in S
    OBVIOUS
  <2> HIDE DEF S
  <2> QED
    BY <2>1
<1> HIDE DEF S
<1>2. f \in Seq(S) /\ Len(f) = k
  BY <1>1
<1>3. /\ a \in Seq(S) /\ Len(a) = k + 1 /\ \A i \in 1..k : a[i] = f[i]
      /\ a[k + 1] = x
  BY <1>1, <1>2, AppendProperties
<1> HIDE DEF a
<1>4. a = [i \in 1..(k + 1) |-> a[i]]
  BY <1>3
<1>5. \A i \in 1..(k + 1) : a[i] = IF i <= k THEN f[i] ELSE x
  BY <1>3
<1> QED
  BY <1>2, <1>4, <1>5 DEF a

\* The kinds of the tokens, and the words of the instructions.
LEMMA MapsAre ==
    ASSUME LexOK, Grouping
    PROVE  /\ Len(tokens) \in Nat /\ DOMAIN tokens = 1..Len(tokens)
           /\ Kinds = [i \in 1..Len(tokens) |-> TokenKind(tokens[i])] /\ Len(Kinds) = Len(tokens)
           /\ Len(insts) \in Nat /\ DOMAIN insts = 1..Len(insts)
           /\ Ops = [i \in 1..Len(insts) |-> insts[i].op] /\ Len(Ops) = Len(insts)
<1>1. /\ Len(tokens) \in Nat /\ DOMAIN tokens = 1..Len(tokens)
      /\ Len(insts) \in Nat /\ DOMAIN insts = 1..Len(insts)
  BY LenProperties DEF LexOK, Grouping
<1>2. /\ Kinds = [i \in 1..Len(tokens) |-> TokenKind(tokens[i])]
      /\ Ops = [i \in 1..Len(insts) |-> insts[i].op]
  BY <1>1 DEF Kinds, Ops
<1>3. Kinds = [i \in 1..Len(tokens) |-> Kinds[i]] /\ Ops = [i \in 1..Len(insts) |-> Ops[i]]
  BY <1>2
<1>4. Len(Kinds) = Len(tokens)
  BY <1>1, <1>3, AppendIs
<1>5. Len(Ops) = Len(insts)
  BY <1>1, <1>3, AppendIs
<1> QED
  BY <1>1, <1>2, <1>4, <1>5

\* A token more is a kind more.
LEMMA KindsGrow ==
    ASSUME LexOK, Grouping, NEW t, t \in Token, tokens' = Append(tokens, t)
    PROVE  Kinds' = Append(Kinds, TokenKind(t))
<1> DEFINE k == Len(tokens)
<1>1. /\ k \in Nat /\ Kinds = [i \in 1..k |-> TokenKind(tokens[i])]
  BY MapsAre
<1>2. /\ Len(tokens') = k + 1 /\ DOMAIN tokens' = 1..(k + 1) /\ tokens'[k + 1] = t
      /\ \A i \in 1..k : tokens'[i] = tokens[i]
  BY AppendProperties, LenProperties DEF LexOK
<1>3. Kinds' = [i \in 1..(k + 1) |-> TokenKind(tokens'[i])]
  BY <1>2 DEF Kinds
<1> HIDE DEF k
<1> DEFINE f == Kinds
           x == TokenKind(t)
<1>4. f = [i \in 1..k |-> f[i]] /\ \A i \in 1..k : f[i] = TokenKind(tokens[i])
  BY <1>1
<1> HIDE DEF f, x
<1>5. Append(f, x) = [i \in 1..(k + 1) |-> IF i <= k THEN f[i] ELSE x]
  BY <1>1, <1>4, AppendIs
<1>6. ASSUME NEW i \in 1..(k + 1)
      PROVE  TokenKind(tokens'[i]) = IF i <= k THEN f[i] ELSE x
  <2>1. CASE i \in 1..k
    BY <1>1, <1>2, <1>4, <2>1
  <2>2. CASE i = k + 1
    BY <1>1, <1>2, <2>2 DEF x
  <2>3. i \in 1..k \/ i = k + 1
    <3>1. k \in Nat
      BY <1>1
    <3> QED
      BY <3>1
  <2> QED
    BY <2>1, <2>2, <2>3
<1> QED
  BY <1>3, <1>5, <1>6 DEF f, x

\* An instruction more is a word more.
LEMMA OpsGrow ==
    ASSUME LexOK, Grouping, NEW inst, insts' = Append(insts, inst)
    PROVE  Ops' = Append(Ops, inst.op)
<1> DEFINE k == Len(insts)
<1>1. /\ k \in Nat /\ Ops = [i \in 1..k |-> insts[i].op]
  BY MapsAre
<1>2. /\ Len(insts') = k + 1 /\ DOMAIN insts' = 1..(k + 1) /\ insts'[k + 1] = inst
      /\ \A i \in 1..k : insts'[i] = insts[i]
  <2>1. /\ insts' \in Seq(Range(insts')) /\ Len(insts') = Len(insts) + 1
        /\ \A i \in 1..Len(insts) : insts'[i] = insts[i]
        /\ insts'[Len(insts) + 1] = inst
    <3>1. /\ Append(insts, inst) \in Seq(Range(Append(insts, inst)))
          /\ Len(Append(insts, inst)) = Len(insts) + 1
          /\ \A i \in 1..Len(insts) : Append(insts, inst)[i] = insts[i]
          /\ Append(insts, inst)[Len(insts) + 1] = inst
      BY RangeAppend DEF Grouping
    <3> QED
      BY <3>1
  <2> QED
    BY <2>1, LenProperties
<1>3. Ops' = [i \in 1..(k + 1) |-> insts'[i].op]
  BY <1>2 DEF Ops
<1> HIDE DEF k
<1> DEFINE f == Ops
           x == inst.op
<1>4. f = [i \in 1..k |-> f[i]] /\ \A i \in 1..k : f[i] = insts[i].op
  BY <1>1
<1> HIDE DEF f, x
<1>5. Append(f, x) = [i \in 1..(k + 1) |-> IF i <= k THEN f[i] ELSE x]
  BY <1>1, <1>4, AppendIs
<1>6. ASSUME NEW i \in 1..(k + 1)
      PROVE  insts'[i].op = IF i <= k THEN f[i] ELSE x
  <2>1. CASE i \in 1..k
    BY <1>1, <1>2, <1>4, <2>1
  <2>2. CASE i = k + 1
    BY <1>1, <1>2, <2>2 DEF x
  <2>3. i \in 1..k \/ i = k + 1
    <3>1. k \in Nat
      BY <1>1
    <3> QED
      BY <3>1
  <2> QED
    BY <2>1, <2>2, <2>3
<1> QED
  BY <1>3, <1>5, <1>6 DEF f, x

\* what a step does to where a parse is
Turned == Here' = Turn(Shape, Here) /\ phase # "parsed" /\ text' = text

\* A scan is a turn.
LEMMA ScanTurns ==
    ASSUME LexOK, Grouping, Scans
    PROVE  Turned
<1> DEFINE len == Len(text)
           p   == SkipSpaces(pos)
           r   == Read(p)
           t   == [type |-> r.type, value |-> r.value, line |-> LineAfterSpaces(pos)]
<1>1. TextIs(len) /\ len \in Nat /\ pos \in 1..(len + 1) /\ line \in 1..pos
  BY LenProperties DEF LexOK, TextIs
<1> HIDE DEF len
<1>2. LineAfterSpaces(pos) \in Nat /\ line <= LineAfterSpaces(pos) /\ p \in pos..(len + 1)
  BY <1>1, SpacesCount
<1>3. /\ p \in DOMAIN text \/ p <= Len(text)
      /\ Emit(r.type, r.value, r.end, r.newlines)
  BY ScanReads
<1>4. p \in 1..len
  BY <1>1, <1>2, <1>3 DEF TextIs
<1> HIDE DEF p
<1>5. /\ r.type \in {"instruction", "argument", "flag", "comment", "newline"}
      /\ r.end \in p..(len + 1) /\ r.newlines \in 0..(r.end - p)
      /\ r.value \in Seq(Char \cup Keyword)
      /\ r.type \in {"argument", "flag"} => r.value \in Seq(Char)
      /\ r.type = "instruction" => \E k \in Keyword : r.value = <<k>>
  BY <1>1, <1>4, ReadIs
<1>6. NextToken(pos) = [kind |-> TokenKind(r), end |-> r.end]
  <2>1. ~(SkipSpaces(pos) > Len(text))
    BY <1>1, <1>4 DEF p, len
  <2> QED
    BY <2>1 DEF NextToken, p
<1> HIDE DEF r
<1>7. /\ phase = "lex" /\ tokens' = Append(tokens, t) /\ pos' = r.end
      /\ UNCHANGED <<text, phase, cur, insts, globals, stages>>
  BY <1>3 DEF Emit
<1>8. t \in Token /\ TokenKind(t) = TokenKind(r)
  <2>1. LineAfterSpaces(pos) \in Nat \ {0}
    BY <1>1, <1>2
  <2> QED
    BY <1>5, <2>1 DEF Token, TokenKind
<1> HIDE DEF t
<1>9. Kinds' = Append(Kinds, TokenKind(r))
  BY <1>7, <1>8, KindsGrow
<1>10. Shape[pos] = [kind |-> TokenKind(r), end |-> r.end]
  BY <1>1, <1>6 DEF Shape, len
<1>11. TokenKind(r)[1] # "eof"
  BY <1>5 DEF TokenKind
<1>12. Turn(Shape, Here) = [pos |-> r.end, kinds |-> Append(Kinds, TokenKind(r)), phase |-> "lex",
                            cur |-> cur, ops |-> Ops, free |-> Len(globals), staged |-> Len(stages)]
  <2>1. Here.phase = "lex" /\ Here.pos = pos
    BY <1>7 DEF Here
  <2>2. Turn(Shape, Here) = LexTurn(Shape, Here)
    BY <2>1 DEF Turn
  <2> DEFINE k == TokenKind(r)
             ks == Append(Kinds, k)
  <2>3. Shape[pos].kind = k /\ Shape[pos].end = r.end /\ k[1] # "eof"
    BY <1>10, <1>11
  <2>0. Append(Here.kinds, k) = ks
    BY DEF Here
  <2> HIDE DEF k, ks
  <2>4. LexTurn(Shape, Here) = [Here EXCEPT !.pos = r.end, !.kinds = ks,
                                            !.phase = "lex"]
    BY <2>0, <2>1, <2>3 DEF LexTurn
  <2>5. LexTurn(Shape, Here)
          = [pos |-> r.end, kinds |-> ks, phase |-> "lex",
             cur |-> cur, ops |-> Ops, free |-> Len(globals), staged |-> Len(stages)]
    BY <2>4 DEF Here
  <2> QED
    BY <2>2, <2>5 DEF k, ks
<1>13. Here' = [pos |-> r.end, kinds |-> Append(Kinds, TokenKind(r)), phase |-> "lex",
                cur |-> cur, ops |-> Ops, free |-> Len(globals), staged |-> Len(stages)]
  BY <1>7, <1>9 DEF Here, Ops
<1> QED
  BY <1>7, <1>12, <1>13 DEF Turned

\* The end of the text is one.
LEMMA InputEndTurns ==
    ASSUME LexOK, Grouping, EndOfInput
    PROVE  Turned
<1> DEFINE len == Len(text)
           t   == [type |-> "eof", value |-> <<>>, line |-> LineAfterSpaces(pos)]
           eof == <<"eof", "none">>
<1>1. TextIs(len) /\ len \in Nat /\ pos \in 1..(len + 1) /\ line \in 1..pos
  BY LenProperties DEF LexOK, TextIs
<1>2. LineAfterSpaces(pos) \in Nat /\ line <= LineAfterSpaces(pos)
  BY <1>1, SpacesCount
<1>3. /\ phase = "lex" /\ SkipSpaces(pos) > len /\ pos' = len + 1 /\ phase' = "parse"
      /\ tokens' = Append(tokens, t)
      /\ UNCHANGED <<text, cur, insts, globals, stages>>
  BY DEF EndOfInput
<1>4. t \in Token /\ TokenKind(t) = eof
  <2>1. LineAfterSpaces(pos) \in Nat \ {0} /\ <<>> \in Seq(Char \cup Keyword)
    BY <1>1, <1>2, NoneOfAny
  <2> QED
    BY <2>1 DEF Token, TokenKind
<1> HIDE DEF t
<1>5. Kinds' = Append(Kinds, eof)
  BY <1>3, <1>4, KindsGrow
<1>6. Shape[pos] = [kind |-> eof, end |-> len + 1]
  BY <1>1, <1>3 DEF Shape, NextToken
<1> HIDE DEF len
<1>7. Turn(Shape, Here) = [pos |-> len + 1, kinds |-> Append(Kinds, eof), phase |-> "parse",
                           cur |-> cur, ops |-> Ops, free |-> Len(globals), staged |-> Len(stages)]
  <2>1. Here.phase = "lex" /\ Here.pos = pos
    BY <1>3 DEF Here
  <2>2. Turn(Shape, Here) = LexTurn(Shape, Here)
    BY <2>1 DEF Turn
  <2>3. Shape[pos].kind = eof /\ Shape[pos].end = len + 1 /\ eof[1] = "eof"
    BY <1>6
  <2> DEFINE ks == Append(Kinds, eof)
  <2>0. Append(Here.kinds, eof) = ks
    BY DEF Here
  <2> HIDE DEF eof, ks
  <2>4. LexTurn(Shape, Here) = [Here EXCEPT !.pos = len + 1, !.kinds = ks,
                                            !.phase = "parse"]
    BY <2>0, <2>1, <2>3 DEF LexTurn
  <2>5. LexTurn(Shape, Here)
          = [pos |-> len + 1, kinds |-> ks, phase |-> "parse",
             cur |-> cur, ops |-> Ops, free |-> Len(globals), staged |-> Len(stages)]
    BY <2>4 DEF Here
  <2> QED
    BY <2>2, <2>5 DEF ks
<1>8. Here' = [pos |-> len + 1, kinds |-> Append(Kinds, eof), phase |-> "parse",
               cur |-> cur, ops |-> Ops, free |-> Len(globals), staged |-> Len(stages)]
  BY <1>3, <1>5 DEF Here, Ops
<1> QED
  BY <1>3, <1>7, <1>8 DEF Turned

\* The first pass takes them.
LEMMA PassTurns ==
    ASSUME LexOK, ParseOK, Grouping, SkipToken \/ ParseInstruction \/ EndOfTokens
    PROVE  Turned
<1>1. /\ phase = "parse" /\ UNCHANGED <<lexerVars, globals, stages>>
  BY DEF SkipToken, ParseInstruction, EndOfTokens
<1>2. /\ Len(tokens) \in Nat /\ Len(Kinds) = Len(tokens)
      /\ Kinds = [i \in 1..Len(tokens) |-> TokenKind(tokens[i])]
      /\ cur \in 1..(Len(tokens) + 1) /\ Kinds' = Kinds
  BY <1>1, MapsAre DEF ParseOK, Kinds, lexerVars
<1>3. Here.phase = "parse" /\ Here.cur = cur /\ Here.kinds = Kinds
  BY <1>1 DEF Here
<1>4. Turn(Shape, Here) = ParseTurn(Here)
  BY <1>3 DEF Turn
<1>5. CASE SkipToken
  <2>1. cur \in 1..Len(tokens) /\ Kinds[cur][1] # "instruction" /\ ~(cur > Len(Kinds))
        /\ cur' = cur + 1 /\ phase' = "parse" /\ insts' = insts
    BY <1>1, <1>2, <1>5 DEF SkipToken, TokenKind
  <2>2. ParseTurn(Here) = [pos |-> pos, kinds |-> Kinds, phase |-> "parse", cur |-> cur + 1,
                           ops |-> Ops, free |-> Len(globals), staged |-> Len(stages)]
    BY <1>1, <2>1 DEF ParseTurn, Here
  <2>3. Here' = [pos |-> pos, kinds |-> Kinds, phase |-> "parse", cur |-> cur + 1,
                 ops |-> Ops, free |-> Len(globals), staged |-> Len(stages)]
    BY <1>1, <1>2, <2>1 DEF Here, Ops, lexerVars
  <2> QED
    BY <1>1, <1>4, <2>2, <2>3 DEF Turned, lexerVars
<1>6. CASE ParseInstruction
  <2> DEFINE inst == PostProcess(Gather(cur))
             op   == tokens[cur].value[1]
             end  == EndOfLine(cur) + 1
  <2>1. /\ cur \in 1..Len(tokens) /\ tokens[cur].type = "instruction"
        /\ insts' = Append(insts, inst) /\ cur' = end /\ phase' = "parse"
    BY <1>1, <1>2, <1>6 DEF ParseInstruction
  <2>2. inst.op = op
    <3>1. inst.op = Gather(cur).op
      BY <1>1, <2>1, GatherIs
    <3> QED
      BY <3>1 DEF Gather
  <2>3. Kinds[cur] = <<"instruction", op>> /\ ~(cur > Len(Kinds))
    BY <1>2, <2>1 DEF TokenKind
  <2>4. Min({j \in cur..Len(Kinds) : Kinds[j][1] \in {"newline", "eof"}}) + 1 = end
    <3>1. {j \in cur..Len(Kinds) : Kinds[j][1] \in {"newline", "eof"}}
            = {j \in cur..Len(tokens) : tokens[j].type \in {"newline", "eof"}}
      BY <1>2, <2>1 DEF TokenKind
    <3> QED
      BY <3>1 DEF EndOfLine
  <2> HIDE DEF inst, op, end
  <2>5. Ops' = Append(Ops, op)
    BY <2>1, <2>2, OpsGrow
  <2>6. ParseTurn(Here) = [pos |-> pos, kinds |-> Kinds, phase |-> "parse", cur |-> end,
                           ops |-> Append(Ops, op), free |-> Len(globals), staged |-> Len(stages)]
    <3> DEFINE os == Append(Ops, op)
    <3>0. Append(Here.ops, op) = os
      BY DEF Here
    <3> HIDE DEF os
    <3>1. ParseTurn(Here) = [Here EXCEPT !.ops = os, !.cur = end]
      <4>1. Kinds[cur][1] = "instruction" /\ Kinds[cur][2] = op
        BY <2>3
      <4> QED
        BY <1>3, <2>3, <2>4, <3>0, <4>1 DEF ParseTurn
    <3>2. ParseTurn(Here)
            = [pos |-> pos, kinds |-> Kinds, phase |-> "parse", cur |-> end,
               ops |-> os, free |-> Len(globals), staged |-> Len(stages)]
      BY <1>1, <3>1 DEF Here
    <3> QED
      BY <3>2 DEF os
  <2>7. Here' = [pos |-> pos, kinds |-> Kinds, phase |-> "parse", cur |-> end,
                 ops |-> Append(Ops, op), free |-> Len(globals), staged |-> Len(stages)]
    BY <1>1, <1>2, <2>1, <2>5 DEF Here, lexerVars
  <2> QED
    BY <1>1, <1>4, <2>6, <2>7 DEF Turned, lexerVars
<1>7. CASE EndOfTokens
  <2>1. cur > Len(Kinds) /\ cur' = 1 /\ phase' = "group" /\ insts' = insts
    BY <1>1, <1>2, <1>7 DEF EndOfTokens
  <2>2. ParseTurn(Here) = [pos |-> pos, kinds |-> Kinds, phase |-> "group", cur |-> 1,
                           ops |-> Ops, free |-> Len(globals), staged |-> Len(stages)]
    BY <1>1, <2>1 DEF ParseTurn, Here
  <2>3. Here' = [pos |-> pos, kinds |-> Kinds, phase |-> "group", cur |-> 1,
                 ops |-> Ops, free |-> Len(globals), staged |-> Len(stages)]
    BY <1>1, <1>2, <2>1 DEF Here, Ops, lexerVars
  <2> QED
    BY <1>1, <1>4, <2>2, <2>3 DEF Turned, lexerVars
<1> QED
  BY <1>5, <1>6, <1>7

\* And the second.
LEMMA GroupTurns ==
    ASSUME LexOK, Grouping, GlobalArg \/ NewStage \/ AddToStage \/ Grouped
    PROVE  Turned
<1>1. phase = "group" /\ UNCHANGED <<lexerVars, insts>>
  BY DEF GlobalArg, NewStage, AddToStage, Grouped, More
<1>2. /\ Len(insts) \in Nat /\ Len(Ops) = Len(insts) /\ Ops = [i \in 1..Len(insts) |-> insts[i].op]
      /\ Kinds' = Kinds /\ Ops' = Ops
  BY <1>1, MapsAre DEF Kinds, Ops, lexerVars
<1>3. /\ globals \in Seq(Range(insts)) /\ stages \in Seq(Range(stages))
      /\ cur \in 1..(Len(insts) + 1) /\ Len(stages) \in Nat /\ Len(globals) \in Nat
      /\ stages = <<>> <=> Len(stages) = 0
  <2>1. globals \in Seq(Range(insts)) /\ stages \in Seq(Range(stages))
        /\ cur \in 1..(Len(insts) + 1)
    BY <1>1 DEF Grouping, GroupedSoFar
  <2> QED
    BY <2>1, LenProperties, EmptySeq
<1>4. Turn(Shape, Here) = GroupTurn(Here)
  BY <1>1 DEF Turn, Here
<1> DEFINE Is_(at_, ph, fr, st) ==
               [pos |-> pos, kinds |-> Kinds, phase |-> ph, cur |-> at_, ops |-> Ops,
                free |-> fr, staged |-> st]
<1>5. Here' = Is_(cur', phase', Len(globals'), Len(stages'))
  BY <1>1, <1>2 DEF Here, lexerVars
<1>6. CASE Grouped
  <2>1. cur > Len(Ops) /\ phase' = "parsed" /\ UNCHANGED <<cur, globals, stages>>
    BY <1>2, <1>6 DEF Grouped
  <2>2. GroupTurn(Here) = Is_(cur, "parsed", Len(globals), Len(stages))
    BY <2>1 DEF GroupTurn, Here
  <2> QED
    BY <1>1, <1>4, <1>5, <2>1, <2>2 DEF Turned, lexerVars
<1>7. ASSUME cur \in 1..Len(insts)
      PROVE  GroupTurn(Here) =
                Is_(cur + 1, "group",
                    IF insts[cur].op = "ARG" /\ Len(stages) = 0 THEN Len(globals) + 1 ELSE Len(globals),
                    IF insts[cur].op = "FROM" THEN Len(stages) + 1 ELSE Len(stages))
  <2>1. ~(cur > Len(Ops)) /\ Ops[cur] = insts[cur].op
    BY <1>2, <1>7
  <2> QED
    BY <1>1, <2>1 DEF GroupTurn, Here
<1>8. CASE GlobalArg
  <2>1. /\ cur \in 1..Len(insts) /\ insts[cur].op = "ARG" /\ Len(stages) = 0 /\ phase' = "group"
        /\ cur' = cur + 1 /\ stages' = stages /\ globals' = Append(globals, insts[cur])
        /\ insts[cur] \in Range(insts)
    BY <1>1, <1>2, <1>3, <1>8, AtHand DEF GlobalArg, More
  <2>2. Len(globals') = Len(globals) + 1
    BY <1>3, <2>1, AppendProperties
  <2> QED
    BY <1>1, <1>4, <1>5, <1>7, <2>1, <2>2 DEF Turned, lexerVars
<1>9. CASE NewStage
  <2>1. /\ cur \in 1..Len(insts) /\ insts[cur].op = "FROM" /\ phase' = "group"
        /\ cur' = cur + 1 /\ globals' = globals
        /\ stages' = Append(stages, [name |-> Alias(insts[cur].args), insts |-> <<insts[cur]>>])
    BY <1>1, <1>2, <1>3, <1>9 DEF NewStage, More
  <2>2. Len(stages') = Len(stages) + 1
    BY <1>3, <2>1, RangeAppend
  <2> QED
    BY <1>1, <1>4, <1>5, <1>7, <2>1, <2>2 DEF Turned, lexerVars
<1>10. CASE AddToStage
  <2>1. /\ cur \in 1..Len(insts) /\ insts[cur].op # "FROM" /\ Len(stages) # 0 /\ phase' = "group"
        /\ cur' = cur + 1 /\ globals' = globals
        /\ stages' = [stages EXCEPT ![Len(stages)].insts = Append(@, insts[cur])]
    BY <1>1, <1>2, <1>3, <1>10 DEF AddToStage, More
  <2>2. Len(stages') = Len(stages)
    <3> DEFINE m == Len(stages)
               f == [i \in 1..m |-> stages'[i]]
    <3>1. DOMAIN stages = 1..m /\ m \in Nat
      BY <1>3, LenProperties
    <3>2. stages' = f
      BY <2>1, <3>1
    <3>3. f = [i \in 1..m |-> f[i]]
      OBVIOUS
    <3> HIDE DEF f, m
    <3>4. Len(f) = m
      BY <3>1, <3>3, AppendIs
    <3> QED
      BY <3>2, <3>4 DEF m
  <2> QED
    BY <1>1, <1>4, <1>5, <1>7, <2>1, <2>2 DEF Turned, lexerVars
<1> QED
  BY <1>6, <1>8, <1>9, <1>10

\* a parse that has refused nothing has come by where it is
ReadOK == phase # "refused" => ReadBy(Shape, Here)

\* so many instructions has a text of that shape, without the global ones
Whole(shape, total) ==
    \E s : ReadBy(shape, s) /\ s.phase = "parsed" /\ total = Len(s.ops) - s.free

\* What the parser does is a turn, unless it refuses.
LEMMA ParseTurns ==
    ASSUME LexOK, ParseOK, Grouping, Parse
    PROVE  text' = text /\ (Turned \/ phase' = "refused")
<1>1. CASE Tokenize
  BY <1>1, ScanTurns, InputEndTurns DEF Tokenize, Scans, Turned
<1>2. CASE SkipToken \/ ParseInstruction \/ EndOfTokens
  BY <1>2, PassTurns DEF Turned
<1>3. CASE GlobalArg \/ NewStage \/ AddToStage \/ Grouped
  BY <1>3, GroupTurns DEF Turned
<1>4. CASE ParseError \/ GroupError
  BY <1>4 DEF ParseError, GroupError, Refuse, lexerVars
<1> QED
  BY <1>1, <1>2, <1>3, <1>4 DEF Parse

\* A text that is not touched has been read so far.
LEMMA ReadStays ==
    ASSUME ReadOK, UNCHANGED dockerfileVars
    PROVE  ReadOK' /\ Shape' = Shape
<1>1. /\ text' = text /\ phase' = phase
      /\ UNCHANGED <<pos, tokens, cur, insts, globals, stages>>
  BY DEF dockerfileVars
<1>2. Shape' = Shape
  BY <1>1, ShapeStays
<1>3. Here' = Here
  BY <1>1 DEF Here, Kinds, Ops
<1> QED
  BY <1>1, <1>2, <1>3 DEF ReadOK

\* Nothing has been read.
LEMMA NothingRead ==
    ASSUME tokens = <<>>, insts = <<>>, globals = <<>>, stages = <<>>,
           pos = 1, cur = 1, phase = "lex"
    PROVE  Here = Beginning
<1>1. Kinds = <<>> /\ Ops = <<>>
  BY DEF Kinds, Ops
<1> QED
  BY <1>1 DEF Here, Beginning

\* Every step.
LEMMA StepKeepsRead ==
    ASSUME LexOK, ParseOK, Grouping, ReadOK, [Next]_allVars
    PROVE  ReadOK' /\ Shape' = Shape
<1>1. CASE StartBuild
  <2>1. /\ text' = text /\ tokens' = <<>> /\ insts' = <<>> /\ globals' = <<>> /\ stages' = <<>>
        /\ pos' = 1 /\ cur' = 1 /\ phase' = "lex"
    BY <1>1 DEF StartBuild
  <2>2. Here' = Beginning
    <3>1. Kinds' = <<>> /\ Ops' = <<>>
      BY <2>1 DEF Kinds, Ops
    <3>2. Len(globals') = 0 /\ Len(stages') = 0
      BY <2>1
    <3> QED
      BY <2>1, <3>1, <3>2 DEF Here, Beginning
  <2>3. Shape' = Shape
    BY <2>1, ShapeStays
  <2>4. ReadBy(Shape', Here')
    BY <2>2, ReadingBegins
  <2> QED
    BY <2>3, <2>4 DEF ReadOK
<1>2. CASE ParseDockerfile
  <2>1. Parse
    BY <1>2 DEF ParseDockerfile
  <2>2. text' = text /\ (Turned \/ phase' = "refused")
    BY <2>1, ParseTurns
  <2>3. Shape' = Shape
    BY <2>2, ShapeStays
  <2>4. CASE phase' = "refused"
    BY <2>3, <2>4 DEF ReadOK
  <2>5. CASE Turned /\ phase' # "refused"
    <3>1. phase # "refused"
      <4>1. Here.phase = phase /\ Here'.phase = phase'
        BY DEF Here
      <4>2. CASE phase = "refused"
        BY <2>1, <4>2 DEF Parse, Tokenize, ScanComment, ScanNewline, ScanFlag, ScanJSONArray,
                          ScanQuotedString, ScanWord, EndOfInput, Emit, SkipToken,
                          ParseInstruction, ParseError, EndOfTokens, GlobalArg, NewStage,
                          AddToStage, GroupError, Grouped, More
      <4> QED
        BY <4>2
    <3>2. ReadBy(Shape, Here) /\ Here.phase # "parsed"
      BY <2>5, <3>1 DEF ReadOK, Turned, Here
    <3> DEFINE sh == Shape
               s  == Here
    <3>3. ReadBy(sh, s) /\ s.phase # "parsed"
      BY <3>2
    <3> HIDE DEF sh, s
    <3>4. ReadBy(sh, Turn(sh, s))
      BY <3>3, ReadingGoesOn
    <3>5. ReadBy(Shape', Here')
      BY <2>3, <2>5, <3>4 DEF Turned, sh, s
    <3> QED
      BY <2>3, <3>5 DEF ReadOK
  <2> QED
    BY <2>2, <2>4, <2>5
<1>3. CASE UNCHANGED dockerfileVars
  BY <1>3, ReadStays
<1>4. CASE Parsed \/ Fail \/ LookupOnly \/ FilesystemInstruction \/ Export
  <2>1. UNCHANGED dockerfileVars
    BY <1>4 DEF Parsed, Fail, LookupOnly, FilesystemInstruction, Execute, Export
  <2> QED
    BY <2>1, ReadStays
<1>5. CASE UNCHANGED vars
  BY <1>5, ReadStays DEF vars
<1> QED
  BY <1>1, <1>2, <1>4, <1>5 DEF Next, Main, allVars

\* Reading starts.
LEMMA StartsReading ==
    ASSUME FrontendInit
    PROVE  ReadOK
<1>1. CASE Init
  <2>1. Here = Beginning
    BY <1>1, NothingRead DEF Init, DockerfileInit
  <2> QED
    BY <2>1, ReadingBegins DEF ReadOK
<1>2. CASE NoBuild
  BY <1>2 DEF NoBuild, ReadOK
<1> QED
  BY <1>1, <1>2 DEF FrontendInit

\* A text has a number of instructions, and only one.
LEMMA OneTotal ==
    ASSUME NEW shape, NEW a, NEW b, Whole(shape, a), Whole(shape, b)
    PROVE  a = b
BY ReadingsAgree DEF Whole

\* What has been parsed is all instructions of the text.
LEMMA ParsedIsWhole ==
    ASSUME LexOK, Grouping, ReadOK, phase = "parsed"
    PROVE  /\ Whole(Shape, Len(insts) - Len(globals))
           /\ Len(insts) \in Nat /\ Len(globals) \in Nat
           /\ Len(FlattenSeq(Parts)) \in Nat
           /\ Len(insts) - Len(globals) = Len(FlattenSeq(Parts))
<1>1. ReadBy(Shape, Here) /\ Here.phase = "parsed"
  BY DEF ReadOK, Here
<1>2. Len(Here.ops) = Len(insts) /\ Here.free = Len(globals)
  BY MapsAre DEF Here
<1>3. Whole(Shape, Len(insts) - Len(globals))
  BY <1>1, <1>2 DEF Whole
<1>4. globals \o FlattenSeq(Parts) = insts
  BY GroupingIsPartition DEF StagesPartition, Parts
<1>5. globals \in Seq(Range(insts)) /\ FlattenSeq(Parts) \in Seq(Range(insts))
  <2>1. globals \in Seq(Range(insts)) /\ Parts \in Seq(Seq(Range(insts)))
    BY DEF Grouping, GroupedSoFar
  <2> QED
    BY <2>1, NoneOfAny, FlattenAppend
<1>6. Len(globals \o FlattenSeq(Parts)) = Len(globals) + Len(FlattenSeq(Parts))
      /\ Len(globals) \in Nat /\ Len(FlattenSeq(Parts)) \in Nat
  BY <1>5, ConcatProperties, LenProperties
<1> QED
  BY <1>3, <1>4, <1>6

-----------------------------------------------------------------------------
(* What is counted while builds run, and what is reported of them.         *)

Count(t, key) == Len(Durations(t, key))

\* the tracker of one build: so many lookups and exports
Counted(t, lookups, exports) ==
    /\ TrackerOK(t)
    /\ Count(t, <<"Dockerfile Parse">>) = 1 /\ Count(t, <<"Cache Lookup">>) = lookups
    /\ Count(t, <<"OCI Export">>) = exports
    /\ \A key \in FilePhases : Count(t, key) = Count(t, <<"RootFS Prepare">>)
    /\ \A key \in DOMAIN t.phases : Count(t, key) # 0

\* a tracker with the samples of these builds
ReportOn(t, bs, shape) ==
    /\ TrackerOK(t)
    /\ bs \in Seq(Range(bs)) /\ \A b \in DOMAIN bs : TrackerOK(bs[b])
    /\ DOMAIN t.phases = UNION {DOMAIN bs[b].phases : b \in DOMAIN bs}
    /\ \A key : Durations(t, key) = FlattenSeq([b \in DOMAIN bs |-> Durations(bs[b], key)])
    /\ Count(t, <<"Dockerfile Parse">>) = Len(bs) /\ Count(t, <<"OCI Export">>) = Len(bs)
    /\ \A total \in Nat : Whole(shape, total) => Count(t, <<"Cache Lookup">>) = Len(bs) * total
    /\ \A key \in FilePhases : Count(t, key) = Count(t, <<"RootFS Prepare">>)
    /\ \A key \in DOMAIN t.phases : Count(t, key) # 0

\* the counts of the build that runs, and the report
CountsOK ==
    /\ at = "parse" => /\ DOMAIN tracker.phases = {<<"Dockerfile Parse">>}
                       /\ \A key : Durations(tracker, key) = <<>>
    /\ at = "execute" => /\ phase = "parsed"
                         /\ \E lookups \in Nat : /\ lookups + Len(left) = Len(insts) - Len(globals)
                                                 /\ Counted(tracker, lookups, 0)
    /\ at # "end" => result = "none" /\ Len(builds) < Max({n, 1})
    /\ result = "ok" => at = "end" /\ phase = "parsed" /\ Len(builds) = Max({n, 1})
    /\ n = 0 => /\ result # "ok" => builds = <<>>
                /\ result = "ok" => ReportOn(tracker, builds, Shape)
    /\ n # 0 => ReportOn(agg, builds, Shape)

\* A count is a number, and grows with the samples.
LEMMA CountsAre ==
    ASSUME NEW t, TrackerOK(t)
    PROVE  \A key : Count(t, key) \in Nat /\ Durations(t, key) \in Seq(0..MaxTime)
BY DurationsAre, LenProperties DEF Count

\* A sequence of trackers grows by one.
LEMMA SamplesGrow ==
    ASSUME NEW bs, bs \in Seq(Range(bs)), \A b \in DOMAIN bs : TrackerOK(bs[b]),
           NEW e, TrackerOK(e), NEW key
    PROVE  LET more == Append(bs, e)
               samples == FlattenSeq([b \in DOMAIN bs |-> Durations(bs[b], key)])
           IN  /\ samples \in Seq(0..MaxTime)
               /\ FlattenSeq([b \in DOMAIN more |-> Durations(more[b], key)])
                    = samples \o Durations(e, key)
<1> DEFINE k == Len(bs)
           more == Append(bs, e)
           f == [b \in 1..k |-> Durations(bs[b], key)]
           d == Durations(e, key)
           g == [b \in 1..(k + 1) |-> Durations(more[b], key)]
<1>1. /\ k \in Nat /\ DOMAIN bs = 1..k
      /\ DOMAIN more = 1..(k + 1) /\ more[k + 1] = e /\ \A b \in 1..k : more[b] = bs[b]
  <2>1. /\ more \in Seq(Range(more)) /\ Len(more) = k + 1 /\ k \in Nat
        /\ \A i \in 1..k : more[i] = bs[i]
        /\ more[k + 1] = e
    BY RangeAppend
  <2> HIDE DEF more
  <2> QED
    BY <2>1, LenProperties
<1> HIDE DEF k, more
<1>2. f \in Seq(Seq(0..MaxTime)) /\ d \in Seq(0..MaxTime)
  <2>1. \A b \in 1..k : Durations(bs[b], key) \in Seq(0..MaxTime)
    BY <1>1, DurationsAre
  <2>2. f \in [1..k -> Seq(0..MaxTime)]
    BY <2>1
  <2>3. d \in Seq(0..MaxTime)
    BY DurationsAre
  <2> HIDE DEF f, d
  <2> QED
    BY <1>1, <2>2, <2>3
<1>3. g = Append(f, d)
  <2>1. f = [i \in 1..k |-> f[i]]
    OBVIOUS
  <2> HIDE DEF f, d
  <2>2. Append(f, d) = [i \in 1..(k + 1) |-> IF i <= k THEN f[i] ELSE d]
    BY <1>1, <2>1, AppendIs
  <2>3. ASSUME NEW i \in 1..(k + 1)
        PROVE  Durations(more[i], key) = IF i <= k THEN f[i] ELSE d
    <3>1. CASE i \in 1..k
      BY <1>1, <3>1 DEF f
    <3>2. CASE i = k + 1
      BY <1>1, <3>2 DEF d
    <3> QED
      BY <1>1, <3>1, <3>2
  <2> QED
    BY <2>2, <2>3
<1>4. FlattenSeq(f) \in Seq(0..MaxTime) /\ FlattenSeq(Append(f, d)) = FlattenSeq(f) \o d
  <2> HIDE DEF f, d
  <2> QED
    BY <1>2, FlattenAppend
<1> QED
  BY <1>1, <1>3, <1>4 DEF more

\* No builds, no report.
LEMMA ReportStarts ==
    ASSUME NEW shape
    PROVE  ReportOn(NewTracker, <<>>, shape)
<1>1. <<>> \in Seq(Range(<<>>)) /\ DOMAIN <<>> = {} /\ Len(<<>>) = 0
  BY NoneOfAny
<1>2. ASSUME NEW key
      PROVE  FlattenSeq([b \in DOMAIN <<>> |-> Durations(<<>>[b], key)]) = <<>>
  <2>1. [b \in DOMAIN <<>> |-> Durations(<<>>[b], key)] = <<>>
    BY <1>1
  <2> QED
    BY <2>1 DEF FlattenSeq
<1>3. \A key : Durations(NewTracker, key) = <<>> /\ Count(NewTracker, key) = 0
  BY NewTrackerOK DEF Count
<1>4. \A total \in Nat : 0 * total = 0
  OBVIOUS
<1> QED
  BY <1>1, <1>2, <1>3, <1>4, NewTrackerOK DEF ReportOn

\* One build more is reported.
LEMMA ReportGrows ==
    ASSUME NEW shape, NEW t, NEW bs, ReportOn(t, bs, shape),
           NEW total \in Nat, Whole(shape, total), NEW e, Counted(e, total, 1),
           NEW u, TrackerOK(u), DOMAIN u.phases = DOMAIN t.phases \cup DOMAIN e.phases,
           \A key : Durations(u, key) = Durations(t, key) \o Durations(e, key)
    PROVE  ReportOn(u, Append(bs, e), shape)
<1> DEFINE k == Len(bs)
           more == Append(bs, e)
<1>1. /\ k \in Nat /\ DOMAIN bs = 1..k /\ more \in Seq(Range(more)) /\ Len(more) = k + 1
      /\ DOMAIN more = 1..(k + 1) /\ more[k + 1] = e /\ \A b \in 1..k : more[b] = bs[b]
  <2>1. /\ more \in Seq(Range(more)) /\ Len(more) = k + 1 /\ k \in Nat
        /\ \A i \in 1..k : more[i] = bs[i]
        /\ more[k + 1] = e /\ bs \in Seq(Range(bs))
    <3>1. bs \in Seq(Range(bs))
      BY DEF ReportOn
    <3> QED
      BY <3>1, RangeAppend
  <2> HIDE DEF more
  <2> QED
    BY <2>1, LenProperties
<1>2. TrackerOK(e) /\ TrackerOK(t)
  BY DEF Counted, ReportOn
<1>3. \A b \in DOMAIN more : TrackerOK(more[b])
  <2> HIDE DEF more, k
  <2>1. \A b \in 1..k : TrackerOK(bs[b])
    BY <1>1 DEF ReportOn
  <2>2. \A b \in 1..(k + 1) : b \in 1..k \/ b = k + 1
    BY <1>1
  <2> QED
    BY <1>1, <1>2, <2>1, <2>2
<1>4. DOMAIN u.phases = UNION {DOMAIN more[b].phases : b \in DOMAIN more}
  <2> HIDE DEF more, k
  <2>1. DOMAIN t.phases = UNION {DOMAIN bs[b].phases : b \in 1..k}
    BY <1>1 DEF ReportOn
  <2>2. 1..(k + 1) = 1..k \cup {k + 1}
    BY <1>1
  <2>3. {DOMAIN more[b].phases : b \in 1..(k + 1)}
          = {DOMAIN bs[b].phases : b \in 1..k} \cup {DOMAIN e.phases}
    BY <1>1, <2>2
  <2> QED
    BY <1>1, <2>1, <2>3
<1>5. ASSUME NEW key
      PROVE  Durations(u, key) = FlattenSeq([b \in DOMAIN more |-> Durations(more[b], key)])
  <2>1. Durations(t, key) = FlattenSeq([b \in DOMAIN bs |-> Durations(bs[b], key)])
    BY DEF ReportOn
  <2>2. bs \in Seq(Range(bs)) /\ \A b \in DOMAIN bs : TrackerOK(bs[b])
    BY DEF ReportOn
  <2>3. FlattenSeq([b \in DOMAIN more |-> Durations(more[b], key)])
          = FlattenSeq([b \in DOMAIN bs |-> Durations(bs[b], key)]) \o Durations(e, key)
    BY <1>2, <2>2, SamplesGrow
  <2> QED
    BY <2>1, <2>3
<1>6. ASSUME NEW key
      PROVE  /\ Count(t, key) \in Nat /\ Count(e, key) \in Nat
             /\ Count(u, key) = Count(t, key) + Count(e, key)
  <2>1. /\ Durations(t, key) \in Seq(0..MaxTime) /\ Durations(e, key) \in Seq(0..MaxTime)
        /\ Durations(u, key) = Durations(t, key) \o Durations(e, key)
    BY <1>2, CountsAre
  <2>2. Len(Durations(t, key) \o Durations(e, key)) = Len(Durations(t, key)) + Len(Durations(e, key))
    BY <2>1, ConcatProperties
  <2> QED
    BY <1>2, <2>1, <2>2, CountsAre DEF Count
<1>7. ASSUME NEW any \in Nat, Whole(shape, any)
      PROVE  Count(u, <<"Cache Lookup">>) = (k + 1) * any
  <2> DEFINE c == Count(t, <<"Cache Lookup">>)
             d == Count(e, <<"Cache Lookup">>)
  <2>1. c = k * any
    BY <1>7 DEF ReportOn
  <2>2. d = any
    <3>1. any = total
      BY <1>7, OneTotal
    <3> QED
      BY <3>1 DEF Counted
  <2>3. (k + 1) * any = k * any + any
    BY <1>1, OnceMore
  <2>4. Count(u, <<"Cache Lookup">>) = c + d
    BY <1>6
  <2> HIDE DEF c, d
  <2> QED
    BY <2>1, <2>2, <2>3, <2>4
<1>8. Count(u, <<"Dockerfile Parse">>) = k + 1 /\ Count(u, <<"OCI Export">>) = k + 1
  BY <1>6 DEF ReportOn, Counted
<1>9. \A key \in FilePhases : Count(u, key) = Count(u, <<"RootFS Prepare">>)
  BY <1>6 DEF ReportOn, Counted
<1>10. ASSUME NEW key \in DOMAIN u.phases
       PROVE  Count(u, key) # 0
  <2>1. Count(t, key) # 0 \/ Count(e, key) # 0
    BY DEF ReportOn, Counted
  <2> QED
    BY <1>6, <2>1
<1> QED
  BY <1>1, <1>3, <1>4, <1>5, <1>7, <1>8, <1>9, <1>10 DEF ReportOn

\* The report of one build is its own.
LEMMA ReportOfOne ==
    ASSUME NEW shape, NEW total \in Nat, Whole(shape, total), NEW e, Counted(e, total, 1)
    PROVE  ReportOn(e, Append(<<>>, e), shape)
<1> DEFINE t == NewTracker
           bs == <<>>
<1>1. ReportOn(t, bs, shape)
  BY ReportStarts
<1>2. TrackerOK(e) /\ DOMAIN e.phases = DOMAIN t.phases \cup DOMAIN e.phases
  BY NewTrackerOK DEF Counted
<1>3. \A key : Durations(e, key) = Durations(t, key) \o Durations(e, key)
  <2>1. ASSUME NEW key
        PROVE  Durations(e, key) = Durations(t, key) \o Durations(e, key)
    <3>1. Durations(t, key) = <<>> /\ Durations(e, key) \in Seq(0..MaxTime)
      BY <1>2, NewTrackerOK, CountsAre
    <3> QED
      BY <3>1, ConcatEmptySeq
  <2> QED
    BY <2>1
<1> HIDE DEF t, bs
<1>4. ReportOn(e, Append(bs, e), shape)
  BY <1>1, <1>2, <1>3, ReportGrows
<1> QED
  BY <1>4 DEF bs

\* The larger of -bench and 1.
LEMMA MaxWithOne ==
    ASSUME NEW m \in Nat
    PROVE  Max({m, 1}) = IF m = 0 THEN 1 ELSE m
BY DEF Max

\* What the steps of a build leave alone before its export.
LEMMA CountsStay ==
    ASSUME CountsOK, at # "end", Shape' = Shape, UNCHANGED <<n, agg, builds>>,
           result' # "ok", at' # "end" => result' = result,
           at' = "parse" => /\ DOMAIN tracker'.phases = {<<"Dockerfile Parse">>}
                            /\ \A key : Durations(tracker', key) = <<>>,
           at' = "execute" => /\ phase' = "parsed"
                              /\ \E lookups \in Nat :
                                    /\ lookups + Len(left') = Len(insts') - Len(globals')
                                    /\ Counted(tracker', lookups, 0)
    PROVE  CountsOK'
<1>1. result = "none" /\ Len(builds) < Max({n, 1})
  BY DEF CountsOK
<1>2. n = 0 => builds = <<>>
  BY <1>1 DEF CountsOK
<1>3. n' # 0 => ReportOn(agg', builds', Shape')
  BY DEF CountsOK
<1>4. at' # "end" => result' = "none" /\ Len(builds') < Max({n', 1})
  BY <1>1
<1> DEFINE shape == Shape
<1>5. n' # 0 => ReportOn(agg', builds', shape')
  BY <1>3
<1> HIDE DEF shape
<1> QED
  BY <1>2, <1>4, <1>5 DEF CountsOK, shape

\* A build begins to parse.
LEMMA StartKeepsCounts ==
    ASSUME CountsOK, MainOK, StartBuild, Shape' = Shape
    PROVE  CountsOK'
<1> DEFINE DP == <<"Dockerfile Parse">>
           new == NewTracker
<1>1. /\ at = "start" /\ at' = "parse" /\ tracker' = StartPhase(new, DP, 0)
      /\ UNCHANGED <<n, agg, builds, result>>
  BY DEF StartBuild
<1>2. DP \in Keys /\ <<DP[1]>> = DP
  BY SomeKeys
<1>3. TrackerOK(new) /\ DOMAIN new.phases = {} /\ \A k : Durations(new, k) = <<>>
  BY NewTrackerOK
<1> HIDE DEF new
<1>4. DOMAIN tracker'.phases = {DP} /\ \A key : Durations(tracker', key) = <<>>
  <2> HIDE DEF DP
  <2>1. <<DP[1]>> \in DOMAIN new.phases \cup {DP}
    BY <1>2
  <2>2. /\ DOMAIN StartPhase(new, DP, 0).phases = DOMAIN new.phases \cup {DP}
        /\ \A k : Durations(StartPhase(new, DP, 0), k) = Durations(new, k)
    BY <1>2, <1>3, <2>1, PhaseStarted
  <2> QED
    BY <1>1, <1>3, <2>2
<1>5. result' # "ok"
  BY <1>1 DEF CountsOK
<1> QED
  BY <1>1, <1>4, <1>5, CountsStay

\* A turn of the parser counts nothing.
LEMMA ParseKeepsCounts ==
    ASSUME CountsOK, ParseDockerfile, Shape' = Shape
    PROVE  CountsOK'
<1>1. at = "parse" /\ at' = "parse" /\ UNCHANGED <<n, tracker, agg, result, builds>>
  BY DEF ParseDockerfile, buildVars
<1>2. result' # "ok"
  BY <1>1 DEF CountsOK
<1>3. DOMAIN tracker'.phases = {<<"Dockerfile Parse">>} /\ \A key : Durations(tracker', key) = <<>>
  BY <1>1 DEF CountsOK
<1> QED
  BY <1>1, <1>2, <1>3, CountsStay

\* All instructions of all stages are to be looked up.
LEMMA ParsedKeepsCounts ==
    ASSUME CountsOK, MainOK, LexOK, Grouping, ReadOK, Parsed, Shape' = Shape
    PROVE  CountsOK'
<1> DEFINE DP == <<"Dockerfile Parse">>
           t == tracker
           u == tracker'
<1>1. /\ at = "parse" /\ phase = "parsed" /\ phase' = phase /\ at' = "execute"
      /\ tracker' = EndPhase(tracker, DP, 0) /\ left' = FlattenSeq(Parts)
      /\ UNCHANGED <<dockerfileVars, n, agg, builds, result>>
      /\ insts' = insts /\ globals' = globals
  BY DEF Parsed, Parts, dockerfileVars
<1>2. result' # "ok"
  BY <1>1 DEF CountsOK
<1>3. 0 + Len(left') = Len(insts') - Len(globals') /\ 0 \in Nat
  <2> DEFINE a == Len(insts) - Len(globals)
             b == Len(FlattenSeq(Parts))
  <2>1. b \in Nat /\ a = b
    BY <1>1, ParsedIsWhole
  <2>2. Len(left') = b /\ Len(insts') - Len(globals') = a
    BY <1>1
  <2> HIDE DEF a, b
  <2> QED
    BY <2>1, <2>2
<1>4. TrackerOK(t) /\ DOMAIN t.phases = {DP} /\ \A key : Durations(t, key) = <<>>
  BY <1>1 DEF MainOK, CountsOK
<1>5. Counted(u, 0, 0)
  <2>0. 0 \in 0..MaxTime
    BY SomeKeys
  <2>1. u = EndPhase(t, DP, 0)
    BY <1>1
  <2>2. /\ DP # <<"Cache Lookup">> /\ DP # <<"OCI Export">> /\ DP # <<"RootFS Prepare">>
        /\ \A key \in FilePhases : key # DP
    BY DEF FilePhases, SnapshotPhase, SubPhases
  <2> HIDE DEF t, u, DP
  <2>3. /\ TrackerOK(u) /\ DOMAIN u.phases = {DP}
        /\ \A k : Durations(u, k) = IF k = DP THEN Append(<<>>, 0) ELSE <<>>
    <3> DEFINE v == EndPhase(t, DP, 0)
    <3>1. /\ TrackerOK(v) /\ DOMAIN v.phases = DOMAIN t.phases
          /\ \A k : Durations(v, k) =
                      IF k = DP THEN Append(Durations(t, k), 0) ELSE Durations(t, k)
      <4>1. DP \in DOMAIN t.phases
        BY <1>4
      <4> QED
        BY <1>4, <2>0, <4>1, PhaseEnded
    <3> HIDE DEF v
    <3> QED
      BY <1>4, <2>1, <3>1 DEF v
  <2>4. \A k : Count(u, k) = IF k = DP THEN 1 ELSE 0
    BY <2>3 DEF Count
  <2>5. Count(u, DP) = 1 /\ Count(u, <<"Cache Lookup">>) = 0 /\ Count(u, <<"OCI Export">>) = 0
        /\ Count(u, <<"RootFS Prepare">>) = 0 /\ \A key \in FilePhases : Count(u, key) = 0
    BY <2>2, <2>4
  <2>6. \A key \in DOMAIN u.phases : Count(u, key) # 0
    BY <2>3, <2>4
  <2> QED
    BY <2>3, <2>5, <2>6 DEF Counted, DP
<1> QED
  BY <1>1, <1>2, <1>3, <1>5, CountsStay

\* One more is some.
LEMMA OneMoreIsSome == /\ \A c \in Nat : c + 1 # 0
                       /\ 0 + 1 = 1 /\ 1 # 0
OBVIOUS

\* u has one sample more of these phases than t
MoreCounts(t, u, keys) ==
    /\ DOMAIN u.phases = DOMAIN t.phases \cup keys
    /\ \A k \in keys : Count(u, k) = Count(t, k) + 1
    /\ \A k : k \notin keys => Count(u, k) = Count(t, k)

\* A phase that took place has one sample more.
LEMMA LongerCounts ==
    ASSUME NEW t, TrackerOK(t), NEW u, NEW keys, Longer(t, u, keys)
    PROVE  TrackerOK(u) /\ MoreCounts(t, u, keys)
<1>1. \A k : Len(Durations(t, k)) \in Nat
  BY CountsAre DEF Count
<1>2. ASSUME NEW k
      PROVE  /\ k \in keys => Count(u, k) = Count(t, k) + 1
             /\ k \notin keys => Count(u, k) = Count(t, k)
  <2> DEFINE x == Len(Durations(t, k))
             y == Len(Durations(u, k))
  <2>1. x \in Nat /\ y = x + IF k \in keys THEN 1 ELSE 0
    BY <1>1 DEF Longer
  <2> HIDE DEF x, y
  <2>2. CASE k \in keys
    BY <2>1, <2>2 DEF Count, x, y
  <2>3. CASE k \notin keys
    <3>1. y = x
      BY <2>1, <2>3
    <3> QED
      BY <2>3, <3>1 DEF Count, x, y
  <2> QED
    BY <2>2, <2>3
<1> QED
  BY <1>2 DEF Longer, MoreCounts

\* An instruction is looked up once, and its other phases take place once or not.
LEMMA CountedGrows ==
    ASSUME NEW t, NEW lookups \in Nat, Counted(t, lookups, 0), NEW u, NEW keys, Longer(t, u, keys),
           keys \in {{<<"Cache Lookup">>}, {<<"Cache Lookup">>} \cup FilePhases}
    PROVE  Counted(u, lookups + 1, 0)
<1> DEFINE DP == <<"Dockerfile Parse">>
           CL == <<"Cache Lookup">>
           OE == <<"OCI Export">>
           RP == <<"RootFS Prepare">>
<1>1. /\ DP \notin keys /\ OE \notin keys /\ CL \in keys /\ RP \in FilePhases
      /\ \A key \in FilePhases : key \in keys <=> RP \in keys
  <2>1. /\ RP \in FilePhases /\ DP \notin FilePhases /\ OE \notin FilePhases /\ CL \notin FilePhases
    BY DEF FilePhases, SnapshotPhase, SubPhases
  <2>2. DP # CL /\ OE # CL
    OBVIOUS
  <2> HIDE DEF DP, CL, OE, RP
  <2>3. keys = {CL} \/ keys = {CL} \cup FilePhases
    BY DEF CL
  <2> QED
    BY <2>1, <2>2, <2>3
<1> HIDE DEF DP, CL, OE, RP
<1>2. /\ TrackerOK(t) /\ Count(t, DP) = 1 /\ Count(t, CL) = lookups /\ Count(t, OE) = 0
      /\ \A key \in FilePhases : Count(t, key) = Count(t, RP)
      /\ \A key \in DOMAIN t.phases : Count(t, key) # 0
  BY DEF Counted, DP, CL, OE, RP
<1>3. TrackerOK(u) /\ MoreCounts(t, u, keys)
  BY <1>2, LongerCounts
<1>4. \A k : Count(t, k) \in Nat
  BY <1>2, CountsAre
<1>5. Count(u, DP) = 1 /\ Count(u, CL) = lookups + 1 /\ Count(u, OE) = 0
  BY <1>1, <1>2, <1>3 DEF MoreCounts
<1>6. ASSUME NEW key \in FilePhases
      PROVE  Count(u, key) = Count(u, RP)
  <2>1. CASE RP \in keys
    <3>1. Count(u, key) = Count(t, key) + 1 /\ Count(u, RP) = Count(t, RP) + 1
      BY <1>1, <1>3, <2>1 DEF MoreCounts
    <3> QED
      BY <1>2, <3>1
  <2>2. CASE RP \notin keys
    <3>1. Count(u, key) = Count(t, key) /\ Count(u, RP) = Count(t, RP)
      BY <1>1, <1>3, <2>2 DEF MoreCounts
    <3> QED
      BY <1>2, <3>1
  <2> QED
    BY <2>1, <2>2
<1>7. ASSUME NEW key \in DOMAIN u.phases
      PROVE  Count(u, key) # 0
  <2>1. CASE key \in keys
    <3> DEFINE c == Count(t, key)
               d == Count(u, key)
    <3>1. c \in Nat /\ d = c + 1
      BY <1>3, <1>4, <2>1 DEF MoreCounts
    <3> HIDE DEF c, d
    <3>2. d # 0
      BY <3>1, OneMoreIsSome, Zenon
    <3> QED
      BY <3>2 DEF d
  <2>2. CASE key \notin keys
    <3>1. key \in DOMAIN t.phases /\ Count(t, key) # 0 /\ Count(t, key) \in Nat
      BY <1>2, <1>3, <1>4, <2>2 DEF MoreCounts
    <3>2. Count(u, key) = Count(t, key)
      BY <1>3, <2>2 DEF MoreCounts
    <3> QED
      BY <3>1, <3>2
  <2> QED
    BY <2>1, <2>2
<1> QED
  BY <1>3, <1>5, <1>6, <1>7 DEF Counted, DP, CL, OE, RP

\* The export takes place once.
LEMMA ExportCounted ==
    ASSUME NEW t, NEW lookups \in Nat, Counted(t, lookups, 0), NEW u,
           Longer(t, u, {<<"OCI Export">>})
    PROVE  Counted(u, lookups, 1)
<1> DEFINE DP == <<"Dockerfile Parse">>
           CL == <<"Cache Lookup">>
           OE == <<"OCI Export">>
           RP == <<"RootFS Prepare">>
<1>1. DP # OE /\ CL # OE /\ RP \in FilePhases /\ OE \notin FilePhases
  <2>1. DP # OE /\ CL # OE
    OBVIOUS
  <2>2. RP \in FilePhases /\ OE \notin FilePhases
    BY DEF FilePhases, SnapshotPhase, SubPhases
  <2> QED
    BY <2>1, <2>2
<1> HIDE DEF DP, CL, OE, RP
<1>2. /\ TrackerOK(t) /\ Count(t, DP) = 1 /\ Count(t, CL) = lookups /\ Count(t, OE) = 0
      /\ \A key \in FilePhases : Count(t, key) = Count(t, RP)
      /\ \A key \in DOMAIN t.phases : Count(t, key) # 0
  BY DEF Counted, DP, CL, OE, RP
<1>3. TrackerOK(u) /\ MoreCounts(t, u, {OE})
  BY <1>2, LongerCounts DEF OE
<1>4. Count(u, DP) = 1 /\ Count(u, CL) = lookups /\ Count(u, OE) = 1
  <2>1. Count(u, DP) = Count(t, DP) /\ Count(u, CL) = Count(t, CL)
    BY <1>1, <1>3 DEF MoreCounts
  <2>2. Count(u, OE) = Count(t, OE) + 1
    BY <1>3 DEF MoreCounts
  <2>3. Count(u, OE) = 1
    BY <1>2, <2>2, OneMoreIsSome, Zenon
  <2> QED
    BY <1>2, <2>1, <2>3, Zenon
<1>5. \A key \in FilePhases : Count(u, key) = Count(u, RP)
  BY <1>1, <1>2, <1>3 DEF MoreCounts
<1>6. ASSUME NEW key \in DOMAIN u.phases
      PROVE  Count(u, key) # 0
  <2>1. CASE key = OE
    <3>1. Count(u, OE) # 0
      BY <1>4, OneMoreIsSome, Zenon
    <3> QED
      BY <2>1, <3>1
  <2>2. CASE key # OE
    <3>1. Count(u, key) = Count(t, key) /\ key \in DOMAIN t.phases
      BY <1>3, <2>2 DEF MoreCounts
    <3> QED
      BY <1>2, <3>1
  <2> QED
    BY <2>1, <2>2
<1> QED
  BY <1>3, <1>4, <1>5, <1>6 DEF Counted, DP, CL, OE, RP

\* An instruction is executed.
LEMMA ExecuteKeepsCounts ==
    ASSUME CountsOK, MainOK, LookupOnly \/ FilesystemInstruction, Shape' = Shape
    PROVE  CountsOK'
<1>1. PICK after, keys : /\ Execute(after) /\ Longer(tracker, after, keys)
                         /\ keys \in {{<<"Cache Lookup">>}, {<<"Cache Lookup">>} \cup FilePhases}
  BY ExecutesAre
<1>2. /\ at = "execute" /\ at' = "execute" /\ left # <<>> /\ tracker' = after
      /\ left' = Tail(left) /\ UNCHANGED <<n, agg, builds, result>>
      /\ insts' = insts /\ globals' = globals /\ phase' = phase
  BY <1>1 DEF Execute, dockerfileVars
<1>3. result' # "ok" /\ phase' = "parsed"
  BY <1>2 DEF CountsOK
<1>4. PICK lookups \in Nat : /\ lookups + Len(left) = Len(insts) - Len(globals)
                             /\ Counted(tracker, lookups, 0)
  BY <1>2 DEF CountsOK
<1>5. Counted(tracker', lookups + 1, 0)
  <2> DEFINE t == tracker
  <2>1. Counted(t, lookups, 0) /\ Longer(t, after, keys)
    BY <1>1, <1>4
  <2> HIDE DEF t
  <2>2. Counted(after, lookups + 1, 0)
    BY <1>1, <2>1, CountedGrows
  <2> QED
    BY <1>2, <2>2
<1>6. lookups + 1 \in Nat /\ (lookups + 1) + Len(left') = Len(insts') - Len(globals')
  <2>1. left \in Seq(Range(insts)) /\ left # <<>>
    BY <1>2 DEF MainOK
  <2>2. Len(Tail(left)) = Len(left) - 1 /\ Len(left) \in Nat
    BY <2>1, HeadTailProperties, LenProperties
  <2> DEFINE a == Len(left)
             b == Len(insts) - Len(globals)
  <2>3. lookups + a = b /\ a \in Nat /\ Len(left') = a - 1 /\ Len(insts') - Len(globals') = b
    BY <1>2, <1>4, <2>2
  <2> HIDE DEF a, b
  <2> QED
    BY <2>3
<1> QED
  BY <1>2, <1>3, <1>5, <1>6, CountsStay

\* An image is exported: one build more, or the last.
LEMMA ExportKeepsCounts ==
    ASSUME CountsOK, MainOK, LexOK, Grouping, ReadOK, Export, Shape' = Shape
    PROVE  CountsOK'
<1> DEFINE OE == <<"OCI Export">>
           e  == tracker'
           sh == Shape
           total == Len(insts) - Len(globals)
           k == Len(builds)
<1>1. /\ Longer(tracker, tracker', {OE}) /\ at = "execute" /\ left = <<>>
      /\ agg' = IF n = 0 THEN agg ELSE Merge(agg, tracker')
      /\ builds' = Append(builds, tracker')
      /\ \/ Len(builds') < n /\ at' = "start" /\ result' = result
         \/ ~(Len(builds') < n) /\ at' = "end" /\ result' = "ok"
      /\ UNCHANGED <<dockerfileVars, n, left>>
  BY ExportIs
<1>2. phase = "parsed" /\ phase' = phase /\ n' = n /\ result = "none" /\ k < Max({n, 1})
  BY <1>1 DEF CountsOK, dockerfileVars
<1>3. total \in Nat /\ Whole(sh, total)
  <2>1. Whole(sh, total) /\ total = Len(FlattenSeq(Parts)) /\ Len(FlattenSeq(Parts)) \in Nat
    BY <1>2, ParsedIsWhole
  <2> HIDE DEF total, sh
  <2> QED
    BY <2>1
<1>4. Counted(tracker, total, 0)
  <2>1. PICK lookups \in Nat : lookups + Len(left) = total /\ Counted(tracker, lookups, 0)
    BY <1>1 DEF CountsOK
  <2>2. Len(left) = 0
    BY <1>1
  <2> HIDE DEF total
  <2>3. lookups = total
    BY <2>1, <2>2
  <2> QED
    BY <2>1, <2>3
<1>5. Counted(e, total, 1)
  <2> DEFINE t == tracker
  <2>1. Counted(t, total, 0) /\ Longer(t, e, {OE})
    BY <1>1, <1>4
  <2> HIDE DEF t, e, total
  <2> QED
    BY <1>3, <2>1, ExportCounted
<1>6. n \in Nat
  BY BenchConstants DEF MainOK
<1>7. /\ k \in Nat /\ Len(builds') = k + 1 /\ Len(builds) = k
      /\ n = 0 => builds = <<>>
  <2>1. n = 0 => builds = <<>>
    BY <1>2 DEF CountsOK
  <2>2. builds \in Seq(Range(builds))
    <3>1. CASE n = 0
      BY <2>1, <3>1, NoneOfAny
    <3>2. CASE n # 0
      BY <3>2 DEF CountsOK, ReportOn
    <3> QED
      BY <3>1, <3>2
  <2>3. Len(Append(builds, e)) = Len(builds) + 1 /\ Len(builds) \in Nat
    BY <2>2, RangeAppend
  <2> QED
    BY <1>1, <2>1, <2>3
<1> HIDE DEF k, total
<1>8. k < (IF n = 0 THEN 1 ELSE n) /\ Max({n, 1}) = (IF n = 0 THEN 1 ELSE n)
  BY <1>2, <1>6, MaxWithOne
<1>9. CASE n = 0
  <2>1. ReportOn(e, Append(<<>>, e), sh)
    <3> HIDE DEF e, sh
    <3> QED
      BY <1>3, <1>5, ReportOfOne
  <2>2. builds' = Append(<<>>, e)
    BY <1>1, <1>7, <1>9
  <2>3. ReportOn(tracker', builds', Shape')
    BY <2>1, <2>2
  <2>4. k + 1 = 1 /\ ~(k + 1 < n)
    BY <1>6, <1>7, <1>8, <1>9
  <2>5. at' = "end" /\ result' = "ok" /\ Len(builds') = 1 /\ Max({n', 1}) = 1
    BY <1>1, <1>2, <1>7, <1>8, <1>9, <2>4
  <2> HIDE DEF e, sh
  <2> QED
    BY <1>2, <1>9, <2>3, <2>5 DEF CountsOK
<1>10. CASE n # 0
  <2> DEFINE a == agg
             u == Merge(a, e)
  <2>1. ReportOn(a, builds, sh) /\ TrackerOK(a) /\ TrackerOK(e)
    BY <1>5, <1>10 DEF CountsOK, ReportOn, Counted
  <2> DEFINE bs == builds
  <2>2. ReportOn(u, Append(bs, e), sh)
    <3>1. ReportOn(a, bs, sh)
      BY <2>1
    <3> HIDE DEF bs, sh, a, e
    <3>2. /\ TrackerOK(u) /\ DOMAIN u.phases = DOMAIN a.phases \cup DOMAIN e.phases
          /\ \A key : Durations(u, key) = Durations(a, key) \o Durations(e, key)
      BY <2>1, MergeIs
    <3> HIDE DEF u
    <3> QED
      BY <1>3, <1>5, <3>1, <3>2, ReportGrows
  <2>3. ReportOn(agg', builds', Shape')
    <3>1. agg' = u /\ builds' = Append(bs, e) /\ Shape' = sh
      BY <1>1, <1>10
    <3> HIDE DEF u, bs, sh, e
    <3> QED
      BY <2>2, <3>1
  <2>4. k < n /\ Max({n', 1}) = n /\ Len(builds') = k + 1
    BY <1>2, <1>7, <1>8, <1>10
  <2>5. at' # "end" => result' = "none" /\ Len(builds') < Max({n', 1})
    BY <1>1, <1>2, <2>4
  <2>6. result' = "ok" => at' = "end" /\ Len(builds') = Max({n', 1})
    <3>1. result' # "ok" \/ (at' = "end" /\ ~(Len(builds') < n))
      BY <1>1, <1>2
    <3>2. ~(k + 1 < n) => k + 1 = n
      BY <1>6, <1>7, <2>4
    <3> QED
      BY <2>4, <3>1, <3>2
  <2>7. at' # "parse" /\ at' # "execute" /\ phase' = "parsed"
    BY <1>1, <1>2
  <2> HIDE DEF e, sh, u, a, bs
  <2> QED
    BY <1>2, <1>10, <2>3, <2>5, <2>6, <2>7 DEF CountsOK
<1> QED
  BY <1>9, <1>10

\* Every step.
LEMMA StepKeepsCounts ==
    ASSUME LexOK, ParseOK, Grouping, MainOK, ReadOK, CountsOK, [Next]_allVars
    PROVE  CountsOK'
<1>1. Shape' = Shape
  BY StepKeepsRead
<1>2. CASE Fail
  <2>1. /\ at # "end" /\ at' = "end" /\ result' = "error" /\ UNCHANGED <<n, agg, builds>>
    BY <1>2 DEF Fail
  <2> QED
    BY <1>1, <2>1, CountsStay
<1>3. CASE UNCHANGED vars
  <2>1. /\ UNCHANGED <<n, at, left, tracker, agg, result, builds>>
        /\ UNCHANGED <<insts, globals, phase>>
    BY <1>3 DEF vars, buildVars, dockerfileVars
  <2> QED
    BY <1>1, <2>1 DEF CountsOK
<1> QED
  BY <1>1, <1>2, <1>3, StartKeepsCounts, ParseKeepsCounts, ParsedKeepsCounts,
     ExecuteKeepsCounts, ExportKeepsCounts
  DEF Next, Main, allVars

\* Counting starts.
LEMMA StartsCounts ==
    ASSUME FrontendInit
    PROVE  CountsOK
<1>1. CASE Init
  <2>1. at = "start" /\ result = "none" /\ builds = <<>> /\ agg = NewTracker /\ n \in Nat
    BY <1>1, BenchConstants DEF Init
  <2>2. Len(builds) < Max({n, 1})
    <3>1. Max({n, 1}) = (IF n = 0 THEN 1 ELSE n)
      BY <2>1, MaxWithOne
    <3>2. Len(builds) = 0
      BY <2>1
    <3> QED
      BY <2>1, <3>1, <3>2
  <2>3. ReportOn(agg, builds, Shape)
    BY <2>1, ReportStarts
  <2> QED
    BY <2>1, <2>2, <2>3 DEF CountsOK
<1>2. CASE NoBuild
  BY <1>2 DEF NoBuild, CountsOK
<1> QED
  BY <1>1, <1>2 DEF FrontendInit

\* What is reported.
LEMMA ReportedIs ==
    ASSUME NEW t, NEW bs, NEW shape, ReportOn(t, bs, shape)
    PROVE  /\ DOMAIN Rows(t) = UNION {DOMAIN bs[b].phases : b \in DOMAIN bs}
           /\ \A key \in DOMAIN Rows(t) :
                /\ Rows(t)[key].times = 1
                /\ RightStats(Rows(t)[key].stats, Durations(t, key))
<1> DEFINE D == DOMAIN t.phases
           rows == Rows(t)
           both == {k \in BagToSet(t.order) : Sampled(t, k) /\ Sampled(t, <<k[1]>>)}
<1>1. TrackerOK(t) /\ \A key \in D : Count(t, key) # 0
  BY DEF ReportOn
<1>2. BagToSet(t.order) = D /\ \A key \in D : t.order[key] = 1
  BY <1>1 DEF TrackerOK, BagToSet
<1>3. ASSUME NEW key \in D
      PROVE  Sampled(t, key) /\ Durations(t, key) \in Seq(Nat) /\ <<key[1]>> \in D
  <2>1. Durations(t, key) \in Seq(0..MaxTime) /\ Len(Durations(t, key)) # 0
    BY <1>1, CountsAre DEF Count
  <2>2. Durations(t, key) # <<>>
    BY <2>1
  <2>3. Durations(t, key) \in Seq(Nat)
    <3> DEFINE d == Durations(t, key)
    <3>1. d \in Seq(0..MaxTime)
      BY <2>1
    <3> HIDE DEF d
    <3>2. \A i \in 1..Len(d) : d[i] \in Nat
      BY <3>1, BenchConstants
    <3>3. d \in Seq(Nat)
      BY <3>1, <3>2
    <3> QED
      BY <3>3 DEF d
  <2> QED
    BY <1>1, <2>2, <2>3 DEF Sampled, TrackerOK
<1>4. both = D
  BY <1>2, <1>3
<1>5. rows = [key \in both |->
                [times |-> t.order[key], stats |-> ComputeStats(Durations(t, key))]]
  BY DEF Rows
<1> HIDE DEF rows, both
<1>6. DOMAIN rows = D /\ \A key \in D : /\ rows[key].times = 1
                                        /\ rows[key].stats = ComputeStats(Durations(t, key))
  BY <1>2, <1>4, <1>5
<1>7. \A key \in D : RightStats(rows[key].stats, Durations(t, key))
  BY <1>3, <1>6, StatsAreRight DEF Sampled
<1>8. D = UNION {DOMAIN bs[b].phases : b \in DOMAIN bs}
  BY DEF ReportOn
<1> QED
  BY <1>6, <1>7, <1>8 DEF rows

\* The invariants of the parts make the report right.
LEMMA CountsAreReported ==
    ASSUME LexOK, Grouping, ReadOK, CountsOK
    PROVE  BenchReports
<1> DEFINE t == Reported
           rows == Rows(t)
           bs == builds
           sh == Shape
           total == Len(insts) - Len(globals)
           len == Len(bs)
<1>1. SUFFICES ASSUME result = "ok" PROVE BenchReports
  BY DEF BenchReports
<1>2. phase = "parsed" /\ len = Max({n, 1}) /\ ReportOn(t, bs, sh)
  BY <1>1 DEF CountsOK, Reported
<1>3. Whole(sh, total) /\ total \in Nat
  <2>1. Whole(sh, total) /\ total = Len(FlattenSeq(Parts)) /\ Len(FlattenSeq(Parts)) \in Nat
    BY <1>2, ParsedIsWhole
  <2> HIDE DEF total, sh
  <2> QED
    BY <2>1
<1>4. /\ DOMAIN rows = UNION {DOMAIN bs[b].phases : b \in DOMAIN bs}
      /\ \A key \in DOMAIN rows : /\ rows[key].times = 1
                                  /\ RightStats(rows[key].stats, Durations(t, key))
  <2> HIDE DEF t, bs, sh
  <2> QED
    BY <1>2, ReportedIs
<1>5. \A key : Durations(t, key) = Samples_(key)
  <2>1. \A key : Durations(t, key) = FlattenSeq([b \in DOMAIN bs |-> Durations(bs[b], key)])
    <3> HIDE DEF t, bs, sh
    <3> QED
      BY <1>2 DEF ReportOn
  <2> HIDE DEF t
  <2> QED
    BY <2>1 DEF Samples_
<1>6. /\ Len(Durations(t, <<"Dockerfile Parse">>)) = len
      /\ Len(Durations(t, <<"OCI Export">>)) = len
      /\ Len(Durations(t, <<"Cache Lookup">>)) = len * total
      /\ \A key \in FilePhases : Len(Durations(t, key)) = Len(Durations(t, <<"RootFS Prepare">>))
  <2> HIDE DEF t, bs, sh, total
  <2> QED
    BY <1>2, <1>3 DEF ReportOn, Count, len
<1>7. \A key \in DOMAIN rows :
         key \notin {<<"Dockerfile Parse">>, <<"OCI Export">>, <<"Cache Lookup">>} =>
            key \in FilePhases
  <2>1. DOMAIN rows = DOMAIN t.phases
    BY <1>2, <1>4 DEF ReportOn
  <2>2. DOMAIN t.phases \subseteq Keys
    BY <1>2 DEF ReportOn, TrackerOK
  <2> HIDE DEF t, rows
  <2> QED
    BY <2>1, <2>2 DEF Keys
<1> HIDE DEF t, rows, bs, sh, total, len
<1> QED
  BY <1>2, <1>4, <1>5, <1>6, <1>7 DEF BenchReports, t, rows, bs, total, len

\* Whatever the Dockerfile, the number of builds and the times their
\* instructions take, a report has one row for every phase of any build with the
\* samples of all builds in their order; each instruction of each stage was
\* looked up once per build; and each statistic is a sample at its rank.
\* (BenchRun's merge, StartPhase, EndPhase, computeStats, percentile.)
THEOREM BenchmarkReports == FrontendSpec => []BenchReports
<1> DEFINE IInv == LexOK /\ ParseOK /\ Grouping /\ MainOK /\ ReadOK /\ CountsOK
<1>1. FrontendInit => IInv
  BY StartsOK, StartsMain, NothingGrouped, StartsReading, StartsCounts
<1>2. IInv /\ [Next]_allVars => IInv'
  BY StepKeepsOK, StepKeepsGrouping, StepKeepsMain, StepKeepsRead, StepKeepsCounts
<1>3. IInv => BenchReports
  BY CountsAreReported
<1> QED
  BY <1>1, <1>2, <1>3, PTL DEF FrontendSpec

-----------------------------------------------------------------------------
(* What is listed in the order of its positions.                           *)

\* u lists the numbers in D in their order
Enumerates(u, m, D) ==
    /\ m \in Nat /\ u \in [1..m -> D] /\ D = {u[k] : k \in 1..m}
    /\ \A k, l \in 1..m : k < l => u[k] < u[l]

\* A list of numbers gets a larger one.
LEMMA EnumeratesMore ==
    ASSUME NEW u, NEW m, NEW D, Enumerates(u, m, D), NEW x, \A d \in D : d < x
    PROVE  Enumerates([k \in 1..(m + 1) |-> IF k \in 1..m THEN u[k] ELSE x], m + 1, D \cup {x})
<1> DEFINE v == [k \in 1..(m + 1) |-> IF k \in 1..m THEN u[k] ELSE x]
           E == D \cup {x}
<1>1. m \in Nat /\ m + 1 \in Nat /\ 1..(m + 1) = (1..m) \cup {m + 1} /\ m + 1 \notin 1..m
  BY DEF Enumerates
<1>2. /\ DOMAIN v = 1..(m + 1) /\ \A k \in 1..m : v[k] = u[k] /\ u[k] \in D
      /\ v[m + 1] = x
  BY <1>1 DEF Enumerates
<1>3. v \in [1..(m + 1) -> E]
  BY <1>1, <1>2
<1> HIDE DEF v
<1>4. E = {v[k] : k \in 1..(m + 1)}
  <2>1. D = {u[k] : k \in 1..m}
    BY DEF Enumerates
  <2> QED
    BY <1>1, <1>2, <2>1
<1>5. ASSUME NEW k \in 1..(m + 1), NEW l \in 1..(m + 1), k < l
      PROVE  v[k] < v[l]
  <2>1. k \in 1..m
    BY <1>1, <1>5
  <2>2. CASE l \in 1..m
    BY <1>2, <1>5, <2>1, <2>2 DEF Enumerates
  <2>3. CASE l = m + 1
    BY <1>2, <2>1, <2>3
  <2> QED
    BY <1>1, <2>2, <2>3
<1> QED
  BY <1>1, <1>3, <1>4, <1>5 DEF Enumerates, v

\* Some of the first numbers can be listed.
LEMMA EnumerationExists ==
    ASSUME NEW top \in Nat, NEW D, D \subseteq 1..top
    PROVE  \E m, u : Enumerates(u, m, D)
<1> DEFINE P == {s \in SUBSET D : \E m, u : Enumerates(u, m, s)}
<1>1. {} \in P
  <2>1. Enumerates([k \in 1..0 |-> 0], 0, {})
    BY DEF Enumerates
  <2> QED
    BY <2>1
<1>2. ASSUME NEW s \in SUBSET D, s # {}, s \ {Max(s)} \in P
      PROVE  s \in P
  <2> DEFINE x == Max(s)
             r == s \ {x}
  <2>1. x \in s /\ \A i \in s : i <= x /\ i \in Nat
    <3>1. s \subseteq 1..top /\ s # {}
      BY <1>2
    <3>2. x \in s /\ \A i \in s : i <= x
      BY <3>1, EndsExist
    <3> HIDE DEF x
    <3> QED
      BY <3>1, <3>2
  <2> HIDE DEF x
  <2>2. r \in SUBSET D /\ s = r \cup {x} /\ \A i \in r : i < x
    BY <2>1
  <2>3. PICK m, u : Enumerates(u, m, r)
    BY <1>2 DEF x
  <2> HIDE DEF r
  <2>4. \E l, v : Enumerates(v, l, r \cup {x})
    BY <2>2, <2>3, EnumeratesMore
  <2> QED
    BY <2>2, <2>4
<1>3. D \in P
  <2>1. D \in SUBSET D /\ \A s \in SUBSET D : s # {} /\ s \ {Max(s)} \in P => s \in P
    BY <1>2
  <2> HIDE DEF P
  <2> QED
    BY <1>1, <2>1, MaxInduction
<1> QED
  BY <1>3

\* InOrder gives what a function gives on a list of its positions.
LEMMA OrderListed ==
    ASSUME NEW f, NEW top, NEW V, OnPositions(f, top, V),
           NEW u, NEW m, Enumerates(u, m, DOMAIN f)
    PROVE  /\ InOrder(f) \in Seq(V) /\ Len(InOrder(f)) = m /\ m \in Nat
           /\ DOMAIN InOrder(f) = 1..m
           /\ \A k \in 1..m : InOrder(f)[k] = f[u[k]] /\ u[k] \in DOMAIN f /\ f[u[k]] \in V
<1> DEFINE first(k) == {u[j] : j \in 1..k}
           it(k)    == InOrder(Restrict(f, first(k)))
           listed(k) == /\ it(k) \in Seq(V) /\ Len(it(k)) = k
                        /\ \A j \in 1..k : it(k)[j] = f[u[j]]
           T == {k \in Nat \ {0} : k <= m + 1 => listed(k - 1)}
<1>1. /\ m \in Nat /\ u \in [1..m -> DOMAIN f] /\ DOMAIN f = first(m)
      /\ \A k, l \in 1..m : k < l => u[k] < u[l]
  BY DEF Enumerates
<1>2. /\ \A k \in 1..m : u[k] \in DOMAIN f /\ f[u[k]] \in V
      /\ Restrict(f, DOMAIN f) = f
  BY <1>1 DEF OnPositions, Restrict
<1>3. 1 \in T
  <2>1. listed(0)
    <3>1. DOMAIN Restrict(f, first(0)) = {}
      BY DEF Restrict
    <3>2. it(0) = <<>>
      BY <3>1, OrderNothing
    <3> HIDE DEF it
    <3>3. <<>> \in Seq(V) /\ Len(<<>>) = 0 /\ 1..0 = {}
      OBVIOUS
    <3> QED
      BY <3>2, <3>3
  <2> HIDE DEF listed
  <2> QED
    BY <2>1
<1>4. ASSUME NEW k \in Nat \ {0}, k \in T
      PROVE  k + 1 \in T
  <2>1. SUFFICES ASSUME k <= m
                 PROVE  listed(k)
    <3> HIDE DEF listed
    <3>1. (k + 1) - 1 = k /\ k + 1 \in Nat \ {0} /\ (k + 1 <= m + 1 => k <= m)
      BY <1>1
    <3> QED
      BY <2>1, <3>1
  <2>2. listed(k - 1) /\ k \in 1..m /\ k - 1 \in Nat
    <3> HIDE DEF listed
    <3>1. k <= m + 1 /\ k \in 1..m /\ k - 1 \in Nat
      BY <1>1, <2>1
    <3> QED
      BY <1>4, <3>1
  <2>3. first(k) = first(k - 1) \cup {u[k]}
    <3>1. 1..k = (1..(k - 1)) \cup {k}
      BY <2>2
    <3> QED
      BY <3>1
  <2>4. first(k - 1) \in SUBSET DOMAIN f /\ \A i \in first(k - 1) : i < u[k]
    <3>1. \A j \in 1..(k - 1) : j \in 1..m /\ j < k
      BY <1>1, <2>2
    <3>2. \A j \in 1..(k - 1) : u[j] \in DOMAIN f /\ u[j] < u[k]
      BY <1>1, <2>2, <3>1
    <3> QED
      BY <3>2
  <2>5. it(k) = Append(it(k - 1), f[u[k]])
    <3> DEFINE s == first(k - 1)
               x == u[k]
    <3>1. s \in SUBSET DOMAIN f /\ x \in DOMAIN f /\ \A i \in s : i < x
      BY <1>2, <2>2, <2>4
    <3> HIDE DEF s, x
    <3>2. InOrder(Restrict(f, s \cup {x})) = Append(InOrder(Restrict(f, s)), f[x])
      BY <3>1, OrderGrows
    <3> QED
      BY <2>3, <3>2 DEF s, x
  <2> HIDE DEF it
  <2>6. /\ it(k) \in Seq(V) /\ Len(it(k)) = (k - 1) + 1
        /\ \A j \in 1..(k - 1) : it(k)[j] = it(k - 1)[j]
        /\ it(k)[(k - 1) + 1] = f[u[k]]
    BY <1>2, <2>2, <2>5, AppendProperties
  <2>7. 1..k = (1..(k - 1)) \cup {k} /\ (k - 1) + 1 = k
    BY <2>2
  <2> QED
    BY <2>2, <2>6, <2>7
<1>5. listed(m)
  <2>1. m + 1 \in Nat \ {0} /\ (m + 1) - 1 = m
    BY <1>1
  <2>2. m + 1 \in T
    <3>1. \A k \in Nat \ {0} : k \in T => k + 1 \in T
      BY <1>4
    <3> HIDE DEF T
    <3> QED
      BY <1>3, <2>1, <3>1, SetInduction
  <2> HIDE DEF listed
  <2> QED
    BY <2>1, <2>2
<1>6. it(m) = InOrder(f)
  BY <1>1, <1>2
<1> HIDE DEF it
<1>7. DOMAIN InOrder(f) = 1..m
  BY <1>1, <1>5, <1>6, LenProperties
<1> QED
  BY <1>1, <1>2, <1>5, <1>6, <1>7

-----------------------------------------------------------------------------
(* A text, as its positions say it, and the blanks in it.                  *)

\* what Written says, with the text as a parameter
Has(t, i, chars) == i \in DOMAIN t /\ t[i] \in chars
JoinsIn(t, i) ==
    /\ Has(t, i, {"bs"})
    /\ \/ Has(t, i + 1, {"nl"})
       \/ Has(t, i + 1, {"cr"}) /\ Has(t, i + 2, {"nl"})
SimpleText(t) == /\ Range(t) \cap {"quote", "lb", "rb", "dash"} = {}
                 /\ \A i \in DOMAIN t : Has(t, i, {"cr"}) => Has(t, i + 1, {"nl"})

Comments(t) == {i \in DOMAIN t : \E j \in 1..i :
                  /\ Has(t, j, {"hash"}) /\ (j = 1 \/ Has(t, j - 1, {"sp", "nl"}))
                  /\ \A k \in j..i : ~Has(t, k, {"nl"})}
Hides(t)  == {i \in DOMAIN t : JoinsIn(t, i)} \ Comments(t)
Gaps(t)   == {i \in DOMAIN t : Has(t, i, {"sp", "nl", "cr"})} \cup Comments(t) \cup Hides(t)
Breaks(t) == {i \in DOMAIN t : /\ Has(t, i, {"nl"}) /\ i - 1 \notin Hides(t)
                               /\ ~(Has(t, i - 1, {"cr"}) /\ i - 2 \in Hides(t))}
Starts(t) == {i \in DOMAIN t \ Gaps(t) : i = 1 \/ i - 1 \in Gaps(t)}
WordAt(t, i) == SubSeq(t, i, Min({j \in Gaps(t) : j > i} \cup {Len(t) + 1}) - 1)
Above(t, i) == {j \in Breaks(t) : j < i}
Heads(t) == {i \in Starts(t) : \A j \in Starts(t) : j < i => Above(t, j) # Above(t, i)}

\* the line breaks from a to b
Newlines(t, a, b) == Cardinality({i \in a..b : Has(t, i, {"nl"})})
StartsOn(t, h) == {j \in Starts(t) : Above(t, j) = Above(t, h)}
LineAt(t, h) == [line |-> 1 + Newlines(t, 1, h),
                 words |-> InOrder([i \in StartsOn(t, h) |-> WordAt(t, i)])]
LinesOf(t) == InOrder([h \in Heads(t) |-> LineAt(t, h)])

\* Written is about the text.
LEMMA WrittenIs == Written = LinesOf(text) /\ (Simple <=> SimpleText(text))
<1>1. Simple <=> SimpleText(text)
  BY DEF Simple, SimpleText, Is, Has
<1>2. Written = LinesOf(text)
  BY DEF Written, LinesOf, LineAt, StartsOn, Newlines, Heads, Above, WordAt, Starts, Breaks,
         Gaps, Hides, Comments, JoinsIn, Has, CountIn, Slice, Joins, Is
<1> QED
  BY <1>1, <1>2

\* a comment can begin here
Opens(t, i) == Has(t, i, {"hash"}) /\ (i = 1 \/ Has(t, i - 1, {"sp", "nl"}))

\* A comment begins where it can, and goes on up to the end of its line.
LEMMA CommentsAre ==
    ASSUME NEW len, TextIs(len), NEW i \in 1..len
    PROVE  /\ i \in Comments(text) => ~Has(text, i, {"nl"})
           /\ Opens(text, i) => i \in Comments(text)
           /\ i \in Comments(text) => Opens(text, i) \/ i - 1 \in Comments(text)
           /\ i - 1 \in Comments(text) /\ ~Has(text, i, {"nl"}) => i \in Comments(text)
<1>0. len \in Nat /\ DOMAIN text = 1..len
  BY DEF TextIs
<1>1. ASSUME i \in Comments(text)
      PROVE  ~Has(text, i, {"nl"}) /\ (Opens(text, i) \/ i - 1 \in Comments(text))
  <2>1. PICK j \in 1..i : Opens(text, j) /\ \A k \in j..i : ~Has(text, k, {"nl"})
    BY <1>1 DEF Comments, Opens
  <2>2. ~Has(text, i, {"nl"})
    BY <2>1
  <2>3. CASE j = i
    BY <2>1, <2>2, <2>3
  <2>4. CASE j # i
    <3>1. i - 1 \in DOMAIN text /\ j \in 1..(i - 1) /\ \A k \in j..(i - 1) : k \in j..i
      BY <1>0, <2>4
    <3>2. i - 1 \in Comments(text)
      BY <2>1, <3>1 DEF Comments, Opens
    <3> QED
      BY <2>2, <3>2
  <2> QED
    BY <2>3, <2>4
<1>2. ASSUME Opens(text, i)
      PROVE  i \in Comments(text)
  <2>1. i \in 1..i /\ i \in DOMAIN text /\ \A k \in i..i : k = i
    BY <1>0
  <2>2. ~Has(text, i, {"nl"})
    BY <1>2 DEF Opens, Has
  <2> QED
    BY <1>2, <2>1, <2>2 DEF Comments, Opens
<1>3. ASSUME i - 1 \in Comments(text), ~Has(text, i, {"nl"})
      PROVE  i \in Comments(text)
  <2>1. PICK j \in 1..(i - 1) : Opens(text, j) /\ \A k \in j..(i - 1) : ~Has(text, k, {"nl"})
    BY <1>3 DEF Comments, Opens
  <2>2. j \in 1..i /\ i \in DOMAIN text /\ \A k \in j..i : k \in j..(i - 1) \/ k = i
    BY <1>0
  <2> QED
    BY <1>3, <2>1, <2>2 DEF Comments, Opens
<1> QED
  BY <1>1, <1>2, <1>3

\* the text has these, and Written and the lexer agree about joins
LEMMA JoinsAre == \A i : Joins(i) <=> JoinsIn(text, i)
BY DEF Joins, JoinsIn, Is, Has

\* what is known of the places where a token was read
Edge(t, p) ==
    /\ p - 1 \in Comments(t) => p > Len(t) \/ Has(t, p, {"nl"})
    /\ p = 1 \/ Has(t, p - 1, {"nl"}) \/ p > Len(t) \/ Has(t, p, {"sp", "nl", "cr"}) \/ JoinsIn(t, p)
    /\ p - 1 \notin Hides(t) /\ ~(Has(t, p - 1, {"cr"}) /\ p - 2 \in Hides(t))

\* The blanks that are skipped.
LEMMA BlankIs ==
    ASSUME NEW from, NEW i, Blank(from, i)
    PROVE  /\ i \in DOMAIN text /\ ~Has(text, i, {"hash"})
           /\ Has(text, i, {"sp", "nl", "cr"}) \/ JoinsIn(text, i)
           /\ Has(text, i, {"nl"}) =>
                \/ i - 1 >= from /\ JoinsIn(text, i - 1)
                \/ i - 2 >= from /\ Has(text, i - 1, {"cr"}) /\ JoinsIn(text, i - 2)
<1>1. \/ Is(i, {"sp"}) \/ Joins(i)
      \/ i - 1 >= from /\ Is(i, {"nl", "cr"}) /\ Joins(i - 1)
      \/ i - 2 >= from /\ Is(i, {"nl"}) /\ Is(i - 1, {"cr"}) /\ Joins(i - 2)
  BY DEF Blank
<1>2. /\ i \in DOMAIN text /\ ~Has(text, i, {"hash"})
      /\ Has(text, i, {"sp", "nl", "cr"}) \/ JoinsIn(text, i)
  BY <1>1, JoinsAre DEF Is, Has, JoinsIn
<1>3. ASSUME Has(text, i, {"nl"})
      PROVE  \/ i - 1 >= from /\ JoinsIn(text, i - 1)
             \/ i - 2 >= from /\ Has(text, i - 1, {"cr"}) /\ JoinsIn(text, i - 2)
  <2>1. ~Is(i, {"sp"}) /\ ~Joins(i)
    BY <1>3 DEF Is, Has, Joins
  <2>2. Is(i - 1, {"cr"}) => Has(text, i - 1, {"cr"})
    BY DEF Is, Has
  <2> QED
    BY <1>1, <2>1, <2>2, JoinsAre
<1> QED
  BY <1>2, <1>3

\* Behind the edge of a token what is skipped is a gap, no comment and no
\* end of a logical line.
LEMMA BlanksAreGaps ==
    ASSUME NEW len, TextIs(len), NEW from \in 1..(len + 1), Edge(text, from),
           NEW i \in from..(SkipSpaces(from) - 1)
    PROVE  /\ i \in Gaps(text) /\ i \notin Comments(text)
           /\ i \notin Breaks(text) /\ i \notin Starts(text)
<1> DEFINE p == SkipSpaces(from)
           S == {k \in from..(p - 1) : k \in Comments(text)}
<1>1. /\ len \in Nat /\ DOMAIN text = 1..len /\ len = Len(text)
      /\ p \in from..(len + 1) /\ \A k \in from..(p - 1) : Blank(from, k)
  BY SpacesEnd DEF TextIs
<1> HIDE DEF p
<1>2. \A k \in from..(p - 1) : k \in 1..len /\ k \in Nat
  BY <1>1
<1>3. S = {}
  <2>1. SUFFICES ASSUME S # {}
                 PROVE  FALSE
    OBVIOUS
  <2>2. Min(S) \in S /\ \A k \in S : Min(S) <= k
    <3>1. S \subseteq 1..len
      BY <1>2
    <3> HIDE DEF S
    <3> QED
      BY <1>1, <2>1, <3>1, EndsExist
  <2> DEFINE m == Min(S)
  <2>3. m \in from..(p - 1) /\ m \in Comments(text) /\ m - 1 \notin S
    <3>1. m \in S /\ m \in from..(p - 1)
      BY <2>2
    <3> HIDE DEF m
    <3>2. m - 1 \in S => m <= m - 1
      BY <2>2 DEF m
    <3>3. ~(m <= m - 1)
      BY <1>2, <3>1
    <3> QED
      BY <3>1, <3>2, <3>3
  <2> HIDE DEF m
  <2>4. m \in 1..len /\ Blank(from, m)
    BY <1>1, <1>2, <2>3
  <2>5. ~Has(text, m, {"nl"}) /\ (Opens(text, m) \/ m - 1 \in Comments(text))
    BY <2>3, <2>4, CommentsAre
  <2>6. ~Opens(text, m)
    BY <2>4, BlankIs DEF Opens
  <2>7. CASE m = from
    BY <1>1, <2>4, <2>5, <2>6, <2>7 DEF Edge
  <2>8. CASE m # from
    <3>1. m - 1 \in from..(p - 1)
      BY <1>1, <2>3, <2>8
    <3> QED
      BY <2>3, <2>5, <2>6, <3>1
  <2> QED
    BY <2>7, <2>8
<1>4. \A k \in from..(p - 1) : k \notin Comments(text)
  BY <1>3
<1> HIDE DEF S
<1>5. i \in from..(p - 1) /\ i \in 1..len /\ Blank(from, i)
  BY <1>1, <1>2 DEF p
<1>6. i \notin Comments(text)
  BY <1>4, <1>5
<1>7. i \in Gaps(text)
  <2>1. Has(text, i, {"sp", "nl", "cr"}) \/ JoinsIn(text, i)
    BY <1>5, BlankIs
  <2> QED
    BY <1>1, <1>5, <1>6, <2>1 DEF Gaps, Hides
<1>8. i \notin Breaks(text)
  <2>1. SUFFICES ASSUME Has(text, i, {"nl"})
                 PROVE  \/ i - 1 \in Hides(text)
                        \/ Has(text, i - 1, {"cr"}) /\ i - 2 \in Hides(text)
    BY DEF Breaks
  <2>2. \/ i - 1 >= from /\ JoinsIn(text, i - 1)
        \/ i - 2 >= from /\ Has(text, i - 1, {"cr"}) /\ JoinsIn(text, i - 2)
    BY <1>5, <2>1, BlankIs
  <2>3. CASE i - 1 >= from /\ JoinsIn(text, i - 1)
    <3>1. i - 1 \in from..(p - 1) /\ i - 1 \in DOMAIN text
      BY <1>1, <1>5, <2>3
    <3> QED
      BY <1>4, <2>3, <3>1 DEF Hides
  <2>4. CASE i - 2 >= from /\ Has(text, i - 1, {"cr"}) /\ JoinsIn(text, i - 2)
    <3>1. i - 2 \in from..(p - 1) /\ i - 2 \in DOMAIN text
      BY <1>1, <1>5, <2>4
    <3> QED
      BY <1>4, <2>4, <3>1 DEF Hides
  <2> QED
    BY <2>2, <2>3, <2>4
<1> QED
  BY <1>6, <1>7, <1>8 DEF Starts

\* Each continuation that is skipped is one line.
LEMMA BlankLines ==
    ASSUME NEW len, TextIs(len), NEW from \in 1..(len + 1)
    PROVE  LineAfterSpaces(from) = line + Newlines(text, from, SkipSpaces(from) - 1)
<1> DEFINE p == SkipSpaces(from)
           A == {i \in from..(p - 1) : Joins(i)}
           B == {i \in from..(p - 1) : Has(text, i, {"nl"})}
           f == [i \in A |-> IF Has(text, i + 1, {"nl"}) THEN i + 1 ELSE i + 2]
<1>1. /\ len \in Nat /\ DOMAIN text = 1..len
      /\ p \in from..(len + 1) /\ \A k \in from..(p - 1) : Blank(from, k)
      /\ p <= len => ~Blank(from, p)
  BY SpacesEnd DEF TextIs
<1>2. LineAfterSpaces(from) = line + Cardinality(A) /\ Newlines(text, from, p - 1) = Cardinality(B)
  BY DEF LineAfterSpaces, Newlines
<1> HIDE DEF p
<1>3. \A i \in A : i \in from..(p - 1) /\ i \in Nat /\ JoinsIn(text, i)
  BY <1>1, JoinsAre
<1>4. \A i \in B : i \in from..(p - 1) /\ i \in Nat /\ Has(text, i, {"nl"})
  BY <1>1
<1>5. ASSUME NEW i \in A
      PROVE  f[i] \in B
  <2>1. i \in from..(p - 1) /\ i \in Nat /\ JoinsIn(text, i)
    BY <1>3
  <2>2. CASE Has(text, i + 1, {"nl"})
    <3>1. Blank(from, i + 1)
      <4>1. Is(i + 1, {"nl", "cr"}) /\ Joins(i) /\ (i + 1) - 1 = i /\ i >= from
        BY <1>1, <2>1, <2>2, JoinsAre DEF Is, Has
      <4> QED
        BY <4>1 DEF Blank
    <3>2. i + 1 \in from..(p - 1)
      <4>1. i + 1 \in 1..len
        BY <1>1, <2>2 DEF Has
      <4>2. i + 1 # p
        BY <1>1, <3>1, <4>1
      <4> QED
        BY <1>1, <2>1, <4>2
    <3>3. f[i] = i + 1
      BY <2>2
    <3> QED
      BY <2>2, <3>2, <3>3
  <2>3. CASE ~Has(text, i + 1, {"nl"})
    <3>1. Has(text, i + 1, {"cr"}) /\ Has(text, i + 2, {"nl"})
      BY <2>1, <2>3 DEF JoinsIn
    <3>2. Blank(from, i + 1)
      <4>1. Is(i + 1, {"nl", "cr"}) /\ Joins(i) /\ (i + 1) - 1 = i /\ i >= from
        BY <1>1, <2>1, <3>1, JoinsAre DEF Is, Has
      <4> QED
        BY <4>1 DEF Blank
    <3>3. i + 1 \in from..(p - 1)
      <4>1. i + 1 \in 1..len
        BY <1>1, <3>1 DEF Has
      <4>2. i + 1 # p
        BY <1>1, <3>2, <4>1
      <4> QED
        BY <1>1, <2>1, <4>2
    <3>4. Blank(from, i + 2)
      <4>1. Is(i + 2, {"nl"}) /\ Is(i + 1, {"cr"}) /\ Joins(i)
        BY <2>1, <3>1, JoinsAre DEF Is, Has
      <4>2. (i + 2) - 1 = i + 1 /\ (i + 2) - 2 = i /\ i >= from
        BY <1>1, <2>1
      <4> QED
        BY <4>1, <4>2 DEF Blank
    <3>5. i + 2 \in from..(p - 1)
      <4>1. i + 2 \in 1..len
        BY <1>1, <3>1 DEF Has
      <4>2. i + 2 # p
        BY <1>1, <3>4, <4>1
      <4> QED
        BY <1>1, <3>3, <4>2
    <3>6. f[i] = i + 2
      BY <2>3
    <3> QED
      BY <3>1, <3>5, <3>6
  <2> QED
    BY <2>2, <2>3
<1>6. ASSUME NEW i \in A, NEW j \in A, f[i] = f[j]
      PROVE  i = j
  <2>1. i \in Nat /\ j \in Nat /\ Has(text, i, {"bs"}) /\ Has(text, j, {"bs"})
        /\ f[i] \in {i + 1, i + 2} /\ f[j] \in {j + 1, j + 2}
        /\ (f[i] = i + 1 \/ Has(text, i + 1, {"cr"})) /\ (f[j] = j + 1 \/ Has(text, j + 1, {"cr"}))
    BY <1>3 DEF JoinsIn
  <2>2. ~Has(text, i, {"cr"}) /\ ~Has(text, j, {"cr"})
    BY <2>1 DEF Has
  <2>3. CASE i = j + 1
    <3>1. f[j] = j + 1
      BY <2>1, <2>2, <2>3
    <3> QED
      BY <1>6, <2>1, <2>3, <3>1
  <2>4. CASE j = i + 1
    <3>1. f[i] = i + 1
      BY <2>1, <2>2, <2>4
    <3> QED
      BY <1>6, <2>1, <2>4, <3>1
  <2>5. CASE i # j + 1 /\ j # i + 1
    BY <1>6, <2>1, <2>5
  <2> QED
    BY <2>3, <2>4, <2>5
<1>7. ASSUME NEW b \in B
      PROVE  \E i \in A : f[i] = b
  <2>1. b \in from..(p - 1) /\ b \in Nat /\ Has(text, b, {"nl"}) /\ Blank(from, b)
    BY <1>1, <1>4
  <2>2. \/ b - 1 >= from /\ JoinsIn(text, b - 1)
        \/ b - 2 >= from /\ Has(text, b - 1, {"cr"}) /\ JoinsIn(text, b - 2)
    BY <2>1, BlankIs
  <2>3. CASE b - 1 >= from /\ JoinsIn(text, b - 1)
    <3>1. b - 1 \in A /\ (b - 1) + 1 = b
      BY <1>1, <2>1, <2>3, JoinsAre
    <3>2. f[b - 1] = b
      BY <2>1, <3>1
    <3> QED
      BY <3>1, <3>2
  <2>4. CASE b - 2 >= from /\ Has(text, b - 1, {"cr"}) /\ JoinsIn(text, b - 2)
    <3>1. b - 2 \in A /\ (b - 2) + 1 = b - 1 /\ (b - 2) + 2 = b
      BY <1>1, <2>1, <2>4, JoinsAre
    <3>2. ~Has(text, b - 1, {"nl"})
      BY <2>4 DEF Has
    <3>3. f[b - 2] = b
      BY <3>1, <3>2
    <3> QED
      BY <3>1, <3>3
  <2> QED
    BY <2>2, <2>3, <2>4
<1>8. IsFiniteSet(A)
  <2>1. A \subseteq from..(p - 1) /\ from \in Nat /\ p \in Nat /\ from <= p
    BY <1>1
  <2> HIDE DEF A
  <2> QED
    BY <2>1, CountUpTo
<1>9. Cardinality(B) = Cardinality(A)
  <2>1. f \in [A -> B]
    BY <1>5
  <2> HIDE DEF f, A, B
  <2>2. f \in Bijection(A, B)
    BY <1>6, <1>7, <2>1 DEF Bijection, Injection, Surjection, IsInjective
  <2> QED
    BY <1>8, <2>2, FS_Bijection DEF ExistsBijection
<1> QED
  BY <1>2, <1>9 DEF p

-----------------------------------------------------------------------------
(* What one token is of the text.                                          *)

\* Line breaks are counted part by part.
LEMMA NewlinesAdd ==
    ASSUME NEW t, NEW b \in Nat, NEW c \in Nat, b <= c
    PROVE  /\ Newlines(t, 1, c) = Newlines(t, 1, b) + Newlines(t, b + 1, c)
           /\ Newlines(t, 1, b) \in Nat /\ Newlines(t, 1, c) \in Nat /\ Newlines(t, b + 1, c) \in Nat
<1> DEFINE S == {i \in 1..b : Has(t, i, {"nl"})}
           T == {i \in (b + 1)..c : Has(t, i, {"nl"})}
           U == {i \in 1..c : Has(t, i, {"nl"})}
<1>1. U = S \cup T /\ S \cap T = {}
  <2>1. 1..c = (1..b) \cup ((b + 1)..c) /\ (1..b) \cap ((b + 1)..c) = {}
    OBVIOUS
  <2> QED
    BY <2>1
<1>2. IsFiniteSet(S) /\ IsFiniteSet(T)
  <2>1. IsFiniteSet(1..b) /\ IsFiniteSet((b + 1)..c)
    BY FS_Interval
  <2> QED
    BY <2>1, FS_Subset
<1>3. Newlines(t, 1, c) = Cardinality(U) /\ Newlines(t, 1, b) = Cardinality(S)
      /\ Newlines(t, b + 1, c) = Cardinality(T)
  BY DEF Newlines
<1> HIDE DEF S, T, U
<1>4. Cardinality(U) = Cardinality(S) + Cardinality(T) - Cardinality({}) /\ IsFiniteSet(U)
  BY <1>1, <1>2, FS_Union
<1>5. Cardinality(S) \in Nat /\ Cardinality(T) \in Nat /\ Cardinality(U) \in Nat /\ Cardinality({}) = 0
  BY <1>2, <1>4, FS_CardinalityType, FS_EmptySet
<1> QED
  BY <1>3, <1>4, <1>5

\* No line break counts nothing.
LEMMA NoNewlines ==
    ASSUME NEW t, NEW a, NEW b, \A i \in a..b : ~Has(t, i, {"nl"})
    PROVE  Newlines(t, a, b) = 0
<1>1. {i \in a..b : Has(t, i, {"nl"})} = {}
  OBVIOUS
<1> QED
  BY <1>1, FS_EmptySet DEF Newlines

\* A line break counts one.
LEMMA OneNewline ==
    ASSUME NEW t, NEW a, NEW b, NEW m \in a..b, Has(t, m, {"nl"}),
           \A i \in a..b : Has(t, i, {"nl"}) => i = m
    PROVE  Newlines(t, a, b) = 1
<1>1. {i \in a..b : Has(t, i, {"nl"})} = {m}
  OBVIOUS
<1> QED
  BY <1>1, FS_Singleton DEF Newlines

\* what a token says of the text, by one of its positions
Fits(tok, t, i) ==
    /\ tok.type \in {"instruction", "argument", "newline", "comment"}
    /\ i \in Starts(t) <=> tok.type \in {"instruction", "argument"}
    /\ i \in Breaks(t) <=> tok.type = "newline"
    /\ i \in Starts(t) =>
         /\ tok.line = 1 + Newlines(t, 1, i)
         /\ IsKeyword(WordAt(t, i)) => /\ tok.type = "instruction"
                                       /\ tok.value = <<Upper[WordAt(t, i)[1]]>>
         /\ ~IsKeyword(WordAt(t, i)) => tok.type = "argument" /\ tok.value = WordAt(t, i)

\* a token is read from p on: it stands for m, the only word or break up to its
\* end, which is an edge again
ReadsOn(p, r) ==
    \E m \in p..(r.end - 1) :
        /\ r.end \in (p + 1)..(Len(text) + 1)
        /\ \A i \in p..(r.end - 1) : i \in Starts(text) \cup Breaks(text) => i = m
        /\ Fits([type |-> r.type, value |-> r.value, line |-> 1 + Newlines(text, 1, p - 1)], text, m)
        /\ Edge(text, r.end)
        /\ r.newlines = Newlines(text, p, r.end - 1)

\* p is where the blanks behind an edge end
AtToken(len, from, p) ==
    /\ TextIs(len) /\ SimpleText(text) /\ from \in 1..(len + 1) /\ Edge(text, from)
    /\ p = SkipSpaces(from) /\ p \in 1..len

\* What is known of such a place.
LEMMA TokenPlace ==
    ASSUME NEW len, NEW from, NEW p, AtToken(len, from, p)
    PROVE  /\ ~Has(text, p, {"sp"}) /\ ~JoinsIn(text, p)
           /\ ~Has(text, p, {"nl"}) => p - 1 \notin Comments(text)
           /\ Has(text, p, {"nl", "cr"}) => p - 1 \notin Hides(text)
           /\ Has(text, p, {"nl"}) => ~(Has(text, p - 1, {"cr"}) /\ p - 2 \in Hides(text))
           /\ \/ Has(text, p, {"nl", "cr"}) \/ p = 1
              \/ Has(text, p - 1, {"sp", "nl"})
<1>1. /\ len \in Nat /\ DOMAIN text = 1..len /\ len = Len(text) /\ p \in 1..len
      /\ from \in 1..(len + 1) /\ from <= p /\ ~Blank(from, p)
      /\ \A k \in from..(p - 1) : Blank(from, k)
      /\ Edge(text, from) /\ SimpleText(text)
  BY SpacesEnd DEF AtToken, TextIs
<1>2. \A k \in from..(p - 1) : k \notin Comments(text)
  BY BlanksAreGaps DEF AtToken
<1>3. ~Has(text, p, {"sp"}) /\ ~JoinsIn(text, p)
  BY <1>1, JoinsAre DEF Blank, Is, Has
<1>4. ~Has(text, p, {"nl"}) => p - 1 \notin Comments(text)
  <2>1. CASE p = from
    BY <1>1, <2>1 DEF Edge
  <2>2. CASE p # from
    <3>1. p - 1 \in from..(p - 1)
      BY <1>1, <2>2
    <3> QED
      BY <1>2, <3>1
  <2> QED
    BY <2>1, <2>2
<1>5. Has(text, p, {"nl", "cr"}) => p - 1 \notin Hides(text)
  <2>1. CASE p = from
    BY <1>1, <2>1 DEF Edge
  <2>2. CASE p # from
    <3>1. SUFFICES ASSUME Has(text, p, {"nl", "cr"}), p - 1 \in Hides(text)
                   PROVE  FALSE
      OBVIOUS
    <3>2. JoinsIn(text, p - 1)
      BY <3>1 DEF Hides
    <3>3. Is(p, {"nl", "cr"}) /\ Joins(p - 1) /\ p - 1 >= from
      BY <1>1, <2>2, <3>1, <3>2, JoinsAre DEF Is, Has
    <3> QED
      BY <1>1, <3>3 DEF Blank
  <2> QED
    BY <2>1, <2>2
<1>6. Has(text, p, {"nl"}) => ~(Has(text, p - 1, {"cr"}) /\ p - 2 \in Hides(text))
  <2>1. CASE p = from
    BY <1>1, <2>1 DEF Edge
  <2>2. CASE p = from + 1
    <3>1. p - 2 = from - 1
      BY <1>1, <2>2
    <3> QED
      BY <1>1, <3>1 DEF Edge
  <2>3. CASE p # from /\ p # from + 1
    <3>1. SUFFICES ASSUME Has(text, p, {"nl"}), Has(text, p - 1, {"cr"}), p - 2 \in Hides(text)
                   PROVE  FALSE
      OBVIOUS
    <3>2. JoinsIn(text, p - 2)
      BY <3>1 DEF Hides
    <3>3. Is(p, {"nl"}) /\ Is(p - 1, {"cr"}) /\ Joins(p - 2) /\ p - 2 >= from
      BY <1>1, <2>3, <3>1, <3>2, JoinsAre DEF Is, Has
    <3> QED
      BY <1>1, <3>3 DEF Blank
  <2> QED
    BY <2>1, <2>2, <2>3
<1>7. Has(text, p, {"nl", "cr"}) \/ p = 1 \/ Has(text, p - 1, {"sp", "nl"})
  <2>1. CASE p = from
    <3>1. from = 1 \/ Has(text, from - 1, {"nl"}) \/ from > Len(text)
          \/ Has(text, from, {"sp", "nl", "cr"}) \/ JoinsIn(text, from)
      BY <1>1 DEF Edge
    <3> QED
      BY <1>1, <1>3, <2>1, <3>1 DEF Has
  <2>2. CASE p # from
    <3>1. Blank(from, p - 1) /\ p - 1 \in 1..len /\ (p - 1) + 1 = p
      BY <1>1, <2>2
    <3>2. Has(text, p - 1, {"sp", "nl", "cr"}) \/ JoinsIn(text, p - 1)
      BY <3>1, BlankIs
    <3>3. CASE Has(text, p - 1, {"cr"})
      <4>1. Has(text, (p - 1) + 1, {"nl"})
        BY <1>1, <3>1, <3>3 DEF SimpleText
      <4> QED
        BY <3>1, <4>1 DEF Has
    <3>4. CASE JoinsIn(text, p - 1)
      BY <3>1, <3>4 DEF JoinsIn, Has
    <3> QED
      BY <3>2, <3>3, <3>4 DEF Has
  <2> QED
    BY <2>1, <2>2
<1> QED
  BY <1>3, <1>4, <1>5, <1>6, <1>7

\* A comment is read.
LEMMA CommentRead ==
    ASSUME NEW len, NEW from, NEW p, AtToken(len, from, p), Has(text, p, {"hash"})
    PROVE  ReadsOn(p, Read(p))
<1> DEFINE e == EndOfComment(p)
<1>1. /\ len \in Nat /\ DOMAIN text = 1..len /\ len = Len(text) /\ p \in 1..len /\ p \in Nat
  BY DEF AtToken, TextIs
<1>2. /\ e \in p..(len + 1)
      /\ e <= len => Has(text, e, {"nl"})
      /\ \A j \in p..(e - 1) : ~Has(text, j, {"nl"})
  <2>1. p \in 1..(len + 1) /\ TextIs(len)
    BY <1>1 DEF AtToken
  <2> QED
    BY <2>1, CommentEnd DEF Is, Has
<1>3. Read(p).type = "comment" /\ Read(p).end = e /\ Read(p).newlines = 0
  BY DEF Read, Is, Has
<1> HIDE DEF e
<1>4. e \in (p + 1)..(len + 1) /\ e - 1 \in p..(e - 1) /\ p \in p..(e - 1)
  <2>1. e # p
    BY <1>1, <1>2 DEF Has
  <2> QED
    BY <1>1, <1>2, <2>1
<1>5. Opens(text, p)
  <2>1. ~Has(text, p, {"nl", "cr"})
    BY DEF Has
  <2> QED
    BY <2>1, TokenPlace DEF Opens
<1>6. ASSUME NEW i \in p..(e - 1)
      PROVE  i \in Comments(text)
  <2>1. i \in DOMAIN text /\ p \in 1..i /\ \A k \in p..i : k \in p..(e - 1)
    BY <1>1, <1>2
  <2> QED
    BY <1>2, <1>5, <2>1 DEF Comments, Opens
<1>7. \A i \in p..(e - 1) : i \notin Starts(text) /\ i \notin Breaks(text) /\ i \notin Hides(text)
  BY <1>2, <1>6 DEF Starts, Gaps, Breaks, Hides
<1>8. Edge(text, e)
  <2>1. e > Len(text) \/ Has(text, e, {"nl"})
    BY <1>1, <1>2
  <2>2. e > Len(text) \/ Has(text, e, {"sp", "nl", "cr"})
    BY <2>1 DEF Has
  <2>3. e - 1 \notin Hides(text)
    BY <1>4, <1>7
  <2>4. ~(Has(text, e - 1, {"cr"}) /\ e - 2 \in Hides(text))
    <3>1. CASE e - 1 = p
      BY <3>1 DEF Has
    <3>2. CASE e - 1 # p
      <4>1. e - 2 \in p..(e - 1)
        BY <1>1, <1>4, <3>2
      <4> QED
        BY <1>7, <4>1
    <3> QED
      BY <3>1, <3>2
  <2> QED
    BY <2>1, <2>2, <2>3, <2>4 DEF Edge
<1>9. Newlines(text, p, e - 1) = 0
  BY <1>2, NoNewlines
<1>10. Fits([type |-> Read(p).type, value |-> Read(p).value,
             line |-> 1 + Newlines(text, 1, p - 1)], text, p)
  BY <1>3, <1>4, <1>7 DEF Fits
<1> QED
  BY <1>1, <1>3, <1>4, <1>7, <1>8, <1>9, <1>10 DEF ReadsOn

\* The end of a line is read.
LEMMA NewlineRead ==
    ASSUME NEW len, NEW from, NEW p, AtToken(len, from, p), Has(text, p, {"nl", "cr"})
    PROVE  ReadsOn(p, Read(p))
<1> DEFINE m == IF Has(text, p, {"nl"}) THEN p ELSE p + 1
<1>1. /\ len \in Nat /\ DOMAIN text = 1..len /\ len = Len(text) /\ p \in 1..len /\ p \in Nat
      /\ SimpleText(text)
  BY DEF AtToken, TextIs
<1>2. ~Has(text, p, {"nl"}) => Has(text, p, {"cr"}) /\ Has(text, p + 1, {"nl"})
  BY <1>1 DEF SimpleText, Has
<1>3. /\ m \in p..(p + 1) /\ m \in 1..len /\ Has(text, m, {"nl"}) /\ m \in Nat
      /\ m # p => m = p + 1 /\ Has(text, p, {"cr"})
  BY <1>1, <1>2 DEF Has
<1>4. Read(p).type = "newline" /\ Read(p).end = m + 1 /\ Read(p).newlines = 1
  <2>1. CASE Has(text, p, {"nl"})
    <3>1. Read(p) = [type |-> "newline", value |-> <<"nl">>, end |-> p + 1, newlines |-> 1]
      BY <2>1 DEF Read, Is, Has
    <3> QED
      BY <2>1, <3>1
  <2>2. CASE ~Has(text, p, {"nl"})
    <3>1. Is(p, {"cr"}) /\ Is(p + 1, {"nl"}) /\ ~Is(p, {"hash"}) /\ ~Is(p, {"nl"})
      BY <1>2, <2>2 DEF Is, Has
    <3>2. Read(p) = [type |-> "newline", value |-> <<"nl">>, end |-> p + 2, newlines |-> 1]
      BY <3>1 DEF Read
    <3>3. m + 1 = p + 2
      BY <1>1, <2>2
    <3> QED
      BY <3>2, <3>3
  <2> QED
    BY <2>1, <2>2
<1> HIDE DEF m
<1>5. m \in Breaks(text)
  <2>1. CASE m = p
    <3>1. Has(text, p, {"nl"})
      BY <1>3, <2>1
    <3>2. /\ p - 1 \notin Hides(text)
          /\ ~(Has(text, p - 1, {"cr"}) /\ p - 2 \in Hides(text))
      BY <3>1, TokenPlace
    <3> QED
      BY <1>1, <2>1, <3>1, <3>2 DEF Breaks
  <2>2. CASE m # p
    <3>1. Has(text, p, {"cr"}) /\ m - 1 = p /\ m - 2 = p - 1
      BY <1>1, <1>3, <2>2
    <3>2. p - 1 \notin Hides(text)
      BY TokenPlace
    <3>3. p \notin Hides(text)
      BY <3>1 DEF Hides, JoinsIn, Has
    <3> QED
      BY <1>1, <1>3, <3>1, <3>2, <3>3 DEF Breaks
  <2> QED
    BY <2>1, <2>2
<1>6. \A i \in p..m : i = m \/ (i = p /\ Has(text, p, {"cr"}))
  BY <1>1, <1>3
<1>7. \A i \in p..m : i \notin Starts(text) /\ (i \in Breaks(text) => i = m)
  <2>1. \A i \in p..m : Has(text, i, {"sp", "nl", "cr"}) /\ i \in DOMAIN text
    BY <1>3, <1>6 DEF Has
  <2>2. \A i \in p..m : i \in Breaks(text) => i = m
    BY <1>6 DEF Breaks, Has
  <2> QED
    BY <2>1, <2>2 DEF Starts, Gaps
<1>8. Edge(text, m + 1)
  <2>1. (m + 1) - 1 = m /\ (m + 1) - 2 = m - 1
    BY <1>3
  <2>2. m \notin Comments(text)
    BY <1>3, CommentsAre DEF AtToken
  <2>3. m \notin Hides(text) /\ ~Has(text, m, {"cr"})
    BY <1>3 DEF Hides, JoinsIn, Has
  <2> QED
    BY <1>3, <2>1, <2>2, <2>3 DEF Edge
<1>9. Newlines(text, p, m) = 1
  <2>1. \A i \in p..m : Has(text, i, {"nl"}) => i = m
    BY <1>6 DEF Has
  <2>2. m \in p..m
    BY <1>1, <1>3
  <2> QED
    BY <1>3, <2>1, <2>2, OneNewline
<1>10. (m + 1) - 1 = m /\ m \in p..m /\ m + 1 \in (p + 1)..(len + 1)
  BY <1>1, <1>3
<1>11. Fits([type |-> Read(p).type, value |-> Read(p).value,
             line |-> 1 + Newlines(text, 1, p - 1)], text, m)
  BY <1>4, <1>5, <1>7, <1>10 DEF Fits
<1> QED
  BY <1>1, <1>4, <1>7, <1>8, <1>9, <1>10, <1>11 DEF ReadsOn

\* A word is read: nothing in it is a gap, and behind it is one.
LEMMA WordRead ==
    ASSUME NEW len, NEW from, NEW p, AtToken(len, from, p), ~Has(text, p, {"hash", "nl", "cr"})
    PROVE  ReadsOn(p, Read(p))
<1> DEFINE e == EndOfWord(p)
           word == Slice(p, e)
           inside == p..(e - 1)
<1>1. /\ len \in Nat /\ DOMAIN text = 1..len /\ len = Len(text) /\ p \in 1..len /\ p \in Nat
      /\ SimpleText(text) /\ TextIs(len)
  BY DEF AtToken, TextIs
<1>2. /\ e \in p..(len + 1)
      /\ e <= len => WordStops(e)
      /\ \A j \in p..(e - 1) : ~WordStops(j)
  BY <1>1, WordEnd
<1>3. ~Has(text, p, {"hash"}) /\ ~Has(text, p, {"nl"}) /\ ~Has(text, p, {"cr"})
  BY DEF Has
<1>4. /\ ~Has(text, p, {"sp"}) /\ ~JoinsIn(text, p) /\ p - 1 \notin Comments(text)
      /\ p = 1 \/ Has(text, p - 1, {"sp", "nl"})
  <2>1. ~Has(text, p, {"nl", "cr"})
    BY DEF Has
  <2> QED
    BY <1>3, <2>1, TokenPlace
<1>5. ~Is(p, {"lb"}) /\ ~Is(p, {"quote"}) /\ ~StartsFlag(p)
  <2>1. text[p] \in Range(text) /\ Range(text) \cap {"quote", "lb", "rb", "dash"} = {}
    BY <1>1 DEF SimpleText, Range
  <2> QED
    BY <2>1 DEF Is, StartsFlag
<1>6. Read(p) = IF IsKeyword(word)
                THEN [type |-> "instruction", value |-> <<Upper[word[1]]>>, end |-> e, newlines |-> 0]
                ELSE [type |-> "argument", value |-> word, end |-> e, newlines |-> 0]
  <2>1. ~Is(p, {"hash"}) /\ ~Is(p, {"nl"}) /\ ~Is(p, {"cr"})
    BY <1>3 DEF Is, Has
  <2> QED
    BY <1>5, <2>1 DEF Read
<1> HIDE DEF e
\* a stop is what the definitions of gaps say
<1>7. \A i : Has(text, i, {"cr"}) => Has(text, i + 1, {"nl"})
  BY <1>1 DEF SimpleText, Has
<1>8. \A i : WordStops(i) => Has(text, i, {"sp", "nl", "cr"}) \/ JoinsIn(text, i)
  <2>1. SUFFICES ASSUME NEW i, Is(i, {"bs"}), Is(i + 1, {"nl", "cr"})
                 PROVE  JoinsIn(text, i)
    BY DEF WordStops, Is, Has
  <2>2. CASE Has(text, i + 1, {"nl"})
    BY <2>1, <2>2 DEF Is, Has, JoinsIn
  <2>3. CASE Has(text, i + 1, {"cr"})
    <3>1. i \in 1..len /\ (i + 1) + 1 = i + 2
      BY <1>1, <2>1 DEF Is
    <3>2. Has(text, (i + 1) + 1, {"nl"})
      BY <1>7, <2>3
    <3> QED
      BY <2>1, <2>3, <3>1, <3>2 DEF Is, Has, JoinsIn
  <2> QED
    BY <2>1, <2>2, <2>3 DEF Is, Has
<1>9. \A i : Has(text, i, {"sp", "nl", "cr"}) \/ JoinsIn(text, i) => WordStops(i)
  BY DEF WordStops, JoinsIn, Is, Has
<1>10. \A j \in inside : j \in 1..len /\ ~Has(text, j, {"sp", "nl", "cr"}) /\ ~JoinsIn(text, j)
  BY <1>1, <1>2, <1>9
<1>11. e \in (p + 1)..(len + 1) /\ p \in inside /\ e - 1 \in inside
  <2>1. e # p
    BY <1>1, <1>2, <1>3, <1>4, <1>8 DEF Has
  <2> QED
    BY <1>1, <1>2, <2>1
<1>12. \A j \in inside : j \notin Comments(text)
  <2> DEFINE S == {k \in inside : k \in Comments(text)}
  <2>1. SUFFICES ASSUME S # {}
                 PROVE  FALSE
    OBVIOUS
  <2>2. Min(S) \in S /\ \A k \in S : Min(S) <= k
    <3>1. S \subseteq 1..len
      BY <1>10
    <3> HIDE DEF S
    <3> QED
      BY <1>1, <2>1, <3>1, EndsExist
  <2> DEFINE m == Min(S)
  <2>3. m \in inside /\ m \in 1..len /\ m \in Comments(text) /\ m - 1 \notin S
    <3>1. m \in S /\ m \in inside /\ m \in 1..len
      BY <1>10, <2>2
    <3>2. m - 1 \in S => m <= m - 1
      BY <2>2
    <3> HIDE DEF m
    <3>3. ~(m <= m - 1)
      BY <3>1
    <3> QED
      BY <3>1, <3>2, <3>3
  <2> HIDE DEF m
  <2>4. Opens(text, m) \/ m - 1 \in Comments(text)
    BY <1>1, <2>3, CommentsAre
  <2>5. CASE m = p
    BY <1>3, <1>4, <2>4, <2>5 DEF Opens
  <2>6. CASE m # p
    <3>1. m - 1 \in inside /\ m # 1
      BY <1>1, <1>2, <2>3, <2>6
    <3>2. m - 1 \notin Comments(text)
      BY <2>3, <3>1
    <3>3. ~Has(text, m - 1, {"sp", "nl"})
      BY <1>10, <3>1 DEF Has
    <3> QED
      BY <2>4, <3>1, <3>2, <3>3 DEF Opens
  <2> QED
    BY <2>5, <2>6
<1>13. \A j \in inside : j \notin Gaps(text) /\ j \notin Hides(text) /\ j \notin Breaks(text)
  <2>1. \A j \in inside : ~Has(text, j, {"nl"})
    BY <1>10 DEF Has
  <2> QED
    BY <1>10, <1>12, <2>1 DEF Gaps, Hides, Breaks
<1>14. p \in Starts(text)
  <2>1. p = 1 \/ p - 1 \in Gaps(text)
    <3>1. Has(text, p - 1, {"sp", "nl"}) => p - 1 \in Gaps(text)
      BY DEF Has, Gaps
    <3> QED
      BY <1>4, <3>1
  <2> QED
    BY <1>1, <1>11, <1>13, <2>1 DEF Starts
<1>15. \A j \in inside : j \in Starts(text) => j = p
  <2>1. \A j \in inside : j # p => j - 1 \in inside /\ j # 1
    BY <1>1, <1>2
  <2> QED
    BY <1>13, <2>1 DEF Starts
<1>16. e <= len => e \in Gaps(text)
  <2>1. SUFFICES ASSUME e <= len
                 PROVE  e \in Gaps(text)
    OBVIOUS
  <2>2. e \in DOMAIN text /\ (Has(text, e, {"sp", "nl", "cr"}) \/ JoinsIn(text, e))
    BY <1>1, <1>2, <1>8, <2>1
  <2> QED
    BY <2>2 DEF Gaps, Hides
<1>17. word = WordAt(text, p)
  <2> DEFINE S == {j \in Gaps(text) : j > p} \cup {len + 1}
  <2>1. Gaps(text) \subseteq 1..len
    BY <1>1 DEF Gaps, Comments, Hides
  <2>2. S \subseteq 1..(len + 1) /\ e \in S /\ S # {} /\ len + 1 \in Nat
    BY <1>1, <1>11, <1>16, <2>1
  <2>3. Min(S) \in S /\ \A k \in S : Min(S) <= k
    <3> HIDE DEF S
    <3> QED
      BY <2>2, EndsExist
  <2>4. \A k \in S : k \notin inside /\ k >= e /\ k \in Nat
    BY <1>1, <1>11, <1>13, <2>1
  <2>5. Min(S) = e
    <3> HIDE DEF S
    <3>1. Min(S) <= e /\ Min(S) >= e /\ Min(S) \in Nat /\ e \in Nat
      BY <1>11, <2>2, <2>3, <2>4
    <3> QED
      BY <3>1
  <2>6. WordAt(text, p) = SubSeq(text, p, Min(S) - 1)
    BY <1>1 DEF WordAt
  <2> HIDE DEF S
  <2> QED
    BY <2>5, <2>6 DEF Slice
<1>18. Edge(text, e)
  <2>1. e - 1 \notin Comments(text) /\ e - 1 \notin Hides(text) /\ ~Has(text, e - 1, {"cr"})
    BY <1>10, <1>11, <1>12, <1>13 DEF Has
  <2>2. e > Len(text) \/ Has(text, e, {"sp", "nl", "cr"}) \/ JoinsIn(text, e)
    BY <1>1, <1>2, <1>8
  <2> QED
    BY <2>1, <2>2 DEF Edge
<1>19. Newlines(text, p, e - 1) = 0
  <2>1. \A i \in p..(e - 1) : ~Has(text, i, {"nl"})
    BY <1>10 DEF Has
  <2> QED
    BY <2>1, NoNewlines
<1>20. Newlines(text, 1, p) = Newlines(text, 1, p - 1)
  <2>1. \A i \in p..p : ~Has(text, i, {"nl"})
    BY <1>1, <1>3
  <2>2. Newlines(text, p, p) = 0
    BY <2>1, NoNewlines
  <2>3. p - 1 \in Nat /\ (p - 1) + 1 = p /\ p - 1 <= p
    BY <1>1
  <2>4. /\ Newlines(text, 1, p) = Newlines(text, 1, p - 1) + Newlines(text, (p - 1) + 1, p)
        /\ Newlines(text, 1, p - 1) \in Nat
    BY <1>1, <2>3, NewlinesAdd
  <2> QED
    BY <2>2, <2>3, <2>4
<1> HIDE DEF word, inside
<1>21. Read(p).end = e /\ Read(p).newlines = 0
  BY <1>6
<1>22. Fits([type |-> Read(p).type, value |-> Read(p).value,
             line |-> 1 + Newlines(text, 1, p - 1)], text, p)
  <2>1. p \notin Breaks(text)
    BY <1>11, <1>13
  <2> QED
    BY <1>6, <1>14, <1>17, <1>20, <2>1 DEF Fits
<1> QED
  BY <1>1, <1>11, <1>13, <1>15, <1>18, <1>19, <1>21, <1>22 DEF ReadsOn, inside

\* Whatever is read.
LEMMA AnyRead ==
    ASSUME NEW len, NEW from, NEW p, AtToken(len, from, p)
    PROVE  ReadsOn(p, Read(p))
<1>1. CASE Has(text, p, {"hash"})
  BY <1>1, CommentRead
<1>2. CASE Has(text, p, {"nl", "cr"})
  BY <1>2, NewlineRead
<1>3. CASE ~Has(text, p, {"hash", "nl", "cr"})
  BY <1>3, WordRead
<1> QED
  BY <1>1, <1>2, <1>3 DEF Has

-----------------------------------------------------------------------------
(* Tokenize reads the whole text.                                          *)

\* the tokens before p stand for positions in their order, and leave out none
\* of a word or a break
Placed(t, toks, w, many, p) ==
    /\ many \in Nat /\ w \in [1..many -> 1..(p - 1)]
    /\ \A k \in 1..many : Fits(toks[k], t, w[k])
    /\ \A k, l \in 1..many : k < l => w[k] < w[l]
    /\ \A i \in Starts(t) \cup Breaks(t) : i < p => \E k \in 1..many : w[k] = i
Stand(t, toks, many, p) == \E w : Placed(t, toks, w, many, p)

\* Tokenize's loop stands at an edge, and knows its line
LexRead ==
    phase = "lex" /\ SimpleText(text) =>
        /\ line = 1 + Newlines(text, 1, pos - 1)
        /\ Edge(text, pos)
        /\ Stand(text, tokens, Len(tokens), pos)
TokensRead ==
    phase = "parse" /\ SimpleText(text) => Stand(text, tokens, Len(tokens) - 1, Len(text) + 1)

\* Nothing stands between two places.
LEMMA StandsFurther ==
    ASSUME NEW t, NEW toks, NEW toks2, NEW many, NEW p \in Nat, NEW q \in Nat, p <= q,
           Stand(t, toks, many, p),
           \A k \in 1..many : toks2[k] = toks[k],
           \A i \in Starts(t) \cup Breaks(t) : i < q => i < p
    PROVE  Stand(t, toks2, many, q)
<1>1. PICK w : Placed(t, toks, w, many, p)
  BY DEF Stand
<1>2. w \in [1..many -> 1..(q - 1)]
  <2>1. 1..(p - 1) \subseteq 1..(q - 1)
    OBVIOUS
  <2> QED
    BY <1>1, <2>1 DEF Placed
<1>3. Placed(t, toks2, w, many, q)
  BY <1>1, <1>2 DEF Placed
<1> QED
  BY <1>3 DEF Stand

\* One more token stands for the one position there is.
LEMMA StandsFor ==
    ASSUME NEW t, NEW toks, NEW toks2, NEW many, NEW p \in Nat, NEW q \in Nat, 1 <= p,
           Stand(t, toks, many, p),
           \A k \in 1..many : toks2[k] = toks[k],
           NEW m \in p..(q - 1), Fits(toks2[many + 1], t, m),
           \A i \in Starts(t) \cup Breaks(t) : i < q => i < p \/ i = m
    PROVE  Stand(t, toks2, many + 1, q)
<1>1. PICK w : Placed(t, toks, w, many, p)
  BY DEF Stand
<1> DEFINE v == [k \in 1..(many + 1) |-> IF k \in 1..many THEN w[k] ELSE m]
<1>2. /\ many \in Nat /\ many + 1 \in Nat /\ 1..(many + 1) = (1..many) \cup {many + 1}
      /\ many + 1 \notin 1..many /\ p <= m /\ m < q /\ m \in 1..(q - 1) /\ m \in Nat
  BY <1>1 DEF Placed
<1>3. \A k \in 1..many : v[k] = w[k] /\ w[k] \in 1..(p - 1) /\ w[k] \in 1..(q - 1) /\ w[k] < m
  BY <1>1, <1>2 DEF Placed
<1>4. v[many + 1] = m /\ DOMAIN v = 1..(many + 1)
  BY <1>2
<1>5. v \in [1..(many + 1) -> 1..(q - 1)]
  BY <1>2, <1>3, <1>4
<1> HIDE DEF v
<1>6. \A k \in 1..(many + 1) : Fits(toks2[k], t, v[k])
  BY <1>1, <1>2, <1>3, <1>4 DEF Placed
<1>7. ASSUME NEW k \in 1..(many + 1), NEW l \in 1..(many + 1), k < l
      PROVE  v[k] < v[l]
  <2>1. k \in 1..many
    BY <1>2, <1>7
  <2>2. CASE l \in 1..many
    BY <1>1, <1>3, <1>7, <2>1, <2>2 DEF Placed
  <2>3. CASE l = many + 1
    BY <1>3, <1>4, <2>1, <2>3
  <2> QED
    BY <1>2, <2>2, <2>3
<1>8. ASSUME NEW i \in Starts(t) \cup Breaks(t), i < q
      PROVE  \E k \in 1..(many + 1) : v[k] = i
  <2>1. CASE i < p
    <3>1. PICK k \in 1..many : w[k] = i
      BY <1>1, <2>1 DEF Placed
    <3> QED
      BY <1>2, <1>3, <3>1
  <2>2. CASE i = m
    BY <1>2, <1>4, <2>2
  <2> QED
    BY <1>8, <2>1, <2>2
<1>9. Placed(t, toks2, v, many + 1, q)
  BY <1>2, <1>5, <1>6, <1>7, <1>8 DEF Placed
<1> QED
  BY <1>9 DEF Stand

\* What Tokenize stands before, behind the blanks.
LEMMA BlanksRead ==
    ASSUME NEW len, TextIs(len), pos \in 1..(len + 1), LexRead, phase = "lex", SimpleText(text)
    PROVE  /\ SkipSpaces(pos) \in pos..(len + 1)
           /\ LineAfterSpaces(pos) = 1 + Newlines(text, 1, SkipSpaces(pos) - 1)
           /\ \A i \in Starts(text) \cup Breaks(text) : i < SkipSpaces(pos) => i < pos
<1> DEFINE p == SkipSpaces(pos)
<1>1. p \in pos..(len + 1) /\ len \in Nat /\ pos \in Nat /\ DOMAIN text = 1..len
  BY SpacesEnd DEF TextIs
<1>2. LineAfterSpaces(pos) = line + Newlines(text, pos, p - 1)
  BY BlankLines
<1>3. Edge(text, pos) /\ line = 1 + Newlines(text, 1, pos - 1)
  BY DEF LexRead
<1>4. \A i \in pos..(p - 1) : i \notin Starts(text) /\ i \notin Breaks(text)
  BY <1>3, BlanksAreGaps
<1> HIDE DEF p
<1>5. /\ Newlines(text, 1, p - 1) = Newlines(text, 1, pos - 1) + Newlines(text, pos, p - 1)
      /\ Newlines(text, 1, pos - 1) \in Nat /\ Newlines(text, pos, p - 1) \in Nat
  <2>1. pos - 1 \in Nat /\ p - 1 \in Nat /\ pos - 1 <= p - 1 /\ (pos - 1) + 1 = pos
    BY <1>1
  <2>2. /\ Newlines(text, 1, p - 1) = Newlines(text, 1, pos - 1) + Newlines(text, (pos - 1) + 1, p - 1)
        /\ Newlines(text, 1, pos - 1) \in Nat /\ Newlines(text, (pos - 1) + 1, p - 1) \in Nat
    BY <2>1, NewlinesAdd
  <2> QED
    BY <2>1, <2>2
<1>6. LineAfterSpaces(pos) = 1 + Newlines(text, 1, p - 1)
  BY <1>2, <1>3, <1>5
<1>7. \A i \in Starts(text) \cup Breaks(text) : i \in 1..len
  BY <1>1 DEF Starts, Breaks
<1>8. \A i \in Starts(text) \cup Breaks(text) : i < p => i < pos
  <2>1. \A i \in 1..len : i < p /\ ~(i < pos) => i \in pos..(p - 1)
    BY <1>1
  <2> QED
    BY <1>4, <1>7, <2>1
<1> QED
  BY <1>1, <1>6, <1>8 DEF p

\* A scan reads the text.
LEMMA ScanKeepsRead ==
    ASSUME LexOK, LexRead, Scans, SimpleText(text)
    PROVE  LexRead'
<1> DEFINE len == Len(text)
           p   == SkipSpaces(pos)
           r   == Read(p)
<1>1. TextIs(len) /\ len \in Nat /\ DOMAIN text = 1..len /\ pos \in 1..(len + 1)
  BY DEF LexOK, TextIs
<1>2. Emit(r.type, r.value, r.end, r.newlines) /\ (p \in DOMAIN text \/ p <= len)
  BY ScanReads
<1> HIDE DEF r
<1>3. /\ phase = "lex" /\ text' = text /\ pos' = r.end /\ line' = LineAfterSpaces(pos) + r.newlines
      /\ tokens' = Append(tokens, [type |-> r.type, value |-> r.value, line |-> LineAfterSpaces(pos)])
  BY <1>2 DEF Emit
<1>4. /\ p \in pos..(len + 1) /\ LineAfterSpaces(pos) = 1 + Newlines(text, 1, p - 1)
      /\ \A i \in Starts(text) \cup Breaks(text) : i < p => i < pos
  BY <1>1, <1>3, BlanksRead
<1>5. AtToken(len, pos, p)
  BY <1>1, <1>2, <1>3, <1>4 DEF AtToken, LexRead
<1>6. PICK m \in p..(r.end - 1) :
          /\ r.end \in (p + 1)..(len + 1)
          /\ \A i \in p..(r.end - 1) : i \in Starts(text) \cup Breaks(text) => i = m
          /\ Fits([type |-> r.type, value |-> r.value, line |-> 1 + Newlines(text, 1, p - 1)], text, m)
          /\ Edge(text, r.end)
          /\ r.newlines = Newlines(text, p, r.end - 1)
  BY <1>5, AnyRead DEF ReadsOn, r
<1> HIDE DEF p
<1> DEFINE tok == [type |-> r.type, value |-> r.value, line |-> 1 + Newlines(text, 1, p - 1)]
           e   == r.end
<1>7. p \in Nat /\ 1 <= p /\ p - 1 \in Nat /\ e \in Nat /\ e - 1 \in Nat /\ p <= e /\ pos <= p /\ p - 1 <= e - 1
      /\ pos \in Nat /\ 1 <= pos
  BY <1>1, <1>4, <1>6
<1>8. line' = 1 + Newlines(text, 1, e - 1)
  <2>1. (p - 1) + 1 = p
    BY <1>7
  <2>2. /\ Newlines(text, 1, e - 1) = Newlines(text, 1, p - 1) + Newlines(text, (p - 1) + 1, e - 1)
        /\ Newlines(text, 1, p - 1) \in Nat /\ Newlines(text, (p - 1) + 1, e - 1) \in Nat
    <3> HIDE DEF e
    <3> QED
      BY <1>7, NewlinesAdd
  <2> QED
    BY <1>3, <1>4, <1>6, <2>1, <2>2
<1>9. /\ Len(tokens) \in Nat /\ Len(tokens') = Len(tokens) + 1
      /\ \A k \in 1..Len(tokens) : tokens'[k] = tokens[k]
      /\ tokens'[Len(tokens) + 1] = tok
  <2>1. tokens \in Seq(Token)
    BY DEF LexOK
  <2>2. tokens' = Append(tokens, tok)
    BY <1>3, <1>4
  <2> HIDE DEF tok
  <2> QED
    BY <2>1, <2>2
<1>10. Stand(text, tokens, Len(tokens), p)
  <2>1. Stand(text, tokens, Len(tokens), pos)
    BY <1>3 DEF LexRead
  <2> QED
    BY <1>4, <1>7, <2>1, StandsFurther
<1>11. \A i \in Starts(text) \cup Breaks(text) : i < e => i < p \/ i = m
  <2>1. \A i \in Starts(text) \cup Breaks(text) : i \in Nat
    BY <1>1 DEF Starts, Breaks
  <2>2. \A i \in Nat : i < e /\ ~(i < p) => i \in p..(e - 1)
    BY <1>7
  <2> QED
    BY <1>6, <2>1, <2>2
<1>12. Stand(text, tokens', Len(tokens) + 1, e)
  <2>1. Fits(tokens'[Len(tokens) + 1], text, m)
    BY <1>6, <1>9
  <2>2. m \in p..(e - 1)
    BY <1>6
  <2> HIDE DEF e, tok
  <2> QED
    BY <1>7, <1>9, <1>10, <1>11, <2>1, <2>2, StandsFor
<1> QED
  BY <1>3, <1>6, <1>8, <1>9, <1>12 DEF LexRead

\* At the end of the text all of it has been read.
LEMMA AllRead ==
    ASSUME LexOK, LexRead, EndOfInput
    PROVE  TokensRead'
<1> SUFFICES ASSUME SimpleText(text)
             PROVE  Stand(text, tokens', Len(tokens') - 1, Len(text) + 1)
  BY DEF EndOfInput, TokensRead
<1> DEFINE len == Len(text)
<1>1. TextIs(len) /\ len \in Nat /\ DOMAIN text = 1..len /\ pos \in 1..(len + 1)
      /\ phase = "lex" /\ SkipSpaces(pos) > len
  BY DEF LexOK, TextIs, EndOfInput
<1>2. /\ SkipSpaces(pos) \in pos..(len + 1)
      /\ \A i \in Starts(text) \cup Breaks(text) : i < SkipSpaces(pos) => i < pos
  BY <1>1, BlanksRead
<1>3. SkipSpaces(pos) = len + 1 /\ pos \in Nat /\ len + 1 \in Nat /\ pos <= len + 1
  BY <1>1, <1>2
<1>4. Len(tokens') - 1 = Len(tokens) /\ \A k \in 1..Len(tokens) : tokens'[k] = tokens[k]
  <2> DEFINE tok == [type |-> "eof", value |-> <<>>, line |-> line']
  <2>1. tokens \in Seq(Token) /\ tokens' = Append(tokens, tok)
    BY DEF LexOK, EndOfInput
  <2> HIDE DEF tok
  <2>2. Len(tokens) \in Nat /\ Len(tokens') = Len(tokens) + 1
    BY <2>1
  <2> QED
    BY <2>1, <2>2
<1>5. Stand(text, tokens, Len(tokens), pos)
  BY <1>1 DEF LexRead
<1> QED
  BY <1>2, <1>3, <1>4, <1>5, StandsFurther

\* Nothing is read at first.
LEMMA NothingReadYet ==
    ASSUME NEW t \in Seq(Char)
    PROVE  Newlines(t, 1, 0) = 0 /\ Edge(t, 1) /\ Stand(t, <<>>, 0, 1)
<1>1. DOMAIN t \subseteq Nat \ {0}
  OBVIOUS
<1>2. Newlines(t, 1, 0) = 0
  <2>1. \A i \in 1..0 : ~Has(t, i, {"nl"})
    OBVIOUS
  <2> QED
    BY <2>1, NoNewlines
<1>3. Edge(t, 1)
  <2>1. 0 \notin Comments(t) /\ 0 \notin Hides(t) /\ ~Has(t, 0, {"cr"})
    BY <1>1 DEF Comments, Hides, Has
  <2> QED
    BY <2>1 DEF Edge
<1>4. Stand(t, <<>>, 0, 1)
  <2>1. \A i \in Starts(t) \cup Breaks(t) : ~(i < 1)
    BY <1>1 DEF Starts, Breaks
  <2>2. Placed(t, <<>>, [k \in 1..0 |-> 0], 0, 1)
    BY <2>1 DEF Placed
  <2> QED
    BY <2>2 DEF Stand
<1> QED
  BY <1>2, <1>3, <1>4

-----------------------------------------------------------------------------
(* The tokens of a line are its words, and mean what the line means.       *)

\* the words before c are on lines that end before c
Ended(t, w, c) ==
    \A k \in 1..(c - 1) : w[k] \in Starts(t) => \E m \in (k + 1)..(c - 1) : w[m] \in Breaks(t)

\* the tokens from c to e - 1 are those of one line, c the first with a word
OnLine(t, toks, w, many, c, e) ==
    /\ Placed(t, toks, w, many, Len(t) + 1)
    /\ c \in 1..many /\ e \in (c + 1)..(many + 1)
    /\ w[c] \in Starts(t) /\ Ended(t, w, c)
    /\ \A j \in c..(e - 1) : w[j] \notin Breaks(t)
    /\ e <= many => w[e] \in Breaks(t)

\* the tokens of a line that are words
WordsIn(t, w, c, e) == {k \in c..(e - 1) : w[k] \in Starts(t)}

HasWords(t, w, many, c, e) ==
    /\ w[c] \in Heads(t)
    /\ StartsOn(t, w[c]) = {w[k] : k \in WordsIn(t, w, c, e)}
    /\ \A k \in (c + 1)..e : k <= many => w[k] \notin Heads(t)

\* What is placed is in order, and all of the text.
LEMMA PlacesAre ==
    ASSUME NEW t, NEW len \in Nat, DOMAIN t = 1..len, Len(t) = len,
           NEW toks, NEW w, NEW many, Placed(t, toks, w, many, Len(t) + 1)
    PROVE  /\ many \in Nat /\ \A k \in 1..many : w[k] \in 1..len
           /\ \A k, l \in 1..many : w[k] < w[l] <=> k < l
           /\ \A k, l \in 1..many : w[k] = w[l] => k = l
           /\ \A i \in Starts(t) \cup Breaks(t) : i \in 1..len /\ \E k \in 1..many : w[k] = i
           /\ \A k \in 1..many : ~(w[k] \in Starts(t) /\ w[k] \in Breaks(t))
<1>1. many \in Nat /\ \A k \in 1..many : w[k] \in 1..len
  BY DEF Placed
<1>2. \A k, l \in 1..many : k < l => w[k] < w[l]
  BY DEF Placed
<1>3. \A k, l \in 1..many : w[k] < w[l] => k < l
  <2>1. SUFFICES ASSUME NEW k \in 1..many, NEW l \in 1..many, ~(k < l)
                 PROVE  ~(w[k] < w[l])
    OBVIOUS
  <2>2. k = l \/ l < k
    BY <1>1, <2>1
  <2>3. l < k => w[l] < w[k]
    BY <1>2
  <2> QED
    BY <1>1, <2>2, <2>3
<1>4. \A k, l \in 1..many : w[k] = w[l] => k = l
  <2>1. \A k, l \in 1..many : k < l \/ l < k \/ k = l
    BY <1>1
  <2>2. \A k, l \in 1..many : w[k] = w[l] => ~(w[k] < w[l]) /\ ~(w[l] < w[k])
    BY <1>1
  <2> QED
    BY <1>2, <2>1, <2>2
<1>5. \A i \in Starts(t) \cup Breaks(t) : i \in 1..len /\ \E k \in 1..many : w[k] = i
  <2>1. \A i \in Starts(t) \cup Breaks(t) : i \in 1..len
    BY DEF Starts, Breaks
  <2>2. \A i \in 1..len : i < Len(t) + 1
    OBVIOUS
  <2> QED
    BY <2>1, <2>2 DEF Placed
<1>6. \A k \in 1..many : ~(w[k] \in Starts(t) /\ w[k] \in Breaks(t))
  BY DEF Placed, Fits
<1> QED
  BY <1>1, <1>2, <1>3, <1>4, <1>5, <1>6

\* Which words are on the line.
LEMMA LineIs ==
    ASSUME NEW t, NEW len \in Nat, DOMAIN t = 1..len, Len(t) = len,
           NEW toks, NEW w, NEW many, NEW c, NEW e, OnLine(t, toks, w, many, c, e)
    PROVE  HasWords(t, w, many, c, e)
<1>1. /\ many \in Nat /\ \A k \in 1..many : w[k] \in 1..len
      /\ \A k, l \in 1..many : w[k] < w[l] <=> k < l
      /\ \A i \in Starts(t) \cup Breaks(t) : i \in 1..len /\ \E k \in 1..many : w[k] = i
      /\ \A k \in 1..many : ~(w[k] \in Starts(t) /\ w[k] \in Breaks(t))
  BY PlacesAre DEF OnLine
<1>2. /\ c \in 1..many /\ e \in (c + 1)..(many + 1) /\ w[c] \in Starts(t)
      /\ \A j \in c..(e - 1) : w[j] \notin Breaks(t) /\ j \in 1..many
      /\ e <= many => w[e] \in Breaks(t)
  BY <1>1 DEF OnLine
<1>3. \A k \in 1..(c - 1) : w[k] \in Starts(t) => \E m \in (k + 1)..(c - 1) : w[m] \in Breaks(t)
  BY DEF OnLine, Ended
\* a break between two places tells their lines apart
<1>4. ASSUME NEW k \in 1..many, NEW l \in 1..many, NEW m \in 1..many, k < m, m < l, w[m] \in Breaks(t)
      PROVE  Above(t, w[k]) # Above(t, w[l])
  <2>1. w[m] \in Above(t, w[l])
    BY <1>1, <1>4 DEF Above
  <2>2. w[m] \notin Above(t, w[k])
    <3>1. ~(m < k)
      BY <1>1, <1>4
    <3> QED
      BY <1>1, <3>1 DEF Above
  <2> QED
    BY <2>1, <2>2
\* and none leaves them on one
<1>5. ASSUME NEW k \in c..(e - 1)
      PROVE  Above(t, w[k]) = Above(t, w[c])
  <2>1. k \in 1..many /\ c <= k
    BY <1>2
  <2>2. \A b \in Breaks(t) : b < w[k] <=> b < w[c]
    <3>1. SUFFICES ASSUME NEW b \in Breaks(t)
                   PROVE  b < w[k] <=> b < w[c]
      OBVIOUS
    <3>2. PICK j \in 1..many : w[j] = b
      BY <1>1
    <3>3. j \notin c..(e - 1)
      BY <1>2, <3>2
    <3>4. j < k <=> j < c
      BY <1>1, <1>2, <2>1, <3>2, <3>3
    <3> QED
      BY <1>1, <1>2, <2>1, <3>2, <3>4
  <2> QED
    BY <2>2 DEF Above
<1>6. \A i \in Starts(t) : i < w[c] => Above(t, i) # Above(t, w[c])
  <2>1. SUFFICES ASSUME NEW i \in Starts(t), i < w[c]
                 PROVE  Above(t, i) # Above(t, w[c])
    OBVIOUS
  <2>2. PICK k \in 1..many : w[k] = i
    BY <1>1
  <2>3. k < c
    BY <1>1, <1>2, <2>1, <2>2
  <2>4. k \in 1..(c - 1)
    BY <1>1, <1>2, <2>3
  <2>5. PICK m \in (k + 1)..(c - 1) : w[m] \in Breaks(t)
    BY <1>3, <2>2, <2>4
  <2>6. m \in 1..many /\ k < m /\ m < c
    BY <1>1, <1>2, <2>5
  <2> QED
    BY <1>2, <1>4, <2>2, <2>5, <2>6
<1>7. w[c] \in Heads(t)
  BY <1>2, <1>6 DEF Heads
<1>8. StartsOn(t, w[c]) = {w[k] : k \in WordsIn(t, w, c, e)}
  <2>1. ASSUME NEW i \in StartsOn(t, w[c])
        PROVE  \E k \in WordsIn(t, w, c, e) : w[k] = i
    <3>1. i \in Starts(t) /\ Above(t, i) = Above(t, w[c])
      BY DEF StartsOn
    <3>2. PICK k \in 1..many : w[k] = i
      BY <1>1, <3>1
    <3>3. ~(k < c)
      BY <1>1, <1>2, <1>6, <3>1, <3>2
    <3>4. k < e
      <4>1. CASE e <= many
        <5>1. e \in 1..many /\ c < e
          BY <1>1, <1>2, <4>1
        <5>2. ~(e < k)
          BY <1>2, <1>4, <3>1, <3>2, <4>1, <5>1
        <5>3. k # e
          BY <1>1, <1>2, <3>1, <3>2, <4>1
        <5> QED
          BY <1>1, <5>1, <5>2, <5>3
      <4>2. CASE ~(e <= many)
        BY <1>1, <1>2, <4>2
      <4> QED
        BY <4>1, <4>2
    <3>5. k \in c..(e - 1)
      BY <1>1, <1>2, <3>3, <3>4
    <3> QED
      BY <3>1, <3>2, <3>5 DEF WordsIn
  <2>2. ASSUME NEW k \in WordsIn(t, w, c, e)
        PROVE  w[k] \in StartsOn(t, w[c])
    BY <1>5 DEF WordsIn, StartsOn
  <2> QED
    BY <2>1, <2>2
<1>9. ASSUME NEW k \in (c + 1)..e, k <= many
      PROVE  w[k] \notin Heads(t)
  <2>1. CASE k = e
    <3>1. e \in 1..many
      BY <1>1, <1>2, <1>9, <2>1
    <3> QED
      BY <1>1, <1>2, <1>9, <2>1, <3>1 DEF Heads
  <2>2. CASE k # e
    <3>1. k \in c..(e - 1) /\ c < k /\ k \in 1..many
      BY <1>1, <1>2, <1>9, <2>2
    <3>2. w[c] < w[k] /\ Above(t, w[c]) = Above(t, w[k])
      BY <1>1, <1>2, <1>5, <3>1
    <3> QED
      BY <1>2, <3>2 DEF Heads
  <2> QED
    BY <2>1, <2>2
<1> QED
  BY <1>7, <1>8, <1>9 DEF HasWords

\* A list of numbers, each mapped to a larger one than the one before.
LEMMA EnumerationMapped ==
    ASSUME NEW u, NEW m, NEW D, Enumerates(u, m, D), NEW w,
           \A k, l \in D : k < l => w[k] < w[l]
    PROVE  Enumerates([k \in 1..m |-> w[u[k]]], m, {w[k] : k \in D})
<1> DEFINE v == [k \in 1..m |-> w[u[k]]]
           E == {w[k] : k \in D}
<1>1. m \in Nat /\ DOMAIN v = 1..m /\ \A k \in 1..m : u[k] \in D /\ v[k] = w[u[k]] /\ v[k] \in E
  BY DEF Enumerates
<1>2. v \in [1..m -> E]
  BY <1>1
<1>3. E = {v[k] : k \in 1..m}
  <2>1. D = {u[k] : k \in 1..m}
    BY DEF Enumerates
  <2> HIDE DEF v
  <2>2. ASSUME NEW x \in E
        PROVE  \E l \in 1..m : x = v[l]
    <3>1. PICK d \in D : x = w[d]
      OBVIOUS
    <3>2. PICK l \in 1..m : d = u[l]
      BY <2>1
    <3> QED
      BY <1>1, <3>1, <3>2
  <2> HIDE DEF E
  <2> QED
    BY <1>1, <2>2
<1>4. ASSUME NEW k \in 1..m, NEW l \in 1..m, k < l
      PROVE  v[k] < v[l]
  <2>1. u[k] < u[l]
    BY <1>4 DEF Enumerates
  <2> HIDE DEF v
  <2> QED
    BY <1>1, <2>1
<1> QED
  BY <1>1, <1>2, <1>3, <1>4 DEF Enumerates

\* what words the tokens of a line are
WordsListed(t, words, w, u, m, c, e) ==
    /\ Enumerates(u, m, WordsIn(t, w, c, e)) /\ 1 <= m /\ u[1] = c
    /\ words \in Seq(Range(words)) /\ Len(words) = m /\ DOMAIN words = 1..m
    /\ \A k \in 1..m : words[k] = WordAt(t, w[u[k]])

LEMMA WordsAre ==
    ASSUME NEW t, NEW len \in Nat, DOMAIN t = 1..len, Len(t) = len,
           NEW toks, NEW w, NEW many, NEW c, NEW e, OnLine(t, toks, w, many, c, e)
    PROVE  \E u, m : WordsListed(t, LineAt(t, w[c]).words, w, u, m, c, e)
<1> DEFINE D == WordsIn(t, w, c, e)
           f == [i \in StartsOn(t, w[c]) |-> WordAt(t, i)]
           V == {WordAt(t, i) : i \in StartsOn(t, w[c])}
           words == LineAt(t, w[c]).words
<1>1. /\ many \in Nat /\ \A k \in 1..many : w[k] \in 1..len
      /\ \A k, l \in 1..many : w[k] < w[l] <=> k < l
      /\ \A i \in Starts(t) \cup Breaks(t) : i \in 1..len
  BY PlacesAre DEF OnLine
<1>2. /\ c \in 1..many /\ e \in (c + 1)..(many + 1) /\ w[c] \in Starts(t)
      /\ \A j \in c..(e - 1) : j \in 1..many
  BY <1>1 DEF OnLine
<1>3. D \subseteq 1..many /\ c \in D /\ \A k \in D : c <= k
  BY <1>1, <1>2 DEF WordsIn
<1>4. StartsOn(t, w[c]) = {w[k] : k \in D}
  <2>1. HasWords(t, w, many, c, e)
    BY LineIs
  <2> QED
    BY <2>1 DEF HasWords
<1>5. \A k, l \in D : k < l => w[k] < w[l]
  BY <1>1, <1>3
<1> HIDE DEF D
<1>6. PICK m, u : Enumerates(u, m, D)
  BY <1>1, <1>3, EnumerationExists
<1>7. 1 <= m /\ u[1] = c /\ m \in Nat /\ \A k \in 1..m : u[k] \in D
  <2>1. /\ m \in Nat /\ D = {u[k] : k \in 1..m}
        /\ \A k, l \in 1..m : k < l => u[k] < u[l]
    BY <1>6 DEF Enumerates
  <2>2. PICK k \in 1..m : u[k] = c
    BY <1>3, <2>1
  <2>3. 1 \in 1..m /\ u[1] \in D
    BY <2>1, <2>2
  <2>4. ~(u[1] < u[k])
    <3>1. c <= u[1] /\ u[1] \in 1..many
      BY <1>3, <2>3
    <3> QED
      BY <1>1, <1>2, <2>2, <3>1
  <2>5. k = 1
    BY <2>1, <2>2, <2>3, <2>4
  <2> QED
    BY <2>1, <2>2, <2>3, <2>5
<1> DEFINE v == [k \in 1..m |-> w[u[k]]]
<1>8. Enumerates(v, m, DOMAIN f)
  <2>1. DOMAIN f = {w[k] : k \in D}
    BY <1>4
  <2> QED
    BY <1>5, <1>6, <2>1, EnumerationMapped
<1>9. OnPositions(f, len, V)
  <2>1. DOMAIN f \subseteq 1..len
    BY <1>1 DEF StartsOn
  <2> QED
    BY <2>1 DEF OnPositions
<1>10. words = InOrder(f)
  BY DEF LineAt
<1>11. /\ InOrder(f) \in Seq(V) /\ Len(InOrder(f)) = m /\ DOMAIN InOrder(f) = 1..m
       /\ \A k \in 1..m : InOrder(f)[k] = f[v[k]] /\ v[k] \in DOMAIN f
  <2> HIDE DEF f, v, V
  <2> QED
    BY <1>8, <1>9, OrderListed
<1>12. \A k \in 1..m : words[k] = WordAt(t, w[u[k]])
  BY <1>10, <1>11
<1> HIDE DEF f, V, words, v
<1>13. words \in Seq(Range(words))
  <2>1. \A k \in 1..Len(words) : words[k] \in Range(words)
    BY <1>10, <1>11 DEF Range
  <2> QED
    BY <1>10, <1>11, <2>1
<1> QED
  BY <1>6, <1>7, <1>10, <1>11, <1>12, <1>13 DEF WordsListed, D, words

\* postProcess looks at the name and the arguments only.
LEMMA PostProcessSame ==
    ASSUME NEW op, NEW ln, NEW args, NEW flags, NEW raw, NEW a, NEW b,
           a = [op |-> op, line |-> ln, args |-> args, flags |-> flags, raw |-> raw],
           b = [op |-> op, line |-> ln, args |-> args]
    PROVE  /\ Refuses(a) <=> Refuses(b)
           /\ PostProcess(b) = [op |-> PostProcess(a).op, line |-> PostProcess(a).line,
                                args |-> PostProcess(a).args]
           /\ PostProcess(b).op = op
<1>1. Refuses(a) <=> Refuses(b)
  BY DEF Refuses
<1> DEFINE array == Trimmed(args[1])
           isArray == /\ op \in {"CMD", "ENTRYPOINT", "SHELL"}
                      /\ Len(args) = 1 /\ IsArray(array) /\ args[1][1] = "lb"
           isPair  == op = "ENV" /\ Len(args) = 2 /\ "eq" \notin Range(args[1])
           parts   == ParseJSONArray(array)
           joint   == args[1] \o <<"eq">> \o args[2]
<1>2. /\ isArray => /\ PostProcess(a) = [a EXCEPT !.args = parts]
                    /\ PostProcess(b) = [b EXCEPT !.args = parts]
      /\ ~isArray /\ isPair => /\ PostProcess(a) = [a EXCEPT !.args = <<joint>>]
                               /\ PostProcess(b) = [b EXCEPT !.args = <<joint>>]
      /\ ~isArray /\ ~isPair => PostProcess(a) = a /\ PostProcess(b) = b
  <2>1. a.op = op /\ a.args = args /\ b.op = op /\ b.args = args
    OBVIOUS
  <2>2. CASE isArray
    BY <2>1, <2>2 DEF PostProcess
  <2>3. CASE ~isArray /\ isPair
    BY <2>1, <2>3 DEF PostProcess
  <2>4. CASE ~isArray /\ ~isPair
    BY <2>1, <2>4 DEF PostProcess
  <2> QED
    BY <2>2, <2>3, <2>4
<1> HIDE DEF isArray, isPair, parts, joint
<1>3. CASE isArray
  BY <1>1, <1>2, <1>3
<1>4. CASE ~isArray /\ isPair
  BY <1>1, <1>2, <1>4
<1>5. CASE ~isArray /\ ~isPair
  BY <1>1, <1>2, <1>5
<1> QED
  BY <1>3, <1>4, <1>5

\* The tokens of a line, when the parser is at the first word of it.
LEMMA LineAtHand ==
    ASSUME LexOK, phase = "parse", NEW w, NEW many, many = Len(tokens) - 1,
           Placed(text, tokens, w, many, Len(text) + 1),
           NEW c \in 1..many, w[c] \in Starts(text), Ended(text, w, c)
    PROVE  OnLine(text, tokens, w, many, c, EndOfLine(c))
<1> DEFINE e == EndOfLine(c)
<1>1. /\ Len(tokens) \in Nat /\ c \in 1..Len(tokens) /\ many \in Nat /\ many + 1 = Len(tokens)
  BY DEF LexOK, Placed
<1>2. /\ e \in c..Len(tokens) /\ tokens[e].type \in {"newline", "eof"}
      /\ \A j \in c..(e - 1) : tokens[j].type \notin {"newline", "eof"}
  BY <1>1, LineEnds
<1> HIDE DEF e
<1>3. \A k \in 1..many : Fits(tokens[k], text, w[k])
  BY DEF Placed
<1>4. e # c
  BY <1>2, <1>3 DEF Fits
<1>5. e \in (c + 1)..(many + 1)
  BY <1>1, <1>2, <1>4
<1>6. \A j \in c..(e - 1) : w[j] \notin Breaks(text)
  <2>1. \A j \in c..(e - 1) : j \in 1..many
    BY <1>1, <1>5
  <2> QED
    BY <1>2, <1>3, <2>1 DEF Fits
<1>7. e <= many => w[e] \in Breaks(text)
  <2>1. e <= many => e \in 1..many
    BY <1>1, <1>5
  <2> QED
    BY <1>2, <1>3, <2>1 DEF Fits
<1> QED
  BY <1>5, <1>6, <1>7 DEF OnLine, e

\* What is gathered is what the line means.
LEMMA GatherMeans ==
    ASSUME LexOK, phase = "parse", NEW w, NEW many, many = Len(tokens) - 1, NEW c \in 1..many,
           OnLine(text, tokens, w, many, c, EndOfLine(c)), tokens[c].type = "instruction"
    PROVE  LET l == LineAt(text, w[c]) IN
           /\ IsKeyword(l.words[1])
           /\ Gather(c).op = Meant(l).op /\ Gather(c).line = l.line
           /\ Gather(c).args = Meant(l).args
<1> DEFINE l == LineAt(text, w[c])
           e == EndOfLine(c)
           words == l.words
           len == Len(text)
<1>1. /\ TextIs(len) /\ len \in Nat /\ DOMAIN text = 1..len /\ Len(tokens) \in Nat
      /\ many \in Nat /\ many + 1 = Len(tokens) /\ many <= Len(tokens)
  BY DEF LexOK, TextIs, OnLine, Placed
<1>2. PICK u, m : WordsListed(text, words, w, u, m, c, e)
  <2>1. len = Len(text)
    OBVIOUS
  <2> HIDE DEF len
  <2> QED
    BY <1>1, <2>1, WordsAre
<1>3. l.line = 1 + Newlines(text, 1, w[c])
  BY DEF LineAt
<1> DEFINE D == WordsIn(text, w, c, e)
           F == {j \in 2..Len(words) : ~IsKeyword(words[j])}
           G == {k \in (c + 1)..(e - 1) : tokens[k].type \in {"argument"}}
           f == [j \in F |-> words[j]]
           g == [k \in G |-> tokens[k].value]
           b == [j \in F |-> u[j]]
           V == {tokens[k].value : k \in G}
<1>4. /\ Gather(c).op = tokens[c].value[1] /\ Gather(c).line = tokens[c].line
      /\ Gather(c).args = InOrder(g)
  BY DEF Gather, ValuesOf
<1>5. Meant(l).op = Upper[words[1][1]] /\ Meant(l).args = InOrder(f)
  BY DEF Meant, Arguments
<1>6. /\ \A k \in 1..many : Fits(tokens[k], text, w[k])
      /\ c \in 1..many /\ e \in (c + 1)..(many + 1) /\ w[c] \in Starts(text)
  BY DEF OnLine, Placed
<1> HIDE DEF l, words, e, len
<1>7. /\ m \in Nat /\ 1 <= m /\ u[1] = c /\ Len(words) = m /\ D = {u[k] : k \in 1..m}
      /\ \A k \in 1..m : u[k] \in D
      /\ \A k, j \in 1..m : k < j => u[k] < u[j]
      /\ \A k \in 1..m : words[k] = WordAt(text, w[u[k]])
  BY <1>2 DEF WordsListed, Enumerates
<1>8. \A k \in D : k \in c..(e - 1) /\ k \in 1..many /\ w[k] \in Starts(text)
  BY <1>1, <1>6 DEF WordsIn
<1>9. words[1] = WordAt(text, w[c])
  BY <1>7
<1>10. IsKeyword(words[1]) /\ Gather(c).op = Meant(l).op /\ Gather(c).line = l.line
  <2>1. Fits(tokens[c], text, w[c])
    BY <1>6
  <2>2. IsKeyword(words[1]) /\ tokens[c].value = <<Upper[words[1][1]]>>
        /\ tokens[c].line = 1 + Newlines(text, 1, w[c])
    BY <1>6, <1>9, <2>1 DEF Fits
  <2> QED
    BY <1>3, <1>4, <1>5, <2>2
<1> HIDE DEF D
\* the arguments are the words that are no keywords
<1>11. ASSUME NEW j \in F
       PROVE  j \in 1..m /\ u[j] \in G /\ f[j] = g[u[j]]
  <2>1. j \in 1..m /\ 1 \in 1..m /\ 1 < j /\ ~IsKeyword(words[j])
    BY <1>7
  <2>2. u[j] \in 1..many /\ w[u[j]] \in Starts(text) /\ u[j] \in c..(e - 1) /\ c < u[j]
    BY <1>7, <1>8, <2>1
  <2>3. Fits(tokens[u[j]], text, w[u[j]]) /\ words[j] = WordAt(text, w[u[j]])
    BY <1>6, <1>7, <2>1, <2>2
  <2>4. tokens[u[j]].type = "argument" /\ tokens[u[j]].value = words[j]
    BY <2>1, <2>2, <2>3 DEF Fits
  <2>5. u[j] \in (c + 1)..(e - 1)
    BY <1>6, <2>2
  <2> QED
    BY <2>1, <2>4, <2>5
<1>12. ASSUME NEW k \in G
       PROVE  \E j \in F : u[j] = k
  <2>1. k \in (c + 1)..(e - 1) /\ tokens[k].type = "argument" /\ k \in 1..many /\ k \in c..(e - 1)
    BY <1>1, <1>6
  <2>2. Fits(tokens[k], text, w[k])
    BY <1>6, <2>1
  <2>3. w[k] \in Starts(text)
    BY <2>1, <2>2 DEF Fits
  <2>4. ~IsKeyword(WordAt(text, w[k]))
    BY <2>1, <2>2, <2>3 DEF Fits
  <2>5. PICK j \in 1..m : u[j] = k
    BY <1>7, <2>1, <2>3 DEF WordsIn, D
  <2>6. j # 1
    BY <1>6, <1>7, <2>1, <2>5
  <2>7. j \in 2..Len(words) /\ words[j] = WordAt(text, w[k])
    <3>1. words[j] = WordAt(text, w[u[j]])
      BY <1>7
    <3>2. j \in 2..Len(words)
      BY <1>7, <2>6
    <3> QED
      BY <2>5, <3>1, <3>2
  <2>8. j \in F
    <3>1. ~IsKeyword(words[j]) /\ j \in 2..Len(words)
      BY <2>4, <2>7
    <3> QED
      BY <3>1
  <2> QED
    BY <2>5, <2>8
<1>13. OnPositions(f, m, V) /\ OnPositions(g, many, V)
  <2>1. F \subseteq 1..m /\ G \subseteq 1..many
    BY <1>1, <1>6, <1>7
  <2>2. \A k \in G : g[k] \in V
    OBVIOUS
  <2>3. \A j \in F : f[j] \in V
    BY <1>11, <2>2
  <2>4. DOMAIN f = F /\ DOMAIN g = G /\ f \in [F -> V] /\ g \in [G -> V]
    BY <2>2, <2>3
  <2> HIDE DEF f, g, F, G, V
  <2> QED
    BY <1>1, <1>7, <2>1, <2>4 DEF OnPositions
<1>14. /\ DOMAIN b = DOMAIN f /\ {b[j] : j \in DOMAIN f} = DOMAIN g
       /\ \A i, j \in DOMAIN f : i < j => b[i] < b[j]
       /\ \A j \in DOMAIN f : f[j] = g[b[j]]
  <2>1. DOMAIN f = F /\ DOMAIN b = F /\ DOMAIN g = G /\ \A j \in F : b[j] = u[j]
    OBVIOUS
  <2> HIDE DEF f, g, b, F, G
  <2>2. {b[j] : j \in F} = G
    <3>1. \A j \in F : b[j] \in G
      BY <1>11, <2>1
    <3>2. \A k \in G : \E j \in F : b[j] = k
      BY <1>12, <2>1
    <3> QED
      BY <3>1, <3>2
  <2>3. \A i, j \in F : i < j => b[i] < b[j]
    BY <1>7, <1>11, <2>1
  <2> QED
    BY <1>11, <2>1, <2>2, <2>3
<1>15. InOrder(f) = InOrder(g)
  <2> HIDE DEF f, g, b, V
  <2> QED
    BY <1>13, <1>14, Reindexed
<1> QED
  BY <1>4, <1>5, <1>10, <1>15 DEF l, words

\* a line the parser takes, and what it makes of it
Good(l) == IsKeyword(l.words[1]) /\ ~Refuses(Meant(l))
Taken(inst, l) ==
    /\ Good(l) /\ inst.op = Meant(l).op
    /\ [op |-> inst.op, line |-> inst.line, args |-> inst.args] = PostProcess(Meant(l))

\* What the parser does at the first word of a line.
LEMMA LineParsed ==
    ASSUME LexOK, phase = "parse", NEW w, NEW many, many = Len(tokens) - 1,
           Placed(text, tokens, w, many, Len(text) + 1),
           NEW c \in 1..many, w[c] \in Starts(text), Ended(text, w, c)
    PROVE  LET l == LineAt(text, w[c]) IN
           /\ tokens[c].type = "instruction" /\ ~Refuses(Gather(c)) =>
                  Taken(PostProcess(Gather(c)), l)
           /\ tokens[c].type = "argument" => ~Good(l)
           /\ tokens[c].type = "instruction" /\ Refuses(Gather(c)) => ~Good(l)
<1> DEFINE l == LineAt(text, w[c])
           len == Len(text)
<1>1. OnLine(text, tokens, w, many, c, EndOfLine(c))
  BY LineAtHand
<1>2. ASSUME tokens[c].type = "instruction"
      PROVE  /\ ~Refuses(Gather(c)) => Taken(PostProcess(Gather(c)), l)
             /\ Refuses(Gather(c)) => ~Good(l)
  <2> DEFINE a == Gather(c)
             x == Meant(l)
  <2>1. IsKeyword(l.words[1]) /\ a.op = x.op /\ a.line = l.line /\ a.args = x.args
    BY <1>1, <1>2, GatherMeans
  <2>2. x = [op |-> x.op, line |-> l.line, args |-> x.args]
    BY DEF Meant
  <2>3. a = [op |-> a.op, line |-> a.line, args |-> a.args, flags |-> a.flags, raw |-> a.raw]
    BY DEF Gather
  <2>4. a = [op |-> x.op, line |-> l.line, args |-> x.args, flags |-> a.flags, raw |-> a.raw]
    BY <2>1, <2>3
  <2> HIDE DEF a, x, l
  <2>5. /\ Refuses(a) <=> Refuses(x)
        /\ PostProcess(x) = [op |-> PostProcess(a).op, line |-> PostProcess(a).line,
                             args |-> PostProcess(a).args]
        /\ PostProcess(x).op = x.op
    BY <2>2, <2>4, PostProcessSame
  <2>6. PostProcess(a).op = x.op
    BY <2>5
  <2> QED
    BY <2>1, <2>5, <2>6 DEF Taken, Good, a, x
<1>3. ASSUME tokens[c].type = "argument"
      PROVE  ~Good(l)
  <2>1. TextIs(len) /\ len \in Nat /\ DOMAIN text = 1..len /\ len = Len(text)
    BY DEF LexOK, TextIs
  <2> HIDE DEF len
  <2>2. PICK u, m : WordsListed(text, l.words, w, u, m, c, EndOfLine(c))
    BY <1>1, <2>1, WordsAre
  <2> HIDE DEF l
  <2>3. l.words[1] = WordAt(text, w[c])
    BY <2>2 DEF WordsListed, Enumerates
  <2>4. Fits(tokens[c], text, w[c])
    BY DEF Placed
  <2> QED
    BY <1>3, <2>3, <2>4 DEF Fits, Good
<1> QED
  BY <1>2, <1>3

-----------------------------------------------------------------------------
(* Each pass takes the lines of the text, or refuses what is not accepted. *)

\* the lines whose first word is a token before c
HeadsBefore(t, w, many, c) == {h \in Heads(t) : \E k \in 1..many : k < c /\ w[k] = h}

\* the parser has made instructions of the lines before token c
ParsedTo(t, toks, many, is, c, w, v) ==
    /\ Placed(t, toks, w, many, Len(t) + 1)
    /\ c <= many => Ended(t, w, c)
    /\ Enumerates(v, Len(is), HeadsBefore(t, w, many, c))
    /\ \A k \in 1..Len(is) : Taken(is[k], LineAt(t, v[k]))
LinesBefore(t, toks, many, is, c) == \E w, v : ParsedTo(t, toks, many, is, c, w, v)

\* every line is an instruction
LinesTaken(t, is) ==
    LET ls == LinesOf(t) IN
    /\ Len(is) = Len(ls) /\ DOMAIN ls = 1..Len(ls)
    /\ \A k \in 1..Len(is) : Taken(is[k], ls[k])

ParseRead ==
    phase = "parse" /\ SimpleText(text) => LinesBefore(text, tokens, Len(tokens) - 1, insts, cur)
GroupRead == phase \in {"group", "parsed"} /\ SimpleText(text) => LinesTaken(text, insts)
RefusedRead == phase = "refused" /\ SimpleText(text) => ~Accepted(LinesOf(text))

\* The lines of a text, by a list of their first words.
LEMMA LinesListed ==
    ASSUME NEW t, NEW len \in Nat, DOMAIN t = 1..len, NEW v, NEW m, Enumerates(v, m, Heads(t))
    PROVE  /\ Len(LinesOf(t)) = m /\ m \in Nat /\ DOMAIN LinesOf(t) = 1..m
           /\ \A k \in 1..m : LinesOf(t)[k] = LineAt(t, v[k])
<1> DEFINE f == [h \in Heads(t) |-> LineAt(t, h)]
           V == {LineAt(t, h) : h \in Heads(t)}
<1>1. LinesOf(t) = InOrder(f) /\ DOMAIN f = Heads(t) /\ \A h \in Heads(t) : f[h] = LineAt(t, h)
  BY DEF LinesOf
<1>2. OnPositions(f, len, V)
  <2>1. Heads(t) \subseteq 1..len
    BY DEF Heads, Starts
  <2> QED
    BY <2>1 DEF OnPositions
<1> HIDE DEF f, V
<1>3. /\ Len(InOrder(f)) = m /\ m \in Nat /\ DOMAIN InOrder(f) = 1..m
      /\ \A k \in 1..m : InOrder(f)[k] = f[v[k]] /\ v[k] \in DOMAIN f
  BY <1>1, <1>2, OrderListed
<1> QED
  BY <1>1, <1>3

\* Each first word begins one of the lines.
LEMMA EveryLine ==
    ASSUME NEW t, NEW len \in Nat, DOMAIN t = 1..len, NEW h \in Heads(t)
    PROVE  \E k \in DOMAIN LinesOf(t) : LinesOf(t)[k] = LineAt(t, h)
<1>1. Heads(t) \subseteq 1..len
  BY DEF Heads, Starts
<1>2. PICK m, v : Enumerates(v, m, Heads(t))
  BY <1>1, EnumerationExists
<1>3. /\ DOMAIN LinesOf(t) = 1..m
      /\ \A k \in 1..m : LinesOf(t)[k] = LineAt(t, v[k])
  BY <1>2, LinesListed
<1>4. PICK k \in 1..m : v[k] = h
  BY <1>2 DEF Enumerates
<1> QED
  BY <1>3, <1>4

\* The parser starts.
LEMMA ParserStarts ==
    ASSUME LexOK, ParseOK, LexRead, EndOfInput
    PROVE  ParseRead'
<1>1. phase = "lex" /\ phase' = "parse" /\ text' = text /\ insts' = insts /\ cur' = cur
      /\ cur = 1 /\ insts = <<>>
  BY DEF EndOfInput, ParseOK
<1> SUFFICES ASSUME SimpleText(text)
             PROVE  LinesBefore(text, tokens', Len(tokens') - 1, <<>>, 1)
  BY <1>1 DEF ParseRead
<1> DEFINE many == Len(tokens') - 1
<1>2. Stand(text, tokens', many, Len(text) + 1)
  BY <1>1, AllRead DEF TokensRead
<1> HIDE DEF many
<1>3. PICK w : Placed(text, tokens', w, many, Len(text) + 1)
  BY <1>2 DEF Stand
<1>4. HeadsBefore(text, w, many, 1) = {}
  <2>1. \A k \in 1..many : ~(k < 1)
    BY <1>3 DEF Placed
  <2> QED
    BY <2>1 DEF HeadsBefore
<1>5. Enumerates([k \in 1..0 |-> 0], Len(<<>>), {})
  BY DEF Enumerates
<1>6. Ended(text, w, 1)
  BY DEF Ended
<1>7. ParsedTo(text, tokens', many, <<>>, 1, w, [k \in 1..0 |-> 0])
  <2>1. \A k \in 1..Len(<<>>) : FALSE
    OBVIOUS
  <2> QED
    BY <1>3, <1>4, <1>5, <1>6, <2>1 DEF ParsedTo
<1> QED
  BY <1>7 DEF LinesBefore, many

\* A token that is no word is skipped.
LEMMA SkipRead ==
    ASSUME LexOK, ParseOK, ParseRead, SkipToken
    PROVE  ParseRead'
<1> DEFINE many == Len(tokens) - 1
<1>1. /\ phase = "parse" /\ text' = text /\ tokens' = tokens /\ insts' = insts /\ cur' = cur + 1
      /\ tokens[cur].type \in {"comment", "newline", "eof"}
      /\ cur \in 1..Len(tokens) /\ Len(tokens) \in Nat
  <2>1. Len(tokens) \in Nat
    BY LenProperties DEF LexOK
  <2> QED
    BY <2>1 DEF SkipToken, lexerVars, ParseOK
<1> SUFFICES ASSUME SimpleText(text)
             PROVE  LinesBefore(text, tokens, many, insts, cur + 1)
  BY <1>1 DEF ParseRead
<1>2. many + 1 = Len(tokens)
  BY <1>1
<1>3. PICK w, v : ParsedTo(text, tokens, many, insts, cur, w, v)
  BY <1>1 DEF ParseRead, LinesBefore
<1> HIDE DEF many
<1>4. many \in Nat /\ \A k \in 1..many : Fits(tokens[k], text, w[k])
  BY <1>3 DEF ParsedTo, Placed
<1>5. cur \in 1..many => w[cur] \notin Starts(text)
  BY <1>1, <1>4 DEF Fits
<1>6. HeadsBefore(text, w, many, cur + 1) = HeadsBefore(text, w, many, cur)
  <2>1. \A k \in 1..many : k < cur + 1 /\ w[k] \in Heads(text) => k < cur
    <3>1. \A k \in 1..many : k < cur + 1 => k < cur \/ k = cur
      BY <1>1, <1>4
    <3> QED
      BY <1>5, <3>1 DEF Heads
  <2>2. \A k \in 1..many : k < cur => k < cur + 1
    BY <1>1, <1>4
  <2> QED
    BY <2>1, <2>2 DEF HeadsBefore
<1>7. cur + 1 <= many => Ended(text, w, cur + 1)
  <2>1. SUFFICES ASSUME cur + 1 <= many, NEW k \in 1..((cur + 1) - 1), w[k] \in Starts(text)
                 PROVE  \E m \in (k + 1)..((cur + 1) - 1) : w[m] \in Breaks(text)
    BY DEF Ended
  <2>2. cur \in 1..many /\ cur <= many
    BY <1>1, <1>4, <2>1
  <2>3. k \in 1..(cur - 1)
    <3>1. k # cur
      BY <1>5, <2>1, <2>2
    <3> QED
      BY <1>1, <2>1, <3>1
  <2>4. PICK m \in (k + 1)..(cur - 1) : w[m] \in Breaks(text)
    BY <1>3, <2>1, <2>2, <2>3 DEF ParsedTo, Ended
  <2>5. m \in (k + 1)..((cur + 1) - 1)
    BY <1>1, <2>4
  <2> QED
    BY <2>4, <2>5
<1> QED
  BY <1>3, <1>6, <1>7 DEF ParsedTo, LinesBefore

\* the parser is at the first word of a line, and knows the lines before
LEMMA WordAtHand ==
    ASSUME LexOK, phase = "parse", NEW w, NEW many, many = Len(tokens) - 1,
           Placed(text, tokens, w, many, Len(text) + 1),
           NEW c \in 1..Len(tokens), tokens[c].type \in {"instruction", "argument", "flag"}
    PROVE  c \in 1..many /\ w[c] \in Starts(text) /\ tokens[c].type # "flag"
<1>1. Len(tokens) \in Nat /\ tokens[Len(tokens)].type = "eof"
  BY LenProperties DEF LexOK
<1>2. c # Len(tokens)
  BY <1>1
<1>3. c \in 1..many
  BY <1>1, <1>2
<1>4. Fits(tokens[c], text, w[c])
  BY <1>3 DEF Placed
<1> QED
  BY <1>3, <1>4 DEF Fits

\* A line becomes an instruction.
LEMMA InstructionRead ==
    ASSUME LexOK, ParseOK, Grouping, ParseRead, ParseInstruction
    PROVE  ParseRead'
<1> DEFINE many == Len(tokens) - 1
           inst == PostProcess(Gather(cur))
           e    == EndOfLine(cur)
           len  == Len(text)
<1>1. /\ phase = "parse" /\ text' = text /\ tokens' = tokens /\ cur' = e + 1
      /\ insts' = Append(insts, inst)
      /\ tokens[cur].type = "instruction" /\ ~Refuses(Gather(cur))
      /\ cur \in 1..Len(tokens) /\ Len(tokens) \in Nat
  <2>1. Len(tokens) \in Nat
    BY LenProperties DEF LexOK
  <2> QED
    BY <2>1 DEF ParseInstruction, lexerVars, ParseOK
<1> SUFFICES ASSUME SimpleText(text)
             PROVE  LinesBefore(text, tokens, many, insts', e + 1)
  BY <1>1 DEF ParseRead
<1>2. many = Len(tokens) - 1 /\ many + 1 = Len(tokens)
  BY <1>1
<1>3. PICK w, v : ParsedTo(text, tokens, many, insts, cur, w, v)
  BY <1>1 DEF ParseRead, LinesBefore
<1>4. TextIs(len) /\ len \in Nat /\ DOMAIN text = 1..len /\ Len(text) = len
  BY DEF LexOK, TextIs
<1> HIDE DEF many, len
<1>5. Placed(text, tokens, w, many, Len(text) + 1)
  BY <1>3 DEF ParsedTo
<1>6. /\ many \in Nat /\ \A k \in 1..many : w[k] \in 1..len
      /\ \A k, l \in 1..many : w[k] < w[l] <=> k < l
  BY <1>4, <1>5, PlacesAre
<1>7. cur \in 1..many /\ w[cur] \in Starts(text)
  BY <1>1, <1>2, <1>5, WordAtHand
<1>8. Ended(text, w, cur)
  BY <1>3, <1>6, <1>7 DEF ParsedTo
<1>9. OnLine(text, tokens, w, many, cur, e)
  BY <1>1, <1>2, <1>5, <1>7, <1>8, LineAtHand
<1>10. Taken(inst, LineAt(text, w[cur]))
  BY <1>1, <1>2, <1>5, <1>7, <1>8, LineParsed
<1> HIDE DEF inst, e
<1>11. /\ w[cur] \in Heads(text)
       /\ \A k \in (cur + 1)..e : k <= many => w[k] \notin Heads(text)
  BY <1>4, <1>9, LineIs DEF HasWords
<1>12. e \in (cur + 1)..(many + 1) /\ (e <= many => w[e] \in Breaks(text))
  BY <1>9 DEF OnLine
<1> DEFINE H == HeadsBefore(text, w, many, cur)
<1>13. HeadsBefore(text, w, many, e + 1) = H \cup {w[cur]}
  <2>1. ASSUME NEW k \in 1..many, k < e + 1, w[k] \in Heads(text)
        PROVE  k < cur \/ k = cur
    <3>1. k \notin (cur + 1)..e
      BY <1>11, <2>1
    <3> QED
      BY <1>6, <1>7, <1>12, <2>1, <3>1
  <2>2. \A k \in 1..many : k < cur \/ k = cur => k < e + 1
    BY <1>6, <1>7, <1>12
  <2> QED
    BY <1>7, <1>11, <2>1, <2>2 DEF HeadsBefore
<1>14. \A d \in H : d < w[cur]
  BY <1>6, <1>7 DEF HeadsBefore
<1>15. Enumerates(v, Len(insts), H) /\ \A k \in 1..Len(insts) : Taken(insts[k], LineAt(text, v[k]))
  BY <1>3 DEF ParsedTo
<1> HIDE DEF H
<1> DEFINE v2 == [k \in 1..(Len(insts) + 1) |-> IF k \in 1..Len(insts) THEN v[k] ELSE w[cur]]
<1>16. Enumerates(v2, Len(insts) + 1, H \cup {w[cur]})
  BY <1>14, <1>15, EnumeratesMore
<1>17. /\ Len(insts) \in Nat /\ Len(insts') = Len(insts) + 1
       /\ \A k \in 1..Len(insts) : insts'[k] = insts[k]
       /\ insts'[Len(insts) + 1] = inst
  BY <1>1, RangeAppend DEF Grouping
<1>18. ASSUME NEW k \in 1..Len(insts')
       PROVE  Taken(insts'[k], LineAt(text, v2[k]))
  <2>1. CASE k \in 1..Len(insts)
    BY <1>15, <1>17, <2>1
  <2>2. CASE k = Len(insts) + 1
    <3>1. Len(insts) + 1 \notin 1..Len(insts) /\ Len(insts) + 1 \in 1..(Len(insts) + 1)
      BY <1>17
    <3> QED
      BY <1>10, <1>17, <2>2, <3>1
  <2> QED
    BY <1>17, <2>1, <2>2
<1>19. e + 1 <= many => Ended(text, w, e + 1)
  <2>1. SUFFICES ASSUME e + 1 <= many, NEW k \in 1..((e + 1) - 1), w[k] \in Starts(text)
                 PROVE  \E m \in (k + 1)..((e + 1) - 1) : w[m] \in Breaks(text)
    BY DEF Ended
  <2>2. e \in 1..many /\ w[e] \in Breaks(text)
    BY <1>6, <1>7, <1>12, <2>1
  <2>3. k # e
    BY <1>4, <1>5, <2>1, <2>2, PlacesAre
  <2>4. e \in (k + 1)..((e + 1) - 1)
    BY <1>6, <2>1, <2>2, <2>3
  <2> QED
    BY <2>2, <2>4
<1> HIDE DEF v2
<1>20. ParsedTo(text, tokens, many, insts', e + 1, w, v2)
  BY <1>5, <1>13, <1>16, <1>17, <1>18, <1>19 DEF ParsedTo
<1> QED
  BY <1>20 DEF LinesBefore

\* What the first pass refuses is not accepted.
LEMMA ErrorRead ==
    ASSUME LexOK, ParseOK, ParseRead, ParseError
    PROVE  RefusedRead'
<1> DEFINE many == Len(tokens) - 1
           len  == Len(text)
<1>1. /\ phase = "parse" /\ text' = text /\ cur \in 1..Len(tokens)
      /\ \/ tokens[cur].type \in {"argument", "flag"}
         \/ tokens[cur].type = "instruction" /\ Refuses(Gather(cur))
  <2>1. Len(tokens) \in Nat
    BY LenProperties DEF LexOK
  <2> QED
    BY <2>1 DEF ParseError, Refuse, lexerVars, ParseOK
<1> SUFFICES ASSUME SimpleText(text)
             PROVE  ~Accepted(LinesOf(text))
  BY <1>1 DEF RefusedRead
<1>2. many = Len(tokens) - 1
  OBVIOUS
<1>3. PICK w, v : ParsedTo(text, tokens, many, insts, cur, w, v)
  BY <1>1 DEF ParseRead, LinesBefore
<1>4. len \in Nat /\ DOMAIN text = 1..len /\ Len(text) = len
  BY DEF LexOK
<1> HIDE DEF many, len
<1>5. Placed(text, tokens, w, many, Len(text) + 1) /\ many \in Nat
  BY <1>3 DEF ParsedTo, Placed
<1>6. cur \in 1..many /\ w[cur] \in Starts(text) /\ tokens[cur].type # "flag"
  BY <1>1, <1>2, <1>5, WordAtHand
<1>7. Ended(text, w, cur)
  BY <1>3, <1>5, <1>6 DEF ParsedTo
<1> DEFINE l == LineAt(text, w[cur])
<1>8. ~Good(l)
  BY <1>1, <1>2, <1>5, <1>6, <1>7, LineParsed
<1>9. w[cur] \in Heads(text)
  <2>1. OnLine(text, tokens, w, many, cur, EndOfLine(cur))
    BY <1>1, <1>2, <1>5, <1>6, <1>7, LineAtHand
  <2> QED
    BY <1>4, <2>1, LineIs DEF HasWords
<1>10. PICK k \in DOMAIN LinesOf(text) : LinesOf(text)[k] = l
  BY <1>4, <1>9, EveryLine
<1> HIDE DEF l
<1> QED
  BY <1>8, <1>10 DEF Accepted, Good

\* At the end of the tokens every line is an instruction.
LEMMA EveryLineRead ==
    ASSUME LexOK, ParseOK, ParseRead, EndOfTokens
    PROVE  GroupRead'
<1> DEFINE many == Len(tokens) - 1
           len  == Len(text)
<1>1. phase = "parse" /\ text' = text /\ insts' = insts /\ cur > Len(tokens)
      /\ Len(tokens) \in Nat /\ cur \in Nat
  <2>1. Len(tokens) \in Nat
    BY LenProperties DEF LexOK
  <2> QED
    BY <2>1 DEF EndOfTokens, lexerVars, ParseOK
<1> SUFFICES ASSUME SimpleText(text)
             PROVE  LinesTaken(text, insts)
  BY <1>1 DEF GroupRead
<1>2. many = Len(tokens) - 1
  OBVIOUS
<1>3. PICK w, v : ParsedTo(text, tokens, many, insts, cur, w, v)
  BY <1>1 DEF ParseRead, LinesBefore
<1>4. len \in Nat /\ DOMAIN text = 1..len /\ Len(text) = len
  BY DEF LexOK
<1> HIDE DEF many, len
<1>5. Placed(text, tokens, w, many, Len(text) + 1) /\ many \in Nat
  BY <1>3 DEF ParsedTo, Placed
<1>6. HeadsBefore(text, w, many, cur) = Heads(text)
  <2>1. \A h \in Heads(text) : \E k \in 1..many : w[k] = h
    BY <1>4, <1>5, PlacesAre DEF Heads
  <2>2. \A k \in 1..many : k < cur
    BY <1>1, <1>2, <1>5
  <2> QED
    BY <2>1, <2>2 DEF HeadsBefore
<1>7. /\ Enumerates(v, Len(insts), Heads(text))
      /\ \A k \in 1..Len(insts) : Taken(insts[k], LineAt(text, v[k]))
  BY <1>3, <1>6 DEF ParsedTo
<1>8. /\ Len(LinesOf(text)) = Len(insts) /\ DOMAIN LinesOf(text) = 1..Len(insts)
      /\ \A k \in 1..Len(insts) : LinesOf(text)[k] = LineAt(text, v[k])
  BY <1>4, <1>7, LinesListed
<1> QED
  BY <1>7, <1>8 DEF LinesTaken

\* before the first stage there are ARGs only, and it starts with a FROM
FromFirst ==
    /\ phase \in {"group", "parsed"} /\ stages = <<>> =>
           \A j \in 1..(cur - 1) : insts[j].op = "ARG"
    /\ phase \in {"group", "parsed"} /\ stages # <<>> =>
           \E k \in 1..(cur - 1) : insts[k].op = "FROM" /\ \A j \in 1..(k - 1) : insts[j].op = "ARG"
    /\ phase = "parsed" => stages # <<>>

TextRead == LexRead /\ ParseRead /\ GroupRead /\ RefusedRead /\ FromFirst

\* The second pass looks for the first FROM.
LEMMA FromFound ==
    ASSUME Grouping, FromFirst, EndOfTokens \/ GlobalArg \/ NewStage \/ AddToStage \/ Grouped
    PROVE  FromFirst'
<1>1. CASE EndOfTokens
  <2>1. phase = "parse" /\ phase' = "group" /\ cur' = 1 /\ stages' = stages /\ stages = <<>>
    BY <1>1 DEF EndOfTokens, Grouping
  <2> QED
    BY <2>1 DEF FromFirst
<1>2. CASE Grouped
  BY <1>2 DEF Grouped, FromFirst
<1>3. CASE GlobalArg \/ NewStage \/ AddToStage
  <2>1. /\ More /\ phase' = "group" /\ phase = "group" /\ cur' = cur + 1 /\ insts' = insts
        /\ GroupedSoFar /\ cur \in Nat /\ 1 <= cur /\ cur' - 1 = cur /\ cur \in 1..cur
    <3>1. More /\ phase' = phase /\ phase = "group" /\ cur' = cur + 1 /\ insts' = insts
      BY <1>3 DEF GlobalArg, NewStage, AddToStage, More
    <3>2. GroupedSoFar /\ cur \in 1..Len(insts)
      BY <3>1, AtHand
    <3> QED
      BY <3>1, <3>2
  <2>2. /\ 1..cur = (1..(cur - 1)) \cup {cur}
        /\ 1..(cur - 1) \subseteq 1..cur
    BY <2>1
  <2>3. CASE GlobalArg
    <3>1. stages = <<>> /\ stages' = <<>> /\ insts[cur].op = "ARG"
      BY <2>3 DEF GlobalArg
    <3> QED
      BY <2>1, <2>2, <3>1 DEF FromFirst
  <2>4. CASE stages # <<>> /\ stages' # <<>>
    BY <2>1, <2>2, <2>4 DEF FromFirst
  <2>5. CASE NewStage /\ stages = <<>>
    <3>1. stages' # <<>> /\ insts[cur].op = "FROM"
      BY <2>5 DEF NewStage
    <3>2. \A j \in 1..(cur - 1) : insts'[j].op = "ARG"
      BY <2>1, <2>5 DEF FromFirst
    <3> QED
      BY <2>1, <3>1, <3>2 DEF FromFirst
  <2>6. (NewStage /\ stages # <<>>) \/ AddToStage => stages # <<>> /\ stages' # <<>>
    <3>1. stages \in Seq(Range(stages))
      BY <2>1 DEF GroupedSoFar
    <3>2. NewStage => stages' # <<>>
      <4>1. SUFFICES ASSUME NewStage
                     PROVE  stages' # <<>>
        OBVIOUS
      <4>2. \E x : stages' = Append(stages, x)
        BY <4>1 DEF NewStage
      <4> QED
        BY <3>1, <4>2, RangeAppend
    <3>3. AddToStage => stages # <<>> /\ stages' # <<>>
      <4>1. SUFFICES ASSUME AddToStage
                     PROVE  stages # <<>> /\ stages' # <<>>
        OBVIOUS
      <4>2. stages # <<>> /\ DOMAIN stages' = DOMAIN stages
        BY <4>1 DEF AddToStage
      <4> QED
        BY <3>1, <4>2
    <3> QED
      BY <3>2, <3>3
  <2> QED
    BY <1>3, <2>3, <2>4, <2>5, <2>6
<1> QED
  BY <1>1, <1>2, <1>3

\* What the second pass refuses is not accepted.
LEMMA GroupErrorRead ==
    ASSUME Grouping, GroupRead, FromFirst, GroupError
    PROVE  RefusedRead'
<1>1. /\ phase = "group" /\ stages = <<>> /\ text' = text
      /\ More => insts[cur].op \notin {"ARG", "FROM"}
  BY DEF GroupError, Refuse, lexerVars
<1> SUFFICES ASSUME SimpleText(text), Accepted(LinesOf(text))
             PROVE  FALSE
  BY <1>1 DEF RefusedRead
<1> DEFINE ls == LinesOf(text)
<1>2. /\ Len(insts) = Len(ls) /\ DOMAIN ls = 1..Len(ls) /\ Len(insts) \in Nat
      /\ \A k \in 1..Len(insts) : Taken(insts[k], ls[k])
  <2>1. Len(insts) \in Nat
    BY LenProperties DEF Grouping
  <2> QED
    BY <1>1, <2>1 DEF GroupRead, LinesTaken
<1>3. PICK k \in DOMAIN ls : Meant(ls[k]).op = "FROM" /\ \A j \in 1..(k - 1) : Meant(ls[j]).op = "ARG"
  BY DEF Accepted
<1> HIDE DEF ls
<1>4. \A j \in 1..Len(insts) : insts[j].op = Meant(ls[j]).op
  BY <1>2 DEF Taken
<1>5. cur \in 1..(Len(insts) + 1) /\ \A j \in 1..(cur - 1) : insts[j].op = "ARG"
  BY <1>1 DEF Grouping, GroupedSoFar, FromFirst
<1>6. k \in 1..Len(insts) /\ insts[k].op = "FROM"
  BY <1>2, <1>3, <1>4
<1>7. ~(k < cur)
  <2>1. k < cur => k \in 1..(cur - 1)
    BY <1>5, <1>6
  <2> QED
    BY <1>5, <1>6, <2>1
<1>8. cur \in 1..Len(insts) /\ insts[cur].op \notin {"ARG", "FROM"}
  BY <1>1, <1>2, <1>5, <1>6, <1>7 DEF More
<1>9. cur # k
  BY <1>6, <1>8
<1>10. cur \in 1..(k - 1)
  BY <1>5, <1>6, <1>7, <1>9
<1>11. Meant(ls[cur]).op = "ARG"
  BY <1>3, <1>10
<1> QED
  BY <1>4, <1>8, <1>11

\* Every step of Parse.
LEMMA ParseReads ==
    ASSUME LexOK, ParseOK, Grouping, TextRead, Parse
    PROVE  TextRead'
<1>1. CASE Scans
  <2>1. phase = "lex" /\ phase' = "lex" /\ text' = text
    BY <1>1 DEF Scans, ScanComment, ScanNewline, ScanFlag, ScanJSONArray, ScanQuotedString,
                ScanWord, Emit
  <2>2. LexRead'
    <3>1. CASE SimpleText(text)
      BY <1>1, <3>1, ScanKeepsRead DEF TextRead
    <3>2. CASE ~SimpleText(text)
      BY <2>1, <3>2 DEF LexRead
    <3> QED
      BY <3>1, <3>2
  <2> QED
    BY <2>1, <2>2 DEF TextRead, ParseRead, GroupRead, RefusedRead, FromFirst
<1>2. CASE EndOfInput
  <2>1. phase' = "parse"
    BY <1>2 DEF EndOfInput
  <2>2. ParseRead'
    BY <1>2, ParserStarts DEF TextRead
  <2> QED
    BY <2>1, <2>2 DEF TextRead, LexRead, GroupRead, RefusedRead, FromFirst
<1>3. CASE SkipToken \/ ParseInstruction
  <2>1. phase' = "parse"
    BY <1>3 DEF SkipToken, ParseInstruction
  <2>2. ParseRead'
    BY <1>3, SkipRead, InstructionRead DEF TextRead
  <2> QED
    BY <2>1, <2>2 DEF TextRead, LexRead, GroupRead, RefusedRead, FromFirst
<1>4. CASE ParseError \/ GroupError
  <2>1. phase' = "refused"
    BY <1>4 DEF ParseError, GroupError, Refuse
  <2>2. RefusedRead'
    BY <1>4, ErrorRead, GroupErrorRead DEF TextRead
  <2> QED
    BY <2>1, <2>2 DEF TextRead, LexRead, ParseRead, GroupRead, FromFirst
<1>5. CASE EndOfTokens
  <2>1. phase' = "group"
    BY <1>5 DEF EndOfTokens
  <2>2. GroupRead' /\ FromFirst'
    BY <1>5, EveryLineRead, FromFound DEF TextRead
  <2> QED
    BY <2>1, <2>2 DEF TextRead, LexRead, ParseRead, RefusedRead
<1>6. CASE GlobalArg \/ NewStage \/ AddToStage \/ Grouped
  <2>1. phase = "group" /\ phase' \in {"group", "parsed"} /\ text' = text /\ insts' = insts
    BY <1>6 DEF GlobalArg, NewStage, AddToStage, Grouped, More, lexerVars
  <2>2. FromFirst'
    BY <1>6, FromFound DEF TextRead
  <2>3. GroupRead'
    BY <2>1 DEF TextRead, GroupRead
  <2> QED
    BY <2>1, <2>2, <2>3 DEF TextRead, LexRead, ParseRead, RefusedRead
<1> QED
  BY <1>1, <1>2, <1>3, <1>4, <1>5, <1>6 DEF Parse, Tokenize, Scans

\* Every step of main, and of a walk.
LEMMA StepKeepsText ==
    ASSUME LexOK, ParseOK, Grouping, TextRead, [Next]_allVars
    PROVE  TextRead'
<1>1. CASE StartBuild
  <2>1. /\ pos' = 1 /\ line' = 1 /\ tokens' = <<>> /\ phase' = "lex" /\ text' = text
    BY <1>1 DEF StartBuild
  <2>2. Newlines(text, 1, 0) = 0 /\ Edge(text, 1) /\ Stand(text, <<>>, 0, 1)
    BY NothingReadYet DEF LexOK
  <2>3. LexRead'
    BY <2>1, <2>2 DEF LexRead
  <2> QED
    BY <2>1, <2>3 DEF TextRead, ParseRead, GroupRead, RefusedRead, FromFirst
<1>2. CASE ParseDockerfile
  BY <1>2, ParseReads DEF ParseDockerfile
<1>3. CASE UNCHANGED dockerfileVars
  BY <1>3 DEF TextRead, LexRead, ParseRead, GroupRead, RefusedRead, FromFirst, dockerfileVars
<1>4. Parsed \/ Fail \/ LookupOnly \/ FilesystemInstruction \/ Export => UNCHANGED dockerfileVars
  BY DEF Parsed, Fail, LookupOnly, FilesystemInstruction, Execute, Export
<1> QED
  BY <1>1, <1>2, <1>3, <1>4 DEF Next, Main, allVars, vars

\* The first text, or none.
LEMMA StartsText ==
    ASSUME FrontendInit
    PROVE  TextRead
<1>1. LexOK
  BY StartsOK
<1>2. CASE Init
  <2>1. /\ phase = "lex" /\ pos = 1 /\ line = 1 /\ tokens = <<>>
        /\ Len(<<>>) = 0 /\ 1 - 1 = 0 /\ 1 + 0 = 1
    BY <1>2 DEF Init, DockerfileInit
  <2>2. Newlines(text, 1, 0) = 0 /\ Edge(text, 1) /\ Stand(text, <<>>, 0, 1)
    BY <1>1, NothingReadYet DEF LexOK
  <2>3. LexRead
    BY <2>1, <2>2 DEF LexRead
  <2> QED
    BY <2>1, <2>3 DEF TextRead, ParseRead, GroupRead, RefusedRead, FromFirst
<1>3. CASE NoBuild
  <2>1. phase = "refused" /\ text = <<>>
    BY <1>3 DEF NoBuild
  <2>2. ~Accepted(LinesOf(text))
    <3>1. DOMAIN text = 1..0 /\ Heads(text) = {}
      BY <2>1 DEF Heads, Starts
    <3>2. Enumerates([k \in 1..0 |-> 0], 0, {})
      BY DEF Enumerates
    <3>3. DOMAIN LinesOf(text) = 1..0
      BY <3>1, <3>2, LinesListed
    <3>4. DOMAIN LinesOf(text) = {}
      BY <3>3
    <3> QED
      BY <3>4 DEF Accepted
  <2> QED
    BY <2>1, <2>2 DEF TextRead, LexRead, ParseRead, GroupRead, RefusedRead, FromFirst
<1> QED
  BY <1>2, <1>3 DEF FrontendInit

\* What has been read to the end.
LEMMA ReadIsParsed ==
    ASSUME Grouping, TextRead
    PROVE  ParsesTheText
<1>1. Written = LinesOf(text) /\ (Simple <=> SimpleText(text))
  BY WrittenIs
<1> DEFINE ls == LinesOf(text)
           found == [i \in DOMAIN insts |->
                       [op |-> insts[i].op, line |-> insts[i].line, args |-> insts[i].args]]
           meant == [k \in DOMAIN ls |-> PostProcess(Meant(ls[k]))]
<1>2. CASE phase = "refused" /\ SimpleText(text)
  <2>1. ~Accepted(ls)
    BY <1>2 DEF TextRead, RefusedRead
  <2> QED
    BY <1>1, <1>2, <2>1 DEF ParsesTheText
<1>3. CASE phase = "parsed" /\ SimpleText(text)
  <2>1. /\ Len(insts) = Len(ls) /\ DOMAIN ls = 1..Len(ls) /\ Len(insts) \in Nat
        /\ DOMAIN insts = 1..Len(insts)
        /\ \A k \in 1..Len(insts) : Taken(insts[k], ls[k])
    <3>1. Len(insts) \in Nat /\ DOMAIN insts = 1..Len(insts)
      BY LenProperties DEF Grouping
    <3> QED
      BY <1>3, <3>1 DEF TextRead, GroupRead, LinesTaken
  <2>2. cur \in 1..(Len(insts) + 1)
    BY <1>3 DEF Grouping, GroupedSoFar
  <2>3. PICK k \in 1..(cur - 1) : insts[k].op = "FROM" /\ \A j \in 1..(k - 1) : insts[j].op = "ARG"
    BY <1>3 DEF TextRead, FromFirst
  <2> HIDE DEF ls
  <2>4. \A j \in DOMAIN ls : insts[j].op = Meant(ls[j]).op /\ Good(ls[j])
    BY <2>1 DEF Taken
  <2>5. k \in DOMAIN ls /\ \A j \in 1..(k - 1) : j \in DOMAIN ls
    BY <2>1, <2>2
  <2>6. Meant(ls[k]).op = "FROM" /\ \A j \in 1..(k - 1) : Meant(ls[j]).op = "ARG"
    BY <2>3, <2>4, <2>5
  <2>7. Accepted(ls)
    BY <2>4, <2>5, <2>6 DEF Accepted, Good
  <2>8. found = meant
    <3>1. DOMAIN insts = DOMAIN ls
      BY <2>1
    <3>2. \A i \in DOMAIN ls :
             [op |-> insts[i].op, line |-> insts[i].line, args |-> insts[i].args]
               = PostProcess(Meant(ls[i]))
      BY <2>1 DEF Taken
    <3> QED
      BY <3>1, <3>2
  <2> QED
    BY <1>1, <1>3, <2>7, <2>8 DEF ParsesTheText, ls
<1> QED
  BY <1>1, <1>2, <1>3 DEF ParsesTheText

\* For every text without quotes, arrays and flags: what Parse accepts, and what
\* it makes of it, is what the positions of the text say.  (Tokenize with
\* continuations, comments and CRLF, parseInstruction, postProcess,
\* buildDockerfile.)
THEOREM TextsAreParsed == FrontendSpec => []ParsesTheText
<1> DEFINE IInv == LexOK /\ ParseOK /\ Grouping /\ TextRead
<1>1. FrontendInit => IInv
  BY StartsOK, NothingGrouped, StartsText
<1>2. IInv /\ [Next]_allVars => IInv'
  BY StepKeepsOK, StepKeepsGrouping, StepKeepsText
<1>3. IInv => ParsesTheText
  BY ReadIsParsed
<1> QED
  BY <1>1, <1>2, <1>3, PTL DEF FrontendSpec

-----------------------------------------------------------------------------
(* IsIgnored.                                                              *)

\* the rules are a sequence of rules, and so will be what is left to read
RulesAreRules ==
    /\ rules \in Seq(Range(rules)) /\ \A l \in Range(rules) : l.negate \in BOOLEAN
    /\ lines \in Seq(Range(lines))
    /\ \A l \in Range(lines) : l.says = "rule" => l.negate \in BOOLEAN

\* what the loop of IsIgnored computes, by the positions of the rules it has
\* been through
Step(f, p) ==
    f = [s \in SUBSET DOMAIN rules |->
            IF s = {} THEN FALSE
            ELSE IF Matches(rules[Max(s)], p) THEN ~rules[Max(s)].negate ELSE f[s \ {Max(s)}]]

\* the last of these rules about p excludes it
LastExcludes(s, p) ==
    \E i \in s : /\ Matches(rules[i], p) /\ ~rules[i].negate
                 /\ \A j \in s : Matches(rules[j], p) => j <= i

\* What the loop does at its last rule, and before.
LEMMA LastRule ==
    ASSUME RulesAreRules, NEW p, NEW s \in SUBSET DOMAIN rules, s # {}
    PROVE  /\ Max(s) \in s /\ s \ {Max(s)} \in SUBSET DOMAIN rules
           /\ LastExcludes(s, p) <=> IF Matches(rules[Max(s)], p) THEN ~rules[Max(s)].negate
                                     ELSE LastExcludes(s \ {Max(s)}, p)
<1> DEFINE m == Max(s)
<1>1. Len(rules) \in Nat /\ DOMAIN rules = 1..Len(rules)
  BY LenProperties DEF RulesAreRules
<1>2. m \in s /\ m \in Int /\ \A j \in s : j \in Int /\ j <= m
  BY <1>1, EndsExist
<1> HIDE DEF m
<1>3. CASE Matches(rules[m], p)
  <2>1. ASSUME LastExcludes(s, p) PROVE ~rules[m].negate
    <3>1. PICK i \in s : ~rules[i].negate /\ m <= i
      BY <1>2, <1>3, <2>1 DEF LastExcludes
    <3>2. i = m
      BY <1>2, <3>1
    <3> QED
      BY <3>1, <3>2
  <2>2. ASSUME ~rules[m].negate PROVE LastExcludes(s, p)
    BY <1>2, <1>3, <2>2 DEF LastExcludes
  <2> QED
    BY <1>2, <1>3, <2>1, <2>2 DEF m
<1>4. CASE ~Matches(rules[m], p)
  <2>1. LastExcludes(s, p) <=> LastExcludes(s \ {m}, p)
    BY <1>2, <1>4 DEF LastExcludes
  <2> QED
    BY <1>2, <1>4, <2>1 DEF m
<1> QED
  BY <1>3, <1>4

\* The loop has a result, and it is the one the last rule gives.
LEMMA IgnoredIsLast ==
    ASSUME RulesAreRules, NEW p
    PROVE  IsIgnored(p) <=> LastExcludes(DOMAIN rules, p)
<1> DEFINE D == DOMAIN rules
           g == [s \in SUBSET D |-> LastExcludes(s, p)]
           F == CHOOSE f : Step(f, p)
<1>1. Len(rules) \in Nat /\ D = 1..Len(rules)
  BY LenProperties DEF RulesAreRules
<1>2. Step(g, p)
  <2>1. ASSUME NEW s \in SUBSET D
        PROVE  LastExcludes(s, p) =
                 IF s = {} THEN FALSE
                 ELSE IF Matches(rules[Max(s)], p) THEN ~rules[Max(s)].negate
                 ELSE g[s \ {Max(s)}]
    <3>1. CASE s = {}
      BY <3>1 DEF LastExcludes
    <3>2. CASE s # {}
      <4>1. s \ {Max(s)} \in SUBSET D
        OBVIOUS
      <4>2. g[s \ {Max(s)}] = LastExcludes(s \ {Max(s)}, p)
        BY <4>1
      <4> HIDE DEF g
      <4>3. LastExcludes(s, p) <=> IF Matches(rules[Max(s)], p) THEN ~rules[Max(s)].negate
                                   ELSE LastExcludes(s \ {Max(s)}, p)
        BY <3>2, LastRule
      <4>4. LastExcludes(s, p) = IF Matches(rules[Max(s)], p) THEN ~rules[Max(s)].negate
                                 ELSE LastExcludes(s \ {Max(s)}, p)
        <5>1. CASE Matches(rules[Max(s)], p)
          <6>1. LastExcludes(s, p) = ~rules[Max(s)].negate
            BY <4>3, <5>1 DEF LastExcludes
          <6> QED
            BY <5>1, <6>1
        <5>2. CASE ~Matches(rules[Max(s)], p)
          <6>1. LastExcludes(s, p) = LastExcludes(s \ {Max(s)}, p)
            BY <4>3, <5>2 DEF LastExcludes
          <6> QED
            BY <5>2, <6>1
        <5> QED
          BY <5>1, <5>2
      <4> QED
        BY <3>2, <4>2, <4>4
    <3> QED
      BY <3>1, <3>2
  <2>2. g = [s \in SUBSET D |->
                 IF s = {} THEN FALSE
                 ELSE IF Matches(rules[Max(s)], p) THEN ~rules[Max(s)].negate
                 ELSE g[s \ {Max(s)}]]
    BY <2>1
  <2> HIDE DEF g
  <2> QED
    BY <2>2 DEF Step
<1>3. Step(F, p)
  <2> HIDE DEF g
  <2> QED
    BY <1>2
<1>4. IsIgnored(p) = F[D]
  BY DEF IsIgnored, FoldLeft, MapThenFoldSet, Step
<1> HIDE DEF F
<1> DEFINE T == {k \in Nat \ {0} : k <= Len(rules) + 1 => F[1..(k - 1)] = g[1..(k - 1)]}
<1>5. 1 \in T
  <2>1. F[{}] = FALSE
    BY <1>3 DEF Step
  <2>2. g[{}] = FALSE
    BY <1>2 DEF Step
  <2>3. 1..(1 - 1) = {} /\ 1 \in Nat \ {0}
    OBVIOUS
  <2> HIDE DEF g
  <2>4. F[1..(1 - 1)] = g[1..(1 - 1)]
    BY <2>1, <2>2, <2>3
  <2> QED
    BY <2>3, <2>4
<1>6. ASSUME NEW k \in Nat \ {0}, k \in T
      PROVE  k + 1 \in T
  <2>1. SUFFICES ASSUME k + 1 <= Len(rules) + 1
                 PROVE  F[1..((k + 1) - 1)] = g[1..((k + 1) - 1)]
    OBVIOUS
  <2>2. F[1..(k - 1)] = g[1..(k - 1)]
    BY <1>1, <1>6, <2>1
  <2>3. /\ (k + 1) - 1 = k /\ 1..k \in SUBSET D /\ 1..k # {}
        /\ (1..k) \ {k} = 1..(k - 1) /\ Max(1..k) = k
    <3>1. k \in 1..k /\ 1..k \in SUBSET D /\ (k + 1) - 1 = k /\ (1..k) \ {k} = 1..(k - 1)
      BY <1>1, <2>1
    <3>2. Max(1..k) \in 1..k /\ \A x \in 1..k : x <= Max(1..k)
      BY <3>1, EndsExist
    <3>3. Max(1..k) = k
      BY <3>1, <3>2
    <3> QED
      BY <3>1, <3>3
  <2> HIDE DEF g
  <2>4. ASSUME NEW f, Step(f, p)
        PROVE  f[1..k] = IF Matches(rules[k], p) THEN ~rules[k].negate ELSE f[1..(k - 1)]
    BY <2>3, <2>4 DEF Step
  <2>5. F[1..k] = IF Matches(rules[k], p) THEN ~rules[k].negate ELSE F[1..(k - 1)]
    BY <1>3, <2>4
  <2>6. g[1..k] = IF Matches(rules[k], p) THEN ~rules[k].negate ELSE g[1..(k - 1)]
    BY <1>2, <2>4
  <2>7. F[1..k] = g[1..k]
    BY <2>2, <2>5, <2>6
  <2> QED
    BY <2>3, <2>7
<1>7. F[D] = g[D]
  <2> HIDE DEF T
  <2>1. Len(rules) + 1 \in T
    BY <1>1, <1>5, <1>6, SetInduction
  <2>2. (Len(rules) + 1) - 1 = Len(rules) /\ Len(rules) + 1 <= Len(rules) + 1
    BY <1>1
  <2> QED
    BY <1>1, <2>1, <2>2 DEF T
<1>8. g[D] = LastExcludes(D, p)
  OBVIOUS
<1> QED
  BY <1>4, <1>7, <1>8

\* IsIgnored is the opposite of what the last rule about a path lets in.
LEMMA IgnoredUnlessLetIn ==
    ASSUME RulesAreRules, NEW p
    PROVE  IsIgnored(p) <=> ~LetsIn(p)
<1> DEFINE D     == DOMAIN rules
           about == {i \in D : Matches(rules[i], p)}
           last  == CHOOSE i \in about : \A j \in about : j <= i
<1>1. Len(rules) \in Nat /\ D = 1..Len(rules)
  BY LenProperties DEF RulesAreRules
<1>2. CASE about = {}
  <2>1. ~LastExcludes(D, p)
    BY <1>2 DEF LastExcludes
  <2>2. LetsIn(p)
    BY <1>2 DEF LetsIn
  <2> QED
    BY <2>1, <2>2, IgnoredIsLast
<1>3. CASE about # {}
  <2>1. about \subseteq 1..Len(rules)
    BY <1>1
  <2>2. Max(about) \in about /\ \A j \in about : j <= Max(about)
    <3> HIDE DEF about
    <3> QED
      BY <1>1, <1>3, <2>1, EndsExist
  <2>3. last \in about /\ \A j \in about : j <= last
    <3> HIDE DEF about
    <3> QED
      BY <2>2
  <2>4. LetsIn(p) <=> rules[last].negate
    BY <1>3 DEF LetsIn
  <2> HIDE DEF last
  <2>5. ASSUME ~rules[last].negate PROVE LastExcludes(D, p)
    BY <2>3, <2>5 DEF LastExcludes
  <2>6. ASSUME LastExcludes(D, p) PROVE ~rules[last].negate
    <3>1. PICK i \in D : /\ Matches(rules[i], p) /\ ~rules[i].negate
                         /\ \A j \in D : Matches(rules[j], p) => j <= i
      BY <2>6 DEF LastExcludes
    <3>2. i <= last /\ last <= i /\ i \in Int /\ last \in Int
      BY <1>1, <2>3, <3>1
    <3>3. i = last
      BY <3>2
    <3> QED
      BY <3>1, <3>3
  <2> QED
    BY <2>4, <2>5, <2>6, IgnoredIsLast
<1> QED
  BY <1>2, <1>3

-----------------------------------------------------------------------------
(* WalkFiles.                                                              *)

\* p is met before q
Before(p, q) ==
    \E i, j \in DOMAIN WalkOrder : i < j /\ WalkOrder[i] = p /\ WalkOrder[j] = q

\* nothing above p, and not p, is excluded by the last rule about it
AllLetIn(p) == \A q \in DOMAIN root : q = p \/ Below(p, q) => LetsIn(q)

\* what is walked comes in order, and before what is left; what is gone was
\* walked or is excluded; what is left is below nothing that is excluded
Walking ==
    /\ rest \subseteq DOMAIN root /\ walked \in Seq(DOMAIN root)
    /\ \A i, j \in DOMAIN walked : i < j => Before(walked[i], walked[j])
    /\ \A p \in DOMAIN root \ rest : p \in Range(walked) <=> AllLetIn(p)
    /\ doing = "walk" =>
        /\ \A i \in DOMAIN walked, p \in rest : Before(walked[i], p)
        /\ \A p \in rest, q \in DOMAIN root \ rest : Below(p, q) => LetsIn(q)

WalkInv ==
    /\ doing \in {"none", "load", "walk", "done"}
    /\ RulesAreRules
    /\ IsTree(root)
    /\ doing \in {"none", "load"} => walked = <<>>
    /\ doing \in {"walk", "done"} => Walking

\* Every path has one place in the walk.
LEMMA BeforeIsStrict ==
    ASSUME NEW p, NEW q, Before(p, q)
    PROVE  p # q /\ ~Before(q, p)
<1>1. PICK i, j \in DOMAIN WalkOrder : i < j /\ WalkOrder[i] = p /\ WalkOrder[j] = q
  BY DEF Before
<1>2. \A a, b \in DOMAIN WalkOrder : WalkOrder[a] = WalkOrder[b] => a = b
  BY WalkVisitsParentsFirst DEF IsInjective
<1>3. DOMAIN WalkOrder = 1..Len(WalkOrder) /\ Len(WalkOrder) \in Nat
  BY WalkVisitsParentsFirst, LenProperties
<1>4. p # q
  BY <1>1, <1>2, <1>3
<1>5. ASSUME Before(q, p) PROVE FALSE
  <2>1. PICK a, b \in DOMAIN WalkOrder : a < b /\ WalkOrder[a] = q /\ WalkOrder[b] = p
    BY <1>5 DEF Before
  <2>2. a = j /\ b = i
    BY <1>1, <1>2, <2>1
  <2> QED
    BY <1>1, <1>3, <2>1, <2>2
<1> QED
  BY <1>4, <1>5

\* A directory is met before what is in it.
LEMMA ParentFirst ==
    ASSUME NEW p \in Path, NEW q \in Path, Below(p, q)
    PROVE  Before(q, p)
<1>1. PICK i, j \in DOMAIN WalkOrder : WalkOrder[i] = q /\ WalkOrder[j] = p
  BY DEF Path, Range
<1>2. i < j
  BY <1>1, WalkVisitsParentsFirst
<1> QED
  BY <1>1, <1>2 DEF Before

\* What is below something below p is below p.
LEMMA BelowBelow ==
    ASSUME NEW p \in Path, NEW q \in Path, NEW r \in Path, Below(q, p), Below(r, q)
    PROVE  Below(r, p)
<1> DEFINE S == Range(p) \cup Range(q) \cup Range(r)
<1>1. p \in Seq(S) /\ q \in Seq(S) /\ r \in Seq(S)
  <2>1. p \in Seq(Range(p)) /\ q \in Seq(Range(q)) /\ r \in Seq(Range(r))
    BY WalkVisitsParentsFirst
  <2>2. Range(p) \subseteq S /\ Range(q) \subseteq S /\ Range(r) \subseteq S
    OBVIOUS
  <2> HIDE DEF S
  <2> QED
    BY <2>1, <2>2, SeqMonotonic
<1> HIDE DEF S
<1>2. Len(p) \in Nat /\ Len(q) \in Nat /\ Len(r) \in Nat
  BY <1>1, LenProperties
<1>3. ASSUME NEW s \in Seq(S), NEW t \in Seq(S)
      PROVE  IsPrefix(s, t) <=> Len(s) <= Len(t) /\ \A i \in 1..Len(s) : s[i] = t[i]
  <2>1. Len(s) \in Nat /\ Len(t) \in Nat
    BY LenProperties
  <2>2. SubSeq(s, 1, Len(s)) = s
    BY SubSeqFull
  <2>3. ASSUME Len(s) <= Len(t)
        PROVE  s = SubSeq(t, 1, Len(s)) <=> \A i \in 1..Len(s) : s[i] = t[i]
    <3>1. /\ SubSeq(t, 1, Len(s)) \in Seq(S) /\ Len(SubSeq(t, 1, Len(s))) = Len(s)
          /\ \A i \in 1..Len(s) : SubSeq(t, 1, Len(s))[i] = t[i]
      BY <2>1, <2>3, SubSeqProperties
    <3>2. (\A i \in 1..Len(s) : s[i] = t[i]) => s = SubSeq(t, 1, Len(s))
      BY <3>1, SeqEqual
    <3> QED
      BY <3>1, <3>2
  <2> QED
    BY <2>2, <2>3 DEF IsPrefix
<1>4. /\ Len(p) <= Len(q) /\ \A i \in 1..Len(p) : p[i] = q[i]
      /\ Len(q) <= Len(r) /\ \A i \in 1..Len(q) : q[i] = r[i]
      /\ p # q
  BY <1>1, <1>3 DEF Below, IsStrictPrefix
<1>5. \A i \in 1..Len(p) : i \in 1..Len(q) /\ p[i] = r[i]
  BY <1>2, <1>4
<1>6. IsPrefix(p, r)
  BY <1>1, <1>2, <1>3, <1>4, <1>5
<1>7. p # r
  <2>1. SUFFICES ASSUME p = r PROVE FALSE
    OBVIOUS
  <2>2. Len(p) = Len(q)
    BY <1>2, <1>4, <2>1
  <2> QED
    BY <1>1, <1>4, <2>2, SeqEqual
<1> QED
  BY <1>6, <1>7 DEF Below, IsStrictPrefix

\* The next path is met before all others that are left.
LEMMA NextIsFirst ==
    ASSUME NEW p, IsNext(p), NEW q \in rest, q \in Path, q # p
    PROVE  Before(p, q)
<1>1. PICK k \in DOMAIN WalkOrder :
         WalkOrder[k] = p /\ \A j \in 1..(k - 1) : WalkOrder[j] \notin rest
  BY DEF IsNext
<1>2. PICK j \in DOMAIN WalkOrder : WalkOrder[j] = q
  BY DEF Path, Range
<1>3. DOMAIN WalkOrder = 1..Len(WalkOrder) /\ Len(WalkOrder) \in Nat
  BY WalkVisitsParentsFirst, LenProperties
<1>4. k < j
  BY <1>1, <1>2, <1>3
<1> QED
  BY <1>1, <1>2, <1>4 DEF Before

\* Whatever the walk has done, the files of the tree are paths.
LEMMA PathsOfTree ==
    ASSUME WalkInv
    PROVE  DOMAIN root \subseteq Path
BY DEF WalkInv, IsTree

\* A file of the ignore file is read.
LEMMA LineLoaded ==
    ASSUME WalkInv, LoadLine
    PROVE  WalkInv'
<1>1. /\ doing = "load" /\ lines # <<>> /\ lines' = Tail(lines)
      /\ rules' = IF Head(lines).says = "rule" THEN Append(rules, Head(lines)) ELSE rules
      /\ UNCHANGED <<root, doing, walked>>
  BY DEF LoadLine
<1>2. RulesAreRules /\ IsTree(root) /\ walked = <<>>
  BY <1>1 DEF WalkInv
<1>3. /\ Head(lines) \in Range(lines)
      /\ lines' \in Seq(Range(lines')) /\ Range(lines') \subseteq Range(lines)
  <2>1. lines \in Seq(Range(lines))
    BY <1>2 DEF RulesAreRules
  <2>2. Len(lines) \in Nat \ {0} /\ DOMAIN lines = 1..Len(lines) /\ Head(lines) = lines[1]
    BY <1>1, <2>1, EmptySeq, LenProperties
  <2>3. /\ Tail(lines) \in Seq(Range(lines)) /\ Len(Tail(lines)) = Len(lines) - 1
        /\ \A i \in 1..(Len(lines) - 1) : Tail(lines)[i] = lines[i + 1]
    BY <1>1, <2>1, HeadTailProperties
  <2>4. Tail(lines) \in Seq(Range(Tail(lines)))
    BY <2>3, SeqOfRange
  <2>5. Range(Tail(lines)) \subseteq Range(lines)
    <3>1. DOMAIN Tail(lines) = 1..(Len(lines) - 1)
      BY <2>3, LenProperties
    <3>2. \A i \in 1..(Len(lines) - 1) : Tail(lines)[i] \in Range(lines)
      BY <2>2, <2>3 DEF Range
    <3> QED
      BY <3>1, <3>2 DEF Range
  <2>6. 1 \in DOMAIN lines
    BY <2>2
  <2> QED
    BY <1>1, <2>2, <2>4, <2>5, <2>6 DEF Range
<1>4. rules' \in Seq(Range(rules')) /\ \A l \in Range(rules') : l.negate \in BOOLEAN
  <2>1. CASE rules' = rules
    BY <1>2, <2>1 DEF RulesAreRules
  <2>2. CASE Head(lines).says = "rule" /\ rules' = Append(rules, Head(lines))
    <3>1. rules \in Seq(Range(rules))
      BY <1>2 DEF RulesAreRules
    <3>2. /\ rules' \in Seq(Range(rules')) /\ Len(rules') = Len(rules) + 1
          /\ \A i \in 1..Len(rules) : rules'[i] = rules[i]
          /\ rules'[Len(rules) + 1] = Head(lines) /\ Len(rules) \in Nat
      BY <2>2, <3>1, RangeAppend
    <3>3. DOMAIN rules' = 1..(Len(rules) + 1) /\ DOMAIN rules = 1..Len(rules)
      BY <3>1, <3>2, LenProperties
    <3>4. \A l \in Range(rules') : l \in Range(rules) \/ l = Head(lines)
      BY <3>2, <3>3 DEF Range
    <3>5. Head(lines).negate \in BOOLEAN
      BY <1>2, <1>3, <2>2 DEF RulesAreRules
    <3> QED
      BY <1>2, <3>2, <3>4, <3>5 DEF RulesAreRules
  <2> QED
    BY <1>1, <2>1, <2>2
<1>5. RulesAreRules'
  BY <1>2, <1>3, <1>4 DEF RulesAreRules
<1> QED
  BY <1>1, <1>2, <1>5 DEF WalkInv, IsTree

\* The walk starts with everything left.
LEMMA WalkStarted ==
    ASSUME WalkInv, StartWalk
    PROVE  WalkInv'
<1>1. /\ doing = "load" /\ doing' = "walk" /\ rest' = DOMAIN root
      /\ UNCHANGED <<root, lines, rules, walked>>
      /\ walked = <<>> /\ RulesAreRules /\ IsTree(root)
  BY DEF StartWalk, WalkInv
<1>2. Walking'
  <2>1. walked' \in Seq(DOMAIN root') /\ DOMAIN walked' = {}
    BY <1>1
  <2>2. DOMAIN root' \ rest' = {}
    BY <1>1
  <2> QED
    BY <1>1, <2>1, <2>2 DEF Walking
<1>3. RulesAreRules' /\ IsTree(root')
  BY <1>1 DEF RulesAreRules
<1> QED
  BY <1>1, <1>2, <1>3 DEF WalkInv

\* An ignored path is gone with what is below it.
LEMMA PathIgnored ==
    ASSUME WalkInv, Ignore
    PROVE  WalkInv'
<1>1. PICK p \in rest :
        /\ doing = "walk" /\ IsNext(p) /\ IsIgnored(p)
        /\ rest' = {q \in rest : q # p /\ ~(IsDir(root[p]) /\ Below(q, p))}
        /\ UNCHANGED <<root, lines, rules, doing, walked>>
  BY DEF Ignore
<1>2. /\ RulesAreRules /\ IsTree(root) /\ Walking /\ DOMAIN root \subseteq Path
      /\ rest \subseteq DOMAIN root /\ p \in DOMAIN root /\ p \in Path
  BY <1>1, PathsOfTree DEF WalkInv, Walking
<1>3. ~LetsIn(p)
  BY <1>1, <1>2, IgnoredUnlessLetIn
<1>4. \A q : LetsIn(q)' <=> LetsIn(q)
  BY <1>1 DEF LetsIn, Matches, Match
<1>5. \A r \in rest \ rest' : r = p \/ Below(r, p)
  BY <1>1
<1>6. \A r \in rest' : ~Below(r, p)
  <2>1. SUFFICES ASSUME NEW r \in rest', Below(r, p) PROVE FALSE
    OBVIOUS
  <2>2. r \in rest /\ ~(IsDir(root[p]) /\ Below(r, p))
    BY <1>1
  <2>3. IsDir(root[p])
    BY <1>2, <2>1, <2>2 DEF IsTree
  <2> QED
    BY <2>1, <2>2, <2>3
<1>7. \A r \in rest : r \notin Range(walked)
  BY <1>1, <1>2, BeforeIsStrict DEF Walking, Range
<1>8. \A r \in rest \ rest' : ~AllLetIn(r)
  BY <1>2, <1>3, <1>5 DEF AllLetIn
<1>9. ASSUME NEW r \in rest', NEW q \in DOMAIN root \ rest', Below(r, q)
      PROVE  LetsIn(q)
  <2>1. CASE q \in rest
    <3>1. q = p \/ Below(q, p)
      BY <1>5, <2>1
    <3>2. r \in Path /\ q \in Path
      BY <1>1, <1>2
    <3>3. Below(r, p)
      BY <1>2, <1>9, <3>1, <3>2, BelowBelow
    <3> QED
      BY <1>6, <3>3
  <2>2. CASE q \notin rest
    BY <1>1, <1>2, <1>9, <2>2 DEF Walking
  <2> QED
    BY <2>1, <2>2
<1>10. Walking'
  <2>1. ASSUME NEW r \in DOMAIN root \ rest'
        PROVE  r \in Range(walked) <=> AllLetIn(r)
    <3>1. CASE r \in rest
      BY <1>7, <1>8, <3>1
    <3>2. CASE r \notin rest
      BY <1>2, <3>2 DEF Walking
    <3> QED
      BY <3>1, <3>2
  <2>2. \A q : AllLetIn(q)' <=> AllLetIn(q)
    BY <1>1, <1>4 DEF AllLetIn
  <2>3. rest' \subseteq rest
    BY <1>1
  <2> QED
    BY <1>1, <1>2, <1>4, <1>9, <2>1, <2>2, <2>3 DEF Walking
<1>11. RulesAreRules' /\ IsTree(root')
  BY <1>1, <1>2 DEF RulesAreRules
<1> QED
  BY <1>1, <1>10, <1>11 DEF WalkInv

\* A path that is not ignored is walked.
LEMMA PathVisited ==
    ASSUME WalkInv, Visit
    PROVE  WalkInv'
<1>1. PICK p \in rest :
        /\ doing = "walk" /\ IsNext(p) /\ ~IsIgnored(p)
        /\ walked' = Append(walked, p)
        /\ \/ rest' = rest \ {p} /\ UNCHANGED doing
           \/ doing' = "done" /\ UNCHANGED rest
        /\ UNCHANGED <<root, lines, rules>>
  BY DEF Visit
<1>2. /\ RulesAreRules /\ IsTree(root) /\ Walking /\ DOMAIN root \subseteq Path
      /\ rest \subseteq DOMAIN root /\ p \in DOMAIN root /\ p \in Path
      /\ walked \in Seq(DOMAIN root)
  BY <1>1, PathsOfTree DEF WalkInv, Walking
<1>3. LetsIn(p)
  BY <1>1, <1>2, IgnoredUnlessLetIn
<1>4. \A q : LetsIn(q)' <=> LetsIn(q)
  BY <1>1 DEF LetsIn, Matches, Match
<1>5. \A q : AllLetIn(q)' <=> AllLetIn(q)
  BY <1>1, <1>4 DEF AllLetIn
<1>6. \A q \in rest : q # p => Before(p, q)
  BY <1>1, <1>2, NextIsFirst
<1>7. AllLetIn(p)
  <2>1. SUFFICES ASSUME NEW q \in DOMAIN root, Below(p, q) PROVE LetsIn(q)
    BY <1>3 DEF AllLetIn
  <2>2. Before(q, p)
    BY <1>2, <2>1, ParentFirst
  <2>3. q \notin rest
    BY <1>6, <2>2, BeforeIsStrict
  <2> QED
    BY <1>1, <1>2, <2>1, <2>3 DEF Walking
<1>8. /\ walked' \in Seq(DOMAIN root) /\ Len(walked) \in Nat
      /\ DOMAIN walked = 1..Len(walked) /\ DOMAIN walked' = 1..(Len(walked) + 1)
      /\ \A i \in 1..Len(walked) : walked'[i] = walked[i]
      /\ walked'[Len(walked) + 1] = p
  <2>1. /\ walked' \in Seq(DOMAIN root) /\ Len(walked') = Len(walked) + 1
        /\ \A i \in 1..Len(walked) : walked'[i] = walked[i]
        /\ walked'[Len(walked) + 1] = p
    BY <1>1, <1>2, AppendProperties
  <2> QED
    BY <1>2, <2>1, LenProperties
<1>9. \A r : r \in Range(walked') <=> r \in Range(walked) \/ r = p
  BY <1>8 DEF Range
<1>10. \A i \in DOMAIN walked : Before(walked[i], p)
  BY <1>1, <1>2 DEF Walking
<1>11. \A i, j \in DOMAIN walked' : i < j => Before(walked'[i], walked'[j])
  <2>1. SUFFICES ASSUME NEW i \in DOMAIN walked', NEW j \in DOMAIN walked', i < j
                 PROVE  Before(walked'[i], walked'[j])
    OBVIOUS
  <2>2. i \in 1..Len(walked)
    BY <1>8, <2>1
  <2>3. CASE j \in 1..Len(walked)
    BY <1>2, <1>8, <2>1, <2>2, <2>3 DEF Walking
  <2>4. CASE j = Len(walked) + 1
    BY <1>8, <1>10, <2>2, <2>4
  <2> QED
    BY <1>8, <2>3, <2>4
<1>12. \A r \in DOMAIN root \ rest' : r \in Range(walked') <=> AllLetIn(r)
  <2>1. SUFFICES ASSUME NEW r \in DOMAIN root \ rest'
                 PROVE  r \in Range(walked') <=> AllLetIn(r)
    OBVIOUS
  <2>2. CASE r = p
    BY <1>7, <1>9, <2>2
  <2>3. CASE r # p
    <3>1. r \notin rest
      BY <1>1, <2>1, <2>3
    <3>2. r \in Range(walked) <=> AllLetIn(r)
      BY <1>2, <2>1, <3>1 DEF Walking
    <3> QED
      BY <1>9, <2>3, <3>2
  <2> QED
    BY <2>2, <2>3
<1>13. CASE rest' = rest \ {p} /\ UNCHANGED doing
  <2>1. \A i \in DOMAIN walked', r \in rest' : Before(walked'[i], r)
    <3>1. SUFFICES ASSUME NEW i \in DOMAIN walked', NEW r \in rest'
                   PROVE  Before(walked'[i], r)
      OBVIOUS
    <3>2. CASE i \in 1..Len(walked)
      BY <1>1, <1>2, <1>8, <1>13, <3>1, <3>2 DEF Walking
    <3>3. CASE i = Len(walked) + 1
      BY <1>6, <1>8, <1>13, <3>1, <3>3
    <3> QED
      BY <1>8, <3>2, <3>3
  <2>2. \A r \in rest', q \in DOMAIN root \ rest' : Below(r, q) => LetsIn(q)
    <3>1. SUFFICES ASSUME NEW r \in rest', NEW q \in DOMAIN root \ rest', Below(r, q)
                   PROVE  LetsIn(q)
      OBVIOUS
    <3>2. CASE q = p
      BY <1>3, <3>2
    <3>3. CASE q # p
      BY <1>1, <1>2, <1>13, <3>1, <3>3 DEF Walking
    <3> QED
      BY <3>2, <3>3
  <2>3. Walking'
    BY <1>1, <1>2, <1>4, <1>5, <1>8, <1>11, <1>12, <1>13, <2>1, <2>2 DEF Walking
  <2>4. RulesAreRules' /\ IsTree(root')
    BY <1>1, <1>2 DEF RulesAreRules
  <2> QED
    BY <1>1, <1>13, <2>3, <2>4 DEF WalkInv
<1>14. CASE doing' = "done" /\ UNCHANGED rest
  <2>1. Walking'
    BY <1>1, <1>2, <1>5, <1>8, <1>11, <1>12, <1>14 DEF Walking
  <2>2. RulesAreRules' /\ IsTree(root')
    BY <1>1, <1>2 DEF RulesAreRules
  <2> QED
    BY <1>14, <2>1, <2>2 DEF WalkInv
<1> QED
  BY <1>1, <1>13, <1>14

\* Every other step of the program leaves the context alone.
LEMMA ContextUntouched ==
    ASSUME WalkInv, UNCHANGED <<root, lines, rules, rest, walked>>,
           doing' = doing \/ (doing = "walk" /\ doing' = "done")
    PROVE  WalkInv'
<1>1. \A q : AllLetIn(q)' <=> AllLetIn(q)
  BY DEF AllLetIn, LetsIn, Matches, Match
<1>2. \A q : LetsIn(q)' <=> LetsIn(q)
  BY DEF LetsIn, Matches, Match
<1>3. RulesAreRules' /\ IsTree(root')
  BY DEF WalkInv, RulesAreRules
<1>4. Walking => Walking'
  BY <1>1, <1>2 DEF Walking
<1> QED
  BY <1>3, <1>4 DEF WalkInv

\* Every step.
LEMMA StepKeepsWalk ==
    ASSUME WalkInv, [Next]_allVars
    PROVE  WalkInv'
<1>1. CASE EndWalk
  BY <1>1, ContextUntouched DEF EndWalk
<1>2. CASE UNCHANGED contextVars
  BY <1>2, ContextUntouched DEF contextVars
<1> QED
  BY <1>1, <1>2, LineLoaded, WalkStarted, PathIgnored, PathVisited
  DEF Next, WalkContext, allVars

\* Nothing is walked at the start.
LEMMA NothingWalked ==
    ASSUME FrontendInit
    PROVE  WalkInv
<1>1. CASE NoContext
  <2>1. rules \in Seq(Range(rules)) /\ lines \in Seq(Range(lines))
        /\ Range(rules) = {} /\ Range(lines) = {}
    BY <1>1 DEF NoContext, Range
  <2>2. IsTree(root)
    <3>1. DOMAIN root = {} /\ root = [p \in {} |-> 0]
      BY <1>1 DEF NoContext, EmptyTree
    <3>2. root \in [{} -> Node]
      BY <3>1
    <3> QED
      BY <3>1, <3>2 DEF IsTree
  <2> QED
    BY <1>1, <2>1, <2>2 DEF NoContext, WalkInv, RulesAreRules
<1>2. CASE ContextInit
  <2>1. /\ root \in Contexts /\ lines \in IgnoreFiles /\ rules = <<>> /\ walked = <<>>
        /\ doing = "load"
    BY <1>2 DEF ContextInit
  <2>2. rules \in Seq(Range(rules)) /\ Range(rules) = {}
    BY <2>1 DEF Range
  <2>3. RulesAreRules
    BY <2>1, <2>2, LinesAreRules DEF RulesAreRules
  <2> QED
    BY <2>1, <2>3, ContextsAreTrees DEF WalkInv
<1> QED
  BY <1>1, <1>2 DEF FrontendInit

\* What the invariant says of a walk is what is asked of it.
LEMMA WalkedIsLeft ==
    ASSUME WalkInv
    PROVE  WalkIsWhatRulesLeave
<1> SUFFICES ASSUME doing \in {"walk", "done"}
             PROVE  WalkIsWhatRulesLeave
  BY DEF WalkIsWhatRulesLeave
<1>1. Walking /\ DOMAIN root \subseteq Path
  BY PathsOfTree DEF WalkInv
<1>2. walked \in Seq(DOMAIN root) /\ DOMAIN walked = 1..Len(walked) /\ Len(walked) \in Nat
  BY <1>1, LenProperties DEF Walking
<1>3. \A i, j \in DOMAIN walked : i < j => Before(walked[i], walked[j])
  BY <1>1 DEF Walking
<1>4. IsInjective(walked)
  <2>1. SUFFICES ASSUME NEW i \in DOMAIN walked, NEW j \in DOMAIN walked,
                        walked[i] = walked[j], i < j
                 PROVE  FALSE
    BY <1>2 DEF IsInjective
  <2> QED
    BY <1>3, <2>1, BeforeIsStrict
<1>5. ASSUME NEW i \in DOMAIN walked, NEW j \in DOMAIN walked, Below(walked[j], walked[i])
      PROVE  i < j
  <2>1. walked[i] \in Path /\ walked[j] \in Path
    BY <1>1, <1>2, ElementOfSeq
  <2>2. Before(walked[i], walked[j])
    BY <1>5, <2>1, ParentFirst
  <2>3. ~(j < i) /\ i # j
    BY <1>3, <2>2, BeforeIsStrict
  <2> QED
    BY <1>2, <2>3
<1>6. \A p \in DOMAIN root \ rest :
        p \in Range(walked) <=> \A q \in DOMAIN root : q = p \/ Below(p, q) => LetsIn(q)
  BY <1>1 DEF Walking, AllLetIn
<1> QED
  BY <1>4, <1>5, <1>6 DEF WalkIsWhatRulesLeave

\* A walk of a context calls back for exactly the files that the last rule
\* about each, and about each directory above it, lets in, once and in order.
\* (IsIgnored, WalkFiles.)
THEOREM WalksLeaveWhatRulesSay == FrontendSpec => []WalkIsWhatRulesLeave
<1>1. FrontendInit => WalkInv
  BY NothingWalked
<1>2. WalkInv /\ [Next]_allVars => WalkInv'
  BY StepKeepsWalk
<1>3. WalkInv => WalkIsWhatRulesLeave
  BY WalkedIsLeft
<1> QED
  BY <1>1, <1>2, <1>3, PTL DEF FrontendSpec
=============================================================================
