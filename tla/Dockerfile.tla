----------------------------- MODULE Dockerfile ------------------------------
(***************************************************************************)
(* parser.Parse (pkg/parser): the text of a Dockerfile becomes tokens, the *)
(* tokens instructions, the instructions stages.                           *)
(*                                                                         *)
(* A text is a sequence of the characters that steer the lexer and of runs *)
(* of others (letters, digits), which are members of Upper or Digits:      *)
(*   sp space or tab   nl newline   cr carriage return   bs backslash      *)
(*   hash #   quote "   lb [   rb ]   dash -   comma ,   eq =              *)
(***************************************************************************)
EXTENDS Naturals, TLC, SequencesExt, FiniteSetsExt

CONSTANTS
    Texts,        \* the sources
    Keyword,      \* the keys of instructionKeywords
    Upper,        \* strings.ToUpper on runs of letters
    Digits,       \* runs of digits, as a port number perhaps with its protocol
    MaxTokens     \* bound: a lexer that does not move on stops here

Steer == {"sp", "nl", "cr", "bs", "hash", "quote", "lb", "rb", "dash", "comma", "eq"}
Char  == Steer \cup DOMAIN Upper \cup Digits

ASSUME TextsAreTexts ==
    /\ Texts \subseteq Seq(Char)
    /\ (DOMAIN Upper \cup Digits) \cap Steer = {} /\ DOMAIN Upper \cap Digits = {}
    /\ Keyword \subseteq Range(Upper)

VARIABLES
    text, pos, line, tokens,    \* Lexer
    phase,                      \* the loop that runs, or how Parse ended
    cur, insts,                 \* Parser: its position, then buildDockerfile's
    globals, stages             \* types.Dockerfile

dockerfileVars == <<text, pos, line, tokens, phase, cur, insts, globals, stages>>

\* what a function on positions gives, in their order
InOrder(f) == MapThenFoldSet(LAMBDA i, s : Append(s, f[i]), <<>>, LAMBDA i : i, Max, DOMAIN f)

IsKeyword(word) == Len(word) = 1 /\ word[1] \in DOMAIN Upper /\ Upper[word[1]] \in Keyword

Token == [type : {"instruction", "argument", "flag", "comment", "newline", "eof"},
          value : Seq(Char \cup Keyword), line : Nat \ {0}]

DockerfileTypeOK ==
    /\ text \in Seq(Char)
    /\ pos \in 1..(Len(text) + 1)
    /\ line \in 1..(Len(text) + 1)
    /\ tokens \in Seq(Token)
    /\ phase \in {"lex", "parse", "group", "parsed", "refused"}
    /\ cur \in 1..(Len(tokens) + 1)
    /\ \A i \in DOMAIN insts :
        /\ insts[i].op \in Keyword /\ insts[i].line \in 1..line
        /\ insts[i].args \in Seq(Seq(Char))
    /\ \A i \in DOMAIN globals : globals[i].op = "ARG"
    /\ \A i \in DOMAIN stages : DOMAIN stages[i] = {"name", "insts"}

\* NewLexer and NewParser for a text
DockerfileInit ==
    /\ text \in Texts
    /\ pos = 1 /\ line = 1 /\ tokens = <<>>
    /\ phase = "lex"
    /\ cur = 1 /\ insts = <<>> /\ globals = <<>> /\ stages = <<>>

-----------------------------------------------------------------------------
(* Lexer.  Positions are found as the first at which a scan stops.         *)

Is(i, chars) == i \in DOMAIN text /\ text[i] \in chars
Until(from, Stops(_)) ==
    CHOOSE i \in from..(Len(text) + 1) :
        /\ i \in DOMAIN text => Stops(i)
        /\ \A j \in from..(i - 1) : ~Stops(j)
CountIn(chars, from, to) == Cardinality({i \in from..to : Is(i, chars)})

\* a backslash and the newline it hides
Joins(i) ==
    /\ Is(i, {"bs"})
    /\ \/ Is(i + 1, {"nl"})
       \/ Is(i + 1, {"cr"}) /\ Is(i + 2, {"nl"})

\* skipSpaces: where it stops, and the line there
Blank(from, i) ==
    \/ Is(i, {"sp"}) \/ Joins(i)
    \/ i - 1 >= from /\ Is(i, {"nl", "cr"}) /\ Joins(i - 1)
    \/ i - 2 >= from /\ Is(i, {"nl"}) /\ Is(i - 1, {"cr"}) /\ Joins(i - 2)
SkipSpaces(from) == Until(from, LAMBDA i : ~Blank(from, i))
\* mutant: a continuation is no new line
LineAfterSpaces_Joined(from) == line
LineAfterSpaces(from) == line + Cardinality({i \in from..(SkipSpaces(from) - 1) : Joins(i)})

\* mutant: any backslash ends the word
EndOfWord_Backslash(from) == Until(from, LAMBDA i : Is(i, {"sp", "nl", "cr", "bs"}))
EndOfWord(from) ==
    Until(from, LAMBDA i : Is(i, {"sp", "nl", "cr"}) \/ (Is(i, {"bs"}) /\ Is(i + 1, {"nl", "cr"})))
EndOfFlag(from) == Until(from + 2, LAMBDA i : Is(i, {"sp", "nl", "cr"}))
EndOfComment(from) == Until(from, LAMBDA i : Is(i, {"nl"}))
EndOfArray(from) ==
    1 + Min({Len(text)} \cup
            {i \in from..Len(text) : /\ Is(i, {"rb"})
                                     /\ CountIn({"lb"}, from, i) = CountIn({"rb"}, from, i)})

\* in a quoted string: an odd number of backslashes before a character
Escaped(from, i) ==
    Cardinality({k \in (from + 1)..(i - 1) : \A j \in k..(i - 1) : Is(j, {"bs"})}) % 2 = 1
EndOfString(from) == Until(from + 1, LAMBDA i : Is(i, {"quote"}) /\ ~Escaped(from, i))
StringValue(from) ==
    InOrder([i \in {j \in (from + 1)..(EndOfString(from) - 1) :
                        Is(j, {"bs"}) /\ j < Len(text) => Escaped(from, j)} |-> text[i]])
PlainNewlines(from, to) ==
    Cardinality({i \in from..to : Is(i, {"nl"}) /\ ~Escaped(from, i)})

Slice(from, end) == SubSeq(text, from, end - 1)

\* one turn of Tokenize's loop that adds a token and reads up to end
Emit(type, value, end, newlines) ==
    LET at == LineAfterSpaces(pos) IN
    /\ phase = "lex"
    /\ Len(tokens) < MaxTokens
    /\ tokens' = Append(tokens, [type |-> type, value |-> value, line |-> at])
    /\ pos' = end
    /\ line' = at + newlines
    /\ UNCHANGED <<text, phase, cur, insts, globals, stages>>

ScanComment ==
    LET p == SkipSpaces(pos) IN
    Is(p, {"hash"}) /\ Emit("comment", Slice(p, EndOfComment(p)), EndOfComment(p), 0)

ScanNewline ==
    LET p == SkipSpaces(pos) IN
    \/ Is(p, {"nl"}) /\ Emit("newline", <<"nl">>, p + 1, 1)
    \/ Is(p, {"cr"}) /\ Emit("newline", <<"nl">>, IF Is(p + 1, {"nl"}) THEN p + 2 ELSE p + 1, 1)

StartsFlag(p) == Is(p, {"dash"}) /\ Is(p + 1, {"dash"})
ScanFlag ==
    LET p == SkipSpaces(pos) IN
    StartsFlag(p) /\ Emit("flag", Slice(p, EndOfFlag(p)), EndOfFlag(p), 0)

ScanJSONArray ==
    LET p == SkipSpaces(pos) IN
    Is(p, {"lb"}) /\ Emit("argument", Slice(p, EndOfArray(p)), EndOfArray(p),
                          CountIn({"nl"}, p, EndOfArray(p) - 1))

ScanQuotedString ==
    LET p   == SkipSpaces(pos)
        end == EndOfString(p)
    IN  Is(p, {"quote"}) /\ Emit("argument", StringValue(p), IF end <= Len(text) THEN end + 1 ELSE end,
                                 PlainNewlines(p, end - 1))

\* a word that starts with a backslash before a lone carriage return is empty
ScanWord ==
    LET p    == SkipSpaces(pos)
        word == Slice(p, EndOfWord(p))
    IN  /\ p <= Len(text)
        /\ ~Is(p, {"hash", "nl", "cr", "lb", "quote"}) /\ ~StartsFlag(p)
        /\ IF IsKeyword(word) THEN Emit("instruction", <<Upper[word[1]]>>, EndOfWord(p), 0)
                              ELSE Emit("argument", word, EndOfWord(p), 0)

EndOfInput ==
    /\ phase = "lex" /\ SkipSpaces(pos) > Len(text)
    /\ pos' = Len(text) + 1
    /\ line' = LineAfterSpaces(pos)
    /\ tokens' = Append(tokens, [type |-> "eof", value |-> <<>>, line |-> line'])
    /\ phase' = "parse"
    /\ UNCHANGED <<text, cur, insts, globals, stages>>

Tokenize == \/ ScanComment \/ ScanNewline \/ ScanFlag \/ ScanJSONArray
            \/ ScanQuotedString \/ ScanWord \/ EndOfInput

-----------------------------------------------------------------------------
(* Parser.                                                                 *)

\* the instruction whose keyword is token i: what follows to the end of line
EndOfLine(i) == Min({j \in i..Len(tokens) : tokens[j].type \in {"newline", "eof"}})
ValuesOf(i, types) ==
    InOrder([j \in {k \in (i + 1)..(EndOfLine(i) - 1) : tokens[k].type \in types} |->
                tokens[j].value])
Joined(parts) == Tail(FlattenSeq([k \in DOMAIN parts |-> <<"sp">> \o parts[k]]))

\* parseFlag: the name of --name=value, or of --name; the last value counts
NameAndValue(f) ==
    LET eq == Min({k \in 3..Len(f) : f[k] = "eq"} \cup {Len(f) + 1})
    IN  <<SubSeq(f, 3, eq - 1), SubSeq(f, eq + 1, Len(f))>>
FlagsOf(values) ==
    LET pairs == [k \in DOMAIN values |-> NameAndValue(values[k])]
    IN  [n \in {pairs[k][1] : k \in DOMAIN pairs} |->
            pairs[Max({k \in DOMAIN pairs : pairs[k][1] = n})][2]]

\* words spelled like a keyword are in the raw text but no arguments
Gather(i) ==
    [op |-> tokens[i].value[1], line |-> tokens[i].line,
     args |-> ValuesOf(i, {"argument"}), flags |-> FlagsOf(ValuesOf(i, {"flag"})),
     raw |-> Joined(<<tokens[i].value>> \o ValuesOf(i, {"argument", "flag", "instruction"}))]

\* ParseJSONArray: what stands between commas, without blanks and quotes
Trimmed(s) ==
    LET kept == {k \in DOMAIN s : s[k] \notin {"sp", "nl", "cr"}}
    IN  IF kept = {} THEN <<>> ELSE SubSeq(s, Min(kept), Max(kept))
Unquoted(s) ==
    IF Len(s) >= 2 /\ s[1] = "quote" /\ Last(s) = "quote" THEN SubSeq(s, 2, Len(s) - 1) ELSE s
IsArray(s) == Len(s) >= 2 /\ s[1] = "lb" /\ Last(s) = "rb"
ParseJSONArray(s) ==
    LET inner == SubSeq(s, 2, Len(s) - 1)
        cuts  == <<0>> \o InOrder([k \in {i \in DOMAIN inner : inner[i] = "comma"} |-> k])
                         \o <<Len(inner) + 1>>
    IN  IF Trimmed(inner) = <<>> THEN <<>>
        ELSE [k \in 1..(Len(cuts) - 1) |->
                 Unquoted(Trimmed(SubSeq(inner, cuts[k] + 1, cuts[k + 1] - 1)))]

\* postProcess: the arguments an instruction must have, and their final form
Needs == "FROM" :> 1 @@ "RUN" :> 1 @@ "COPY" :> 2
Refuses(inst) ==
    \/ inst.op \in DOMAIN Needs /\ Len(inst.args) < Needs[inst.op]
    \/ inst.op = "EXPOSE" /\ \E k \in DOMAIN inst.args : ~(Range(inst.args[k]) \subseteq Digits)
PostProcess(inst) ==
    IF /\ inst.op \in {"CMD", "ENTRYPOINT", "SHELL"}
       /\ Len(inst.args) = 1 /\ IsArray(Trimmed(inst.args[1])) /\ inst.args[1][1] = "lb"
    THEN [inst EXCEPT !.args = ParseJSONArray(Trimmed(@[1]))]
    ELSE IF inst.op = "ENV" /\ Len(inst.args) = 2 /\ "eq" \notin Range(inst.args[1])
    THEN [inst EXCEPT !.args = <<@[1] \o <<"eq">> \o @[2]>>]
    ELSE inst

lexerVars == <<text, pos, line, tokens>>
Refuse == phase' = "refused" /\ UNCHANGED <<lexerVars, cur, insts, globals, stages>>

SkipToken ==
    /\ phase = "parse" /\ cur <= Len(tokens)
    /\ tokens[cur].type \in {"comment", "newline", "eof"}
    /\ cur' = cur + 1
    /\ UNCHANGED <<lexerVars, phase, insts, globals, stages>>

\* mutant: one token more is consumed
ParseInstruction_Twice ==
    /\ phase = "parse" /\ cur <= Len(tokens)
    /\ tokens[cur].type = "instruction"
    /\ LET inst == Gather(cur)
       IN  ~Refuses(inst) /\ insts' = Append(insts, PostProcess(inst))
    /\ cur' = EndOfLine(cur) + 2
    /\ UNCHANGED <<lexerVars, phase, globals, stages>>
ParseInstruction ==
    /\ phase = "parse" /\ cur <= Len(tokens)
    /\ tokens[cur].type = "instruction"
    /\ LET inst == Gather(cur)
       IN  ~Refuses(inst) /\ insts' = Append(insts, PostProcess(inst))
    /\ cur' = EndOfLine(cur) + 1
    /\ UNCHANGED <<lexerVars, phase, globals, stages>>

ParseError ==
    /\ phase = "parse" /\ cur <= Len(tokens)
    /\ \/ tokens[cur].type \in {"argument", "flag"}
       \/ tokens[cur].type = "instruction" /\ Refuses(Gather(cur))
    /\ Refuse

\* the second pass starts
EndOfTokens ==
    /\ phase = "parse" /\ cur > Len(tokens)
    /\ phase' = "group" /\ cur' = 1
    /\ UNCHANGED <<lexerVars, insts, globals, stages>>

-----------------------------------------------------------------------------
(* buildDockerfile.  References of base images stay in the arguments.      *)

Alias(args) ==
    LET as == {j \in 2..(Len(args) - 1) : Len(args[j]) = 1 /\ args[j][1] \in DOMAIN Upper
                                            /\ Upper[args[j][1]] = "AS"}
    IN  IF as = {} THEN <<>> ELSE args[Min(as) + 1]

More == phase = "group" /\ cur <= Len(insts)

\* mutant: an ARG is global wherever it stands
GlobalArg_Anywhere ==
    /\ More /\ insts[cur].op = "ARG"
    /\ globals' = Append(globals, insts[cur])
    /\ cur' = cur + 1
    /\ UNCHANGED <<lexerVars, phase, insts, stages>>
GlobalArg ==
    /\ More /\ insts[cur].op = "ARG" /\ stages = <<>>
    /\ globals' = Append(globals, insts[cur])
    /\ cur' = cur + 1
    /\ UNCHANGED <<lexerVars, phase, insts, stages>>

\* the stage's number, which is set in every instruction and read by nothing,
\* is left out
NewStage ==
    /\ More /\ insts[cur].op = "FROM"
    /\ stages' = Append(stages, [name |-> Alias(insts[cur].args), insts |-> <<insts[cur]>>])
    /\ cur' = cur + 1
    /\ UNCHANGED <<lexerVars, phase, insts, globals>>

AddToStage ==
    /\ More /\ insts[cur].op # "FROM" /\ stages # <<>>
    /\ stages' = [stages EXCEPT ![Len(stages)].insts = Append(@, insts[cur])]
    /\ cur' = cur + 1
    /\ UNCHANGED <<lexerVars, phase, insts, globals>>

GroupError ==
    /\ phase = "group" /\ stages = <<>>
    /\ More => insts[cur].op \notin {"ARG", "FROM"}
    /\ Refuse

Grouped ==
    /\ phase = "group" /\ cur > Len(insts) /\ stages # <<>>
    /\ phase' = "parsed"
    /\ UNCHANGED <<lexerVars, cur, insts, globals, stages>>

Parse == \/ Tokenize \/ SkipToken \/ ParseInstruction \/ ParseError \/ EndOfTokens
         \/ GlobalArg \/ NewStage \/ AddToStage \/ GroupError \/ Grouped

-----------------------------------------------------------------------------
(* What a text says, read off its positions; for texts without quotes,     *)
(* arrays and flags, and with carriage returns before newlines only.       *)

Simple == /\ Range(text) \cap {"quote", "lb", "rb", "dash"} = {}
          /\ \A i \in DOMAIN text : Is(i, {"cr"}) => Is(i + 1, {"nl"})

\* the logical lines that are not empty: the number of the line each starts
\* in, and its words
Written ==
    LET comments == {i \in DOMAIN text : \E j \in 1..i :
                        /\ Is(j, {"hash"}) /\ (j = 1 \/ Is(j - 1, {"sp", "nl"}))
                        /\ \A k \in j..i : ~Is(k, {"nl"})}
        joins    == {i \in DOMAIN text : Joins(i)} \ comments
        gaps     == {i \in DOMAIN text : Is(i, {"sp", "nl", "cr"})} \cup comments \cup joins
        breaks   == {i \in DOMAIN text : /\ Is(i, {"nl"}) /\ i - 1 \notin joins
                                         /\ ~(Is(i - 1, {"cr"}) /\ i - 2 \in joins)}
        starts   == {i \in DOMAIN text \ gaps : i = 1 \/ i - 1 \in gaps}
        word(i)  == Slice(i, Min({j \in gaps : j > i} \cup {Len(text) + 1}))
        above(i) == {j \in breaks : j < i}
        heads    == {i \in starts : \A j \in starts : j < i => above(j) # above(i)}
    IN  InOrder([h \in heads |->
            [line |-> 1 + CountIn({"nl"}, 1, h),
             words |-> InOrder([i \in {j \in starts : above(j) = above(h)} |-> word(i)])]])

\* the instruction a logical line is
Arguments(words) ==
    InOrder([k \in {j \in 2..Len(words) : ~IsKeyword(words[j])} |-> words[k]])
Meant(l) == [op |-> Upper[l.words[1][1]], line |-> l.line, args |-> Arguments(l.words)]
Accepted(ls) ==
    /\ \A k \in DOMAIN ls : IsKeyword(ls[k].words[1]) /\ ~Refuses(Meant(ls[k]))
    /\ \E k \in DOMAIN ls : /\ Meant(ls[k]).op = "FROM"
                            /\ \A j \in 1..(k - 1) : Meant(ls[j]).op = "ARG"

\* Parse accepts exactly the texts whose instructions are keywords with the
\* arguments they need, after a FROM; and finds each logical line once, in its
\* order, under the number of the line it starts in, with its words for
\* arguments, except those that are spelled like a keyword.  (Tokenize with
\* continuations, comments and CRLF, parseInstruction, postProcess.)  The README
\* has the words of a RUN as one argument, "apt-get update": the parser makes
\* them two, and so does what is meant here.
ParsesTheText ==
    Simple /\ phase \in {"parsed", "refused"} =>
        LET ls == Written IN
        /\ phase = "parsed" <=> Accepted(ls)
        /\ phase = "parsed" =>
            [i \in DOMAIN insts |-> [op |-> insts[i].op, line |-> insts[i].line, args |-> insts[i].args]]
              = [k \in DOMAIN ls |-> PostProcess(Meant(ls[k]))]

\* Grouping loses, repeats and reorders nothing: the global ARGs and then the
\* stages are the instructions, and a FROM is at the start of each stage and
\* nowhere else.  (buildDockerfile, which appends copies to slices of slices.)
StagesPartition ==
    phase = "parsed" =>
        /\ globals \o FlattenSeq([s \in DOMAIN stages |-> stages[s].insts]) = insts
        /\ \A s \in DOMAIN stages : \A i \in DOMAIN stages[s].insts :
              stages[s].insts[i].op = "FROM" <=> i = 1

\* "Gather arguments and flags until newline or EOF" into Args, the
\* "positional arguments": every word of an instruction is one of them.
ArgsKeepEveryWord ==
    Simple /\ phase = "parsed" =>
        \A i \in DOMAIN insts : insts[i].op = "RUN" => insts[i].args = Tail(Written[i].words)
=============================================================================
