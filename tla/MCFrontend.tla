----------------------------- MODULE MCFrontend ------------------------------
(***************************************************************************)
(* Dockerfiles: every short sequence of characters after "FROM x" and RUN, *)
(* of quotes and escapes after RUN and a quote, every short sequence of    *)
(* characters, and every short sequence of lines of each kind, perhaps     *)
(* after a FROM.  Contexts with a directory, and the short ignore files    *)
(* about it.                                                               *)
(***************************************************************************)
EXTENDS Frontend

CONSTANTS TailLen, TextLen, Lines

MCKeyword == {"FROM", "RUN", "ARG", "COPY", "ENV", "CMD", "EXPOSE", "ONBUILD"}
MCUpper   == [w \in MCKeyword \cup {"AS"} |-> w] @@ "run" :> "RUN" @@ "as" :> "AS" @@ "x" :> "X"
MCDigits  == {"80"}

From == <<"FROM", "sp", "x", "nl">>
Some == {"sp", "nl", "cr", "bs", "hash", "x", "run"}

\* whole lines
FromAs == <<"FROM", "sp", "x", "sp", "as", "sp", "x", "nl">>
Whole == {Front(FromAs), <<"ARG", "sp", "x">>, <<"hash", "x">>,
          <<"RUN", "sp", "x", "sp", "run", "sp", "x">>, <<"COPY", "sp", "x">>,
          <<"COPY", "sp", "dash", "dash", "x", "eq", "x", "sp", "x", "sp", "x">>,
          <<"ENV", "sp", "x", "bs", "nl", "sp", "x">>, <<"EXPOSE", "sp", "80">>,
          <<"CMD", "sp", "lb", "quote", "x", "quote", "comma", "x", "rb", "cr">>,
          <<"ONBUILD", "sp", "RUN", "sp", "x">>}
Ended(ls) == FlattenSeq([i \in DOMAIN ls |-> Append(ls[i], "nl")])

MCTexts == {From \o <<"RUN">> \o b : b \in BoundedSeq(Some, TailLen)}
             \cup {From \o <<"RUN", "quote">> \o b : b \in BoundedSeq({"quote", "bs", "nl", "x"}, 3)}
             \cup BoundedSeq(Some \cup {"quote", "lb", "rb", "dash"}, TextLen)
             \cup {Ended(b) : b \in BoundedSeq(Whole, Lines)}
             \cup {FromAs \o Ended(b) : b \in BoundedSeq(Whole, Lines)}

\* the statistics of more samples than a short build makes
ASSUME StatisticsOfMany ==
    \A d \in {[i \in 1..34 |-> (7 * i) % 34], [i \in 1..21 |-> i % 4]} : RightStats(ComputeStats(d), d)

MCWalkOrder == << <<"a">>, <<"d">>, <<"d", "a">>, <<"d", "d">>, <<"d", "d", "a">> >>
AFile == [kind |-> "file", size |-> 0]
ADir  == [kind |-> "dir", size |-> 0]
MCContexts == {<<"a">> :> AFile @@ <<"d">> :> ADir @@ <<"d", "a">> :> AFile
                 @@ <<"d", "d">> :> ADir @@ <<"d", "d", "a">> :> AFile,
               <<"d">> :> AFile}
MCPatterns == {<<"a">>, <<"*">>, <<"d", "a">>, <<"d", "*">>, <<"d", "">>, <<"d", "d", "a">>}
MCIgnoreFiles == BoundedSeq({Rule(p, b) : p \in MCPatterns, b \in BOOLEAN} \cup {NoRule}, 3)
=============================================================================
