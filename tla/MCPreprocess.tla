---------------------------- MODULE MCPreprocess ----------------------------
(* Bundles of five kinds: macros that call each other, with a directive in *)
(* or between their calls; macros whose white space becomes part of a      *)
(* string; nested groups; files that include files; and conditions.        *)
EXTENDS PreprocessStandard

MCNumbers == [s \in {"0", "1", "3u", "9"} |->
  CASE s = "0" -> [radix |-> 8, digits |-> <<0>>, suffix |-> <<>>]
    [] s = "1" -> [radix |-> 10, digits |-> <<1>>, suffix |-> <<>>]
    [] s = "3u" -> [radix |-> 2, digits |-> <<1, 1>>, suffix |-> <<"l", "u">>]
    [] s = "9" -> [radix |-> 16, digits |-> <<1, 1>>, suffix |-> <<>>]]

MCCharacters == [s \in {"'c'"} |-> [bytes |-> <<6>>, wide |-> FALSE]]

MCNames == {"f", "g", "A", "B", "AB", "x", "y", "defined", "packed", "__VA_ARGS__", "__VA_OPT__"} \cup QuerySymbols
MCSpellings == MCNames \cup DOMAIN MCNumbers \cup {"(", ")", ",", "11", "A1", "x1", "\"A\""}

MCHeaders == [s \in {"\"a\"", "<a>", "<b>", "<../a>"} |->
  [quote |-> s = "\"a\"",
   path |-> CASE s \in {"\"a\"", "<a>"} -> <<"a">> [] s = "<b>" -> <<"b">> [] OTHER -> <<"..", "s", "a">>]]

MCEscapes == [s \in {"\"A\""} |-> "\\\"A\\\""]

Text1(items) == [kind |-> "text", name |-> "", items |-> items]
Named(kind, name, items) == [kind |-> kind, name |-> name, items |-> items]
Bare(kind, items) == [kind |-> kind, name |-> "", items |-> items]
Alone(lines) == [files |-> <<[name |-> <<"m">>, text |-> lines]>>, main |-> 1, roots |-> <<>>]

(* Macros.                                                                 *)
OneArg(body) == <<"(", "x", ")">> \o body
BodiesOfF == {OneArg(<<" ", "x", " ", "f">>), OneArg(<<"f", "(", "x", ")">>), OneArg(<<"B", " ", "#", "x", "x">>),
              <<"(", "x", ",", "y", ")", "x", "##", "y", "B">>,
              <<"(", ")", "A">>,
              <<"(", "x", ",", "...", ")", "x", "__VA_OPT__", "(", ",", ")", "__VA_ARGS__">>,
              <<"(", "...", ")", "A", ",", "##", "__VA_ARGS__">>}
BodiesOfA == {<<>>, <<"B">>, <<" ", "f">>, <<"A", "f", "(", "B", ")">>, <<"f", "(">>}
BodiesOfB == {<<"A">>, <<"f">>, <<"1">>, <<"A", "##", "1">>}
FirstLines == {<<"f", "(", "A">>, <<"A", "(", "B", " ", "A", ")", "f">>, <<"B", "f">>,
               <<"A", "f", "(", "A", ",", "f", "(", "B", ")", ")">>}
LastLines == {<<"B", ")", "A">>, <<"(", "A", ")", "(", "1", ")">>, <<",", "B", ")">>}
Cuts == {<<>>, <<Bare("null", <<>>)>>, <<Named("undef", "f", <<>>)>>, <<Named("define", "B", <<"f">>)>>,
         <<Named("define", "f", OneArg(<<"x", "A">>))>>}

GivenMacros ==
  \E f \in BodiesOfF, a \in BodiesOfA, b \in BodiesOfB, one \in FirstLines, two \in LastLines, cut \in Cuts :
    Init(Alone(<<Named("define", "f", f), Named("define", "A", a), Named("define", "B", b), Text1(one)>>
               \o cut \o <<Text1(two)>>))

(* Definitions that may be refused, and calls of them.                     *)
Definitions == {<<"(", "x", ",", "x", ")">>, <<"(", "x", ",", ")">>, <<"(", "x", ",", "...", ",", "y", ")">>,
                <<"(", "x", "...", ")", "#", "x">>, <<"(", "x", ")", "#", "y">>, <<"(", "x", ")", "##", "x">>,
                <<"(", "...", ")", "#", "__VA_OPT__", "(", "A", "__VA_ARGS__", ")">>,
                <<"(", "...", ")", "x", "##", "__VA_OPT__", "(", "1", ")">>,
                <<"(", "...", ")", "__VA_OPT__", "(", "__VA_OPT__", "(", ")", ")">>,
                <<"(", "x", ",", "y", ")", "x", "##", "y", "##", "1">>, <<" ", "(", "x", ")">>, <<"x", "##">>}
Calls == {<<"f", "(", ")">>, <<"f", "(", "A", ")">>, <<"f", "(", "(", "A", ",", ")", ",", "A", ")">>,
          <<"f", "(", ",", ")", "f">>, <<"f", "(", "\"A\"", " ", "A", ")">>}
GivenDefinitions ==
  \E d \in Definitions, c \in Calls :
    Init(Alone(<<Named("define", "A", <<"1">>), Named("define", "f", d), Text1(c)>>))

(* Strings of what a call of f comes to, by way of A and B.                *)
Joining == {<<"(", "x", ",", "y", ")", "1", " ", "x", "##", "y">>, <<"(", "x", ",", "y", ")", "1", "x", "##", "y", "x">>,
            <<"(", "x", ",", "y", ")", "1", " ", "x", " ", "y">>, <<"(", "x", ",", "y", ")", "x", " ", "##", "y", " ", "1">>,
            <<"(", "x", ",", "...", ")", "x", " ", "__VA_OPT__", "(", "1", ")", " ", "##", "__VA_ARGS__", "1">>,
            <<"(", "x", ",", "...", ")", "1", " ", "__VA_OPT__", "(", "x", "##", "A", ")">>,
            <<"(", "x", ",", "...", ")", "1", " ", ",", " ", "##", " ", "__VA_ARGS__">>}
Operands2 == {<<>>, <<"1">>, <<" ", "1", " ", "A">>, <<"B", "(", ")">>}
GivenStrings ==
  \E f \in Joining, a \in Operands2, b \in {<<>>} \cup {<<",">> \o o : o \in Operands2}, outer \in {<<>>, <<" ", "9">>} :
    Init(Alone(<<Named("define", "f", f), Named("define", "B", <<"(", "x", ")", "#", "x">>),
                 Named("define", "A", <<"(", "x", ")", "B", "(", "x">> \o outer \o <<")">>),
                 Text1(<<"A", "(", "f", "(">> \o a \o b \o <<")", ")">>)>>))

(* Groups.                                                                 *)
GroupLines == {Text1(<<"x">>), Named("ifdef", "A", <<>>), Bare("if", <<"0">>), Bare("if", <<"1">>),
               Bare("elif", <<"defined", "A">>), Bare("else", <<>>), Bare("endif", <<>>),
               Named("define", "A", <<>>), Bare("other", <<>>)}
GivenGroups ==
  \E c \in {"0", "1"}, a, b, d, e \in GroupLines :
    Init(Alone(<<Bare("if", <<c>>), Text1(<<"y">>), a, b, d, e, Bare("endif", <<>>)>>))

(* Files: m includes, and a in the root and in two directories.            *)
Guarded(lines) == <<Named("ifndef", "A", <<>>), Named("define", "A", <<"x">>)>> \o lines \o <<Bare("endif", <<>>)>>
Inner == {<<Bare("pragma", <<"once">>), Text1(<<"A">>), Bare("include", <<"\"a\"">>)>>,
          Guarded(<<Bare("include", <<"\"a\"">>), Text1(<<"A", "1">>)>>),
          <<Bare("include_next", <<"<a>">>), Text1(<<"B">>)>>,
          <<Text1(<<"B", ")">>)>>, <<Bare("if", <<"1">>)>>, <<Bare("endif", <<>>)>>,
          <<Bare("if", <<"__has_include_next", "(", "<a>", ")">>), Bare("include_next", <<"<a>">>), Bare("endif", <<>>)>>}
Outer == {<<Bare("include", <<"\"a\"">>)>>, <<Bare("include", <<"<a>">>), Bare("include", <<"<a>">>)>>,
          <<Named("define", "B", <<"<", "a", ">">>), Bare("include", <<"B">>)>>,
          <<Named("define", "f", OneArg(<<"x">>)), Text1(<<"f", "(">>), Bare("include", <<"<../a>">>)>>,
          <<Bare("if", <<"__has_include", "(", "<b>", ")", "||", "__has_attribute", "(", "packed", ")">>),
            Bare("include", <<"<a>">>), Bare("endif", <<>>)>>}
RootLists == {<< <<"s">> >>, << <<"s">>, <<"t">>, <<"s">> >>}
GivenFiles ==
  \E o \in Outer, p \in Inner, n \in {<<"a">>, <<"b">>, <<"m">>}, r \in RootLists :
    Init([files |-> <<[name |-> <<"m">>, text |-> o], [name |-> <<"s", "a">>, text |-> p],
                      [name |-> <<"t", "a">>, text |-> <<Text1(<<"y">>)>>],
                      [name |-> n, text |-> <<Text1(<<"x">>)>>]>>,
          main |-> 1, roots |-> r])

(* Conditions.                                                             *)
Operators1 == {"?", ":", "&&", "||", "/", "<", ">>", "-", ","}
Operands1 == {"0", "1", "3u"}
GivenCondition(c) == Init(Alone(<<Bare("if", c), Text1(<<"x">>), Bare("endif", <<>>)>>))
AllOperators == UNION {Levels[i] : i \in DOMAIN Levels} \cup {":"}
GivenConditions ==
  \/ \E a, b, c \in {"0", "9", "3u"}, o, p \in AllOperators : GivenCondition(<<a, o, b, p, c>>)
  \/ \E u, v \in {"-", "!", "~", "("}, a, b, c \in Operands1, o, p \in {"?", ":", "&&", "-", ")"} :
       GivenCondition(<<u, a, o, v, b, p, c>>)
  \/ \E a, b, c \in Operands1, o, p \in Operators1 : GivenCondition(<<"0", "&&", a, o, b, p, c>>)

MCInit == GivenMacros \/ GivenDefinitions \/ GivenStrings \/ GivenGroups \/ GivenFiles \/ GivenConditions

MCSpec == MCInit /\ [][Next]_ppVars
=============================================================================
