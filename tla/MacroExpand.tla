---------------------------- MODULE MacroExpand ----------------------------
(***************************************************************************)
(* Macros of the copy_c compiler (runtime/copy_c/preprocess_macros.h and   *)
(* preprocess_queries.h): a list of tokens is rescanned from its front,    *)
(* every macro call in it replaced where it stands, and each token carries *)
(* the names that must not be replaced in it any more (its hide set).  A   *)
(* token is [t, hidden, space, frozen]: its spelling, or "" for a place    *)
(* left empty; its hide set; whether white space is before it; and the     *)
(* definition its call was begun with.  The sizes of the compiler's tables *)
(* are not modelled.                                                       *)
(***************************************************************************)
EXTENDS ConditionValue

CONSTANTS Spellings,   \* what is read back as one token
          Headers,     \* spelling of a header name -> [quote, path]
          Escapes,     \* spelling of a literal -> the same inside a string
          Attributes,  \* what __has_attribute and __has_builtin know
          Builtins

Plainly(t, space) == [t |-> t, hidden |-> {}, space |-> space, frozen |-> <<>>]
Empty == Plainly("", FALSE)
Texts(toks) == [i \in DOMAIN toks |-> toks[i].t]

(* cc_pp_next over the items of a line: " " is white space.                *)
Lex(items) ==
  FoldLeft(LAMBDA r, t : IF t = " " THEN [r EXCEPT !.space = TRUE]
                         ELSE [toks |-> Append(r.toks, Plainly(t, r.space)), space |-> FALSE],
           [toks |-> <<>>, space |-> FALSE], items).toks

(* The parts of s between the positions cuts.                              *)
Pieces(s, cuts) ==
  LET c == <<0>> \o SetToSortSeq(cuts, <) \o <<Len(s) + 1>>
  IN  [k \in 1 .. Len(c) - 1 |-> SubSeq(s, c[k] + 1, c[k + 1] - 1)]

(* How many parentheses are open after the first i tokens of s.            *)
Nesting(s) ==
  LET before(t, i) == Cardinality({j \in 1 .. i - 1 : s[j].t = t})
  IN  [i \in 1 .. Len(s) + 1 |-> before("(", i) - before(")", i)]

-----------------------------------------------------------------------------
(* Definitions.                                                            *)

IndexOf(name, params) ==
  IF name \in ToSet(params) THEN CHOOSE i \in DOMAIN params : params[i] = name ELSE 0

(* The parameters between the parentheses: [ok, params, variadic].         *)
ReadParameters(s) ==
  LET parts == Pieces(s, {i \in DOMAIN s : s[i] = ","})
      last == parts[Len(parts)]
      variadic == "..." \in ToSet(last)
      name(p) == IF p = <<"...">> THEN "__VA_ARGS__" ELSE p[1]
      params == IF s = <<>> THEN <<>> ELSE [k \in DOMAIN parts |-> name(parts[k])]
      fits(k) == \/ Len(parts[k]) = 1 /\ parts[k][1] \in Names
                 \/ k = Len(parts) /\ parts[k] = <<"...">>
                 \/ k = Len(parts) /\ Len(parts[k]) = 2 /\ parts[k][2] = "..." /\ parts[k][1] \in Names
      ok == s = <<>> \/ \A k \in DOMAIN parts : fits(k)
  IN  IF ok /\ Cardinality(ToSet(params)) = Len(params)
      THEN [ok |-> TRUE, params |-> params, variadic |-> variadic]
      ELSE [ok |-> FALSE, params |-> <<>>, variadic |-> FALSE]

(* cc_pp_va_opt_end: the parenthesis that closes __VA_OPT__ at i, or 0.    *)
VaOptEnd(body, i) ==
  LET after == SubSeq(body, i + 1, Len(body))
      nest == Nesting(after)
      ends == {k \in 2 .. Len(after) : nest[k + 1] = 0 /\ \A j \in 2 .. k - 1 : nest[j + 1] # 0}
      end == CHOOSE k \in ends : TRUE
  IN  IF /\ after # <<>> /\ after[1].t = "(" /\ ends # {}
         /\ \A j \in 2 .. end : after[j].t # "__VA_OPT__"
      THEN i + end ELSE 0

BodyFits(body, params, variadic, function) ==
  LET option(i) == variadic /\ body[i].t = "__VA_OPT__"
  IN  /\ body = <<>> \/ (body[1].t # "##" /\ body[Len(body)].t # "##")
      /\ function => \A i \in DOMAIN body :
           /\ option(i) => LET end == VaOptEnd(body, i)
                           IN  /\ end # 0
                               /\ end > i + 2 => body[i + 2].t # "##" /\ body[end - 1].t # "##"
           /\ body[i].t = "#" => /\ i < Len(body)
                                 /\ option(i + 1) \/ IndexOf(body[i + 1].t, params) # 0

(* The macro with the parameters p and that body: [ok, macro].             *)
Made(p, function, body) ==
  [ok |-> p.ok /\ BodyFits(body, p.params, p.variadic, function),
   macro |-> [function |-> function, variadic |-> p.variadic, params |-> p.params, body |-> body]]

(* What #define makes of the items after the name.                         *)
Definition(items) ==
  LET toks == Lex(items)
      function == items # <<>> /\ items[1] = "("
      closes == {i \in DOMAIN toks : toks[i].t = ")"}
      closing == CHOOSE i \in closes : \A j \in closes : i <= j
      none == [ok |-> function => closes # {}, params |-> <<>>, variadic |-> FALSE]
  IN  IF ~function \/ closes = {} THEN Made(none, function, toks)
      ELSE Made(ReadParameters(Texts(SubSeq(toks, 2, closing - 1))), TRUE,
                SubSeq(toks, closing + 1, Len(toks)))

-----------------------------------------------------------------------------
(* Substitution.                                                           *)

(* cc_pp_paste: the two spellings are read back, and must be one token.    *)
Paste(a, b) == [ok |-> a.t \o b.t \in Spellings,
                tok |-> [Plainly(a.t \o b.t, a.space) EXCEPT !.hidden = a.hidden \cap b.hidden]]

(* cc_pp_stringify_tokens                                                  *)
Stringify(toks) ==
  LET spelt(i) == IF toks[i].t \in DOMAIN Escapes THEN Escapes[toks[i].t] ELSE toks[i].t
      texts == [i \in DOMAIN toks |-> IF i > 1 /\ toks[i].space THEN " " \o spelt(i) ELSE spelt(i)]
  IN  Plainly("\"" \o FoldLeft(LAMBDA s, t : s \o t, "", texts) \o "\"", FALSE)

Spaced(toks, space) == IF toks = <<>> THEN toks ELSE [toks EXCEPT ![1].space = space]

RECURSIVE SubstituteFrom(_, _, _, _)

(* What stands for the body's token at st.i: [ok, toks, next], the next    *)
(* token of the body being the one at next.                                *)
Piece(m, body, args, st) ==
  LET n == Len(body)
      stringify == body[st.i].t = "#"
      j == IF stringify THEN st.i + 1 ELSE st.i
      tok == body[j]
      parameter == IndexOf(tok.t, m.params)
      option == m.variadic /\ tok.t = "__VA_OPT__"
      end == IF option THEN VaOptEnd(body, j) ELSE j
      adjacent == st.paste \/ (end < n /\ body[end + 1].t = "##")
      start == [i |-> 1, out |-> <<>>, paste |-> FALSE, gap |-> FALSE, comma |-> FALSE, ok |-> TRUE]
      chosen == IF args[Len(m.params)].expanded = <<>> THEN [ok |-> TRUE, toks |-> <<>>]
                ELSE SubstituteFrom(m, SubSeq(body, j + 2, end - 1), args, start)
      kept(toks) == IF toks = <<>> /\ adjacent THEN <<Empty>> ELSE toks
  IN  IF (stringify /\ st.i = n) \/ (option /\ end = 0)
      THEN [ok |-> FALSE, toks |-> <<>>, next |-> n + 1]
      ELSE IF option
      THEN [ok |-> chosen.ok, next |-> end + 1,
            toks |-> IF stringify THEN <<Stringify(chosen.toks)>> ELSE kept(chosen.toks)]
      ELSE IF stringify
      THEN [ok |-> parameter # 0, next |-> j + 1,
            toks |-> IF parameter = 0 THEN <<>> ELSE <<Stringify(args[parameter].raw)>>]
      ELSE [ok |-> TRUE, next |-> j + 1,
            toks |-> IF parameter = 0 THEN <<tok>>
                     ELSE IF adjacent THEN kept(args[parameter].raw) ELSE args[parameter].expanded]

(* A piece is put after the others, or its first token pasted to the last. *)
Put(st, p, leading) ==
  LET left == st.out[Len(st.out)]
      right == p.toks[1]
      both == Paste(left, right)
      joined == IF left.t = "" THEN right ELSE IF right.t = "" THEN left ELSE both.tok
  IN  IF ~p.ok \/ (st.paste /\ p.toks = <<>>) THEN [st EXCEPT !.ok = FALSE]
      ELSE IF st.paste
      THEN [st EXCEPT !.i = p.next, !.paste = FALSE,
                      !.ok = left.t = "" \/ right.t = "" \/ both.ok,
                      !.out = Append(Front(@), joined) \o Tail(p.toks)]
      ELSE [st EXCEPT !.i = p.next, !.out = @ \o Spaced(p.toks, leading \/ st.gap),
                      !.gap = IF p.toks = <<>> THEN @ \/ leading ELSE FALSE]

(* cc_pp_substitute: [ok, toks].                                           *)
SubstituteFrom(m, body, args, st) ==
  LET i == st.i
      n == Len(body)
      last == Len(m.params)
      comma == /\ m.variadic /\ body[i].t = "," /\ i + 2 <= n
               /\ body[i + 1].t = "##" /\ IndexOf(body[i + 2].t, m.params) = last
      next == IF body[i].t = "##"
              THEN IF st.comma THEN [st EXCEPT !.i = i + 1, !.comma = FALSE]
                   ELSE [st EXCEPT !.i = i + 1, !.paste = TRUE, !.ok = st.out # <<>> /\ i < n]
              ELSE IF comma /\ args[last].omitted THEN [st EXCEPT !.i = i + 1, !.comma = TRUE]
              ELSE Put([st EXCEPT !.comma = @ \/ comma], Piece(m, body, args, st), body[i].space)
  IN  IF ~st.ok THEN [ok |-> FALSE, toks |-> <<>>]
      ELSE IF i > n THEN [ok |-> TRUE, toks |-> SelectSeq(st.out, LAMBDA x : x.t # "")]
      ELSE SubstituteFrom(m, body, args, next)

Substitute(m, args) ==
  SubstituteFrom(m, m.body, args,
    [i |-> 1, out |-> <<>>, paste |-> FALSE, gap |-> FALSE, comma |-> FALSE, ok |-> TRUE])

-----------------------------------------------------------------------------
(* Calls.                                                                  *)

(* The parenthesis that closes the one at opening, or 0.                   *)
Closing(toks, opening) ==
  LET nest == Nesting(SubSeq(toks, opening, Len(toks)))
      ends == {k \in 2 .. Len(nest) : nest[k] = 0}
  IN  IF ends = {} THEN 0 ELSE opening - 2 + CHOOSE k \in ends : \A j \in ends : k <= j

(* An argument without its line ends, which are white space.               *)
Raw(toks) ==
  FoldLeft(LAMBDA r, x : IF x.t = "\n" THEN [r EXCEPT !.space = TRUE]
                         ELSE [toks |-> Append(r.toks, [x EXCEPT !.space = @ \/ r.space, !.frozen = <<>>]),
                               space |-> FALSE],
           [toks |-> <<>>, space |-> FALSE], toks).toks

(* The parts of a call as arguments: [raw, omitted].                       *)
PartViews(parts) == [k \in DOMAIN parts |-> [raw |-> Raw(parts[k]), omitted |-> FALSE]]

Arguments(m, views) ==
  LET count == Len(m.params)
      none == Len(views) = 1 /\ views[1].raw = <<>>
      absent == [raw |-> <<>>, omitted |-> TRUE]
  IN  IF count = 0 /\ none THEN <<>>
      ELSE IF m.variadic /\ count = 1 /\ none THEN <<absent>>
      ELSE IF m.variadic /\ Len(views) = count - 1 THEN Append(views, absent) ELSE views

(* cc_pp_call_views: [ok, args].                                           *)
CallViews(m, inner) ==
  LET nest == Nesting(inner)
      count == Len(m.params)
      commas == SetToSortSeq({i \in DOMAIN inner : inner[i].t = "," /\ nest[i] = 0}, <)
      cuts == {commas[k] : k \in {j \in DOMAIN commas : m.variadic => j < count}}
      args == Arguments(m, PartViews(Pieces(inner, cuts)))
  IN  [ok |-> Len(args) = count /\ \A i \in DOMAIN nest : nest[i] <= NestMax, args |-> args]

(* Whether an argument is replaced before it is put into the body.         *)
Needed(m, i) ==
  LET b == m.body
      last == m.variadic /\ i = Len(m.params)
      alone(j) == \/ j = 1 \/ b[j - 1].t \notin {"#", "##"}
                  \/ b[j - 1].t = "##" /\ last /\ j >= 3 /\ b[j - 2].t = ","
  IN  \/ last /\ \E j \in DOMAIN b : b[j].t = "__VA_OPT__"
      \/ \E j \in DOMAIN b : /\ b[j].t = m.params[i] /\ alone(j)
                             /\ j = Len(b) \/ b[j + 1].t # "##"

(* A body without parameters, its tokens pasted where ## stands: [ok, toks]. *)
ObjectBody(body) ==
  FoldLeft(LAMBDA r, x : IF x.t = "##" THEN [r EXCEPT !.paste = TRUE]
                         ELSE IF r.paste /\ r.ok
                         THEN LET p == Paste(r.toks[Len(r.toks)], x)
                              IN  [ok |-> p.ok, toks |-> Append(Front(r.toks), p.tok), paste |-> FALSE]
                         ELSE [r EXCEPT !.toks = Append(@, x)],
           [ok |-> TRUE, toks |-> <<>>, paste |-> FALSE], body)

Hide(toks, names) == [i \in DOMAIN toks |-> [toks[i] EXCEPT !.hidden = @ \cup names]]

-----------------------------------------------------------------------------
(* Built-in names; env is [macros, queries, condition, incomplete, finds]. *)

QuerySymbols == {"__has_include", "__has_include_next", "__has_attribute",
                 "__has_builtin", "__COPYSPACE__"}
HeaderQueries == {"__has_include", "__has_include_next"}

QueryKind(t, env) == t \in env.queries /\ t \notin DOMAIN env.macros
IsDefined(t, env) == t \in DOMAIN env.macros \/ QueryKind(t, env)

(* cc_pp_header_tokens: the header name that a list of tokens spells.      *)
HeaderSpelt(toks) ==
  LET texts == Texts(toks)
      parts == [i \in DOMAIN toks |-> IF toks[i].space /\ i \notin {1, Len(toks)}
                                      THEN " " \o texts[i] ELSE texts[i]]
  IN  IF Len(toks) = 1 THEN texts[1]
      ELSE IF Len(toks) > 2 /\ texts[1] = "<" /\ {i \in DOMAIN texts : texts[i] = ">"} = {Len(texts)}
      THEN FoldLeft(LAMBDA s, t : s \o t, "", parts) ELSE ""

(* Whether an attribute or a builtin is known: [ok, found].                *)
Known(kind, texts) ==
  LET scoped == \/ Len(texts) = 3 /\ texts[2] = "::"
                \/ Len(texts) = 4 /\ texts[2] = ":" /\ texts[3] = ":"
      name == texts[Len(texts)]
      known == IF kind = "__has_attribute" THEN Attributes ELSE Builtins
  IN  [ok |-> /\ texts[1] \in Names /\ name \in Names
              /\ Len(texts) = 1 \/ (kind = "__has_attribute" /\ scoped),
       found |-> name \in known /\ (Len(texts) = 1 \/ texts[1] \in {"gnu", "__gnu__"})]

RECURSIVE Rescan(_, _, _, _)

(* What a query says of the tokens that its argument comes to: [ok, found]. *)
AnswerOf(kind, r, env) ==
  LET header == HeaderSpelt(r.done)
  IN  IF ~r.ok \/ r.done = <<>> THEN [ok |-> FALSE, found |-> FALSE]
      ELSE IF kind \notin HeaderQueries THEN Known(kind, Texts(r.done))
      ELSE IF header \notin DOMAIN Headers THEN [ok |-> FALSE, found |-> FALSE]
      ELSE [ok |-> env.finds[kind, header] # "none", found |-> env.finds[kind, header] = "yes"]

PutAnswer(a, tail) == [ok |-> a.ok, toks |-> <<Plainly(IF a.found THEN "1" ELSE "0", FALSE)>> \o tail]

(* cc_pp_query_expand: [ok, toks], the list with the query answered.       *)
QueryExpand(rest, depth, env) ==
  LET kind == rest[1].t
      end == IF Len(rest) > 1 /\ rest[2].t = "(" THEN Closing(rest, 2) ELSE 0
      inner == SubSeq(rest, 3, end - 1)
      plain == inner[1].t \in DOMAIN Headers \cup {"<"}
  IN  IF depth >= NestMax THEN [ok |-> FALSE, toks |-> <<>>]
      ELSE IF kind = "__COPYSPACE__" THEN PutAnswer([ok |-> TRUE, found |-> TRUE], Tail(rest))
      ELSE IF end = 0 \/ inner = <<>> THEN [ok |-> FALSE, toks |-> <<>>]
      ELSE PutAnswer(AnswerOf(kind, IF plain THEN [ok |-> TRUE, done |-> inner, rest |-> <<>>]
                                    ELSE Rescan(<<>>, inner, depth + 1, env), env),
                     SubSeq(rest, end + 1, Len(rest)))

(* Mutant: the hide set is the name's alone, whatever the call's end has.  *)
CallHiddenName(name, closing) == name.hidden \cup {name.t}

(* The names that the replacement of a call hides.                         *)
CallHidden(name, closing) == (name.hidden \cap closing.hidden) \cup {name.t}

Hiding(s, names) == [ok |-> s.ok, toks |-> Hide(s.toks, names)]

(* The body of m with its arguments, all being what they expand to.        *)
Substitution(m, args, all, names) ==
  IF \E i \in DOMAIN all : ~all[i].ok THEN [ok |-> FALSE, toks |-> <<>>]
  ELSE Hiding(Substitute(m, [i \in DOMAIN args |-> [raw |-> args[i].raw, omitted |-> args[i].omitted,
                                                    expanded |-> all[i].done]]), names)

(* cc_pp_function_replace: [ok, toks] for the call that ends at closing.   *)
FunctionReplace(m, rest, opening, closing, depth, env) ==
  LET call == CallViews(m, SubSeq(rest, opening + 1, closing - 1))
  IN  IF closing = 0 \/ ~call.ok \/ depth = NestMax
      THEN [ok |-> FALSE, toks |-> <<>>]
      ELSE Substitution(m, call.args,
             [i \in DOMAIN call.args |->
                IF Needed(m, i) THEN Rescan(<<>>, call.args[i].raw, depth + 1, env)
                ELSE [ok |-> TRUE, done |-> call.args[i].raw, rest |-> <<>>]],
             CallHidden(rest[1], rest[closing]))

(* The definition a name is replaced with.                                 *)
MacroOf(tok, env) == IF tok.frozen # <<>> THEN tok.frozen[1] ELSE env.macros[tok.t]

(* What replaces a name, and then what is after it: [ok, toks].            *)
Followed(r, tok, after) ==
  [ok |-> r.ok,
   toks |-> IF r.toks = <<>> THEN Spaced(after, tok.space \/ (after # <<>> /\ after[1].space))
            ELSE Spaced(r.toks, tok.space) \o after]

(* The list goes on as r says, if it does.                                 *)
Resume(r, done, rest, depth, env) ==
  IF r.ok THEN Rescan(done, r.toks, depth, env) ELSE [ok |-> FALSE, done |-> done, rest |-> rest]

(* cc_pp_rescan_depth, its cursor between done and rest: [ok, done, rest]; *)
(* rest is what follows a call that the list does not end.                 *)
Rescan(done, rest, depth, env) ==
  LET tok == rest[1]
      m == MacroOf(tok, env)
      lines == {i \in 2 .. Len(rest) : rest[i].t # "\n"}
      opening == IF lines = {} THEN 0 ELSE CHOOSE i \in lines : \A j \in lines : i <= j
      closing == Closing(rest, opening)
  IN  IF rest = <<>> THEN [ok |-> TRUE, done |-> done, rest |-> <<>>]
      ELSE IF QueryKind(tok.t, env)
      THEN IF tok.t \in HeaderQueries /\ ~env.condition
           THEN [ok |-> FALSE, done |-> done, rest |-> rest]
           ELSE Resume(QueryExpand(rest, depth, env), done, rest, depth, env)
      ELSE IF \/ tok.frozen = <<>> /\ tok.t \notin DOMAIN env.macros
              \/ tok.t \in tok.hidden
              \/ m.function /\ (opening = 0 \/ rest[opening].t # "(")
      THEN Rescan(Append(done, tok), Tail(rest), depth, env)
      ELSE IF m.function /\ env.incomplete /\ depth = 0 /\ closing = 0
      THEN [ok |-> TRUE, done |-> done, rest |-> <<[tok EXCEPT !.frozen = <<m>>]>> \o Tail(rest)]
      ELSE IF m.function
      THEN Resume(Followed(FunctionReplace(m, rest, opening, closing, depth, env), tok,
                           SubSeq(rest, closing + 1, Len(rest))), done, rest, depth, env)
      ELSE Resume(Followed(Hiding(ObjectBody(m.body), tok.hidden \cup {tok.t}), tok, Tail(rest)),
                  done, rest, depth, env)
=============================================================================
