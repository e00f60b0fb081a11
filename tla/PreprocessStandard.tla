------------------------- MODULE PreprocessStandard -------------------------
(***************************************************************************)
(* What C says a preprocessor puts out, and that Preprocess puts it out.   *)
(* Here nothing waits in a list and nothing is flushed.  Groups are read   *)
(* as the nested text they are, which leaves a sequence of tokens with     *)
(* definitions between them.  It is read once, through the replacements    *)
(* that are open: a name met inside its own replacement is painted and     *)
(* never replaced again.  A painted token hides its own spelling.          *)
(***************************************************************************)
EXTENDS Preprocess

-----------------------------------------------------------------------------
(* Substitution: operands, each as its neighbours demand, then joined.     *)

(* The body without , ## args: the comma alone, or nothing if args is not  *)
(* there.                                                                  *)
WithoutComma(m, body, args) ==
  LET n == Len(body)
      last == Len(m.params)
      gnu(i) == /\ m.variadic /\ i \in 2 .. n - 1 /\ body[i].t = "##" /\ body[i - 1].t = ","
                /\ body[i + 1].t = m.params[last]
      kept == SelectSeq([i \in 1 .. n |-> i], LAMBDA i : ~gnu(i) /\ ~(gnu(i + 1) /\ args[last].omitted))
  IN  [k \in DOMAIN kept |-> body[kept[k]]]

OperandLength(m, b) ==
  LET from == IF b[1].t = "#" THEN 2 ELSE 1
  IN  IF m.variadic /\ b[from].t = "__VA_OPT__" THEN VaOptEnd(b, from) ELSE from

Unjoined == [ok |-> TRUE, toks |-> <<>>, join |-> FALSE, lost |-> FALSE]

RECURSIVE Joined(_, _, _, _)

Tokens(ok, toks) == [ok |-> ok, toks |-> toks, own |-> FALSE, lost |-> FALSE]

(* The tokens of one operand, at least one of them: [ok, toks, own, lost]; *)
(* own is the white space that the first had before it was put here.       *)
OperandTokens(m, op, args, beside) ==
  LET string == op[1].t = "#"
      name == IF string THEN op[2].t ELSE op[1].t
      p == IndexOf(name, m.params)
      inner == SubSeq(op, IF string THEN 4 ELSE 3, Len(op) - 1)
      option == IF args[Len(m.params)].expanded = <<>> THEN Tokens(TRUE, <<>>)
                ELSE Joined(m, inner, args, Unjoined)
      r == IF m.variadic /\ name = "__VA_OPT__"
           THEN IF string THEN [option EXCEPT !.toks = <<Stringify(@)>>] ELSE option
           ELSE Tokens(TRUE, IF string THEN <<Stringify(args[p].raw)>>
                             ELSE IF p = 0 THEN op
                             ELSE IF beside THEN args[p].raw ELSE args[p].expanded)
  IN  [r EXCEPT !.own = r.toks # <<>> /\ r.toks[1].space,
                !.toks = Spaced(IF @ = <<>> THEN <<Empty>> ELSE @, op[1].space)]

(* An empty left operand has white space before it, and the right one,     *)
(* which the code takes as it was written, has none; or the reverse.       *)
Loses(a, b, own) == a.t = "" /\ (IF b.t = "" THEN a.space ELSE a.space # own)

Glue(a, b) == IF a.t = "" THEN [ok |-> TRUE, tok |-> [b EXCEPT !.space = a.space]]
              ELSE IF b.t = "" THEN [ok |-> TRUE, tok |-> a] ELSE Paste(a, b)

(* Places left empty hand their white space on.                            *)
Closed(toks) ==
  FoldLeft(LAMBDA r, x : IF x.t = "" THEN [r EXCEPT !.space = @ \/ x.space]
                         ELSE [toks |-> Append(r.toks, [x EXCEPT !.space = @ \/ r.space]),
                               space |-> FALSE],
           [toks |-> <<>>, space |-> FALSE], toks).toks

Joined(m, b, args, r) ==
  LET n == OperandLength(m, b)
      right == n < Len(b) /\ b[n + 1].t = "##"
      op == OperandTokens(m, SubSeq(b, 1, n), args, r.join \/ right)
      left == r.toks[Len(r.toks)]
      g == Glue(left, op.toks[1])
      toks == IF r.join THEN Append(Front(r.toks), g.tok) \o Tail(op.toks) ELSE r.toks \o op.toks
  IN  IF ~r.ok THEN Tokens(FALSE, <<>>)
      ELSE IF b = <<>> THEN [Tokens(TRUE, Closed(r.toks)) EXCEPT !.lost = r.lost]
      ELSE Joined(m, SubSeq(b, (IF right THEN n + 1 ELSE n) + 1, Len(b)), args,
                  [ok |-> op.ok /\ (r.join => g.ok), toks |-> toks, join |-> right,
                   lost |-> r.lost \/ op.lost \/ (r.join /\ Loses(left, op.toks[1], op.own))])

Substituted(m, args) ==
  Joined(m, WithoutComma(m, m.body, args), args, Unjoined)

-----------------------------------------------------------------------------
(* Reading through the replacements.  s: [events, open, env, off, out, ok, *)
(* gap, lost, exempt]; an event is a token, a definition, a directive, or  *)
(* the end of a file.  lost says that ## met an empty left operand, and    *)
(* the white space is not kept; exempt, that a string was then made, which *)
(* spells it, or that a call's arguments left a replacement, where C       *)
(* leaves open which names may still be replaced.                          *)

Event(kind) == [kind |-> kind, tok |-> Empty, name |-> "", macro |-> <<>>]
TokenEvent(x) == [Event("token") EXCEPT !.tok = x]

Apply(ev, env) ==
  CASE ev.kind = "define" ->
         [env EXCEPT !.macros = [n \in DOMAIN @ \cup {ev.name} |-> IF n = ev.name THEN ev.macro ELSE @[n]]]
    [] ev.kind = "undef" -> [env EXCEPT !.macros = [n \in DOMAIN @ \ {ev.name} |-> @[n]],
                                        !.queries = @ \ {ev.name}]
    [] OTHER -> env

Disabled(s) == s.off \cup {s.open[i].name : i \in DOMAIN s.open}

RECURSIVE Read(_)

(* The next event, and the state after it.                                 *)
Read(s) ==
  LET top == s.open[Len(s.open)]
      tok == [top.toks[1] EXCEPT !.hidden = IF @ # {} \/ top.toks[1].t \in Disabled(s) THEN {top.toks[1].t} ELSE {},
                                 !.space = @ \/ s.gap]
      x == s.events[1].tok
      outer == [x EXCEPT !.hidden = IF @ # {} \/ x.t \in s.off THEN {x.t} ELSE {}, !.space = @ \/ s.gap]
      rest == [s EXCEPT !.events = Tail(@)]
  IN  IF s.open # <<>>
      THEN IF top.toks = <<>> THEN Read([s EXCEPT !.open = Front(@)])
           ELSE [ev |-> TokenEvent(tok),
                 s |-> [s EXCEPT !.open[Len(s.open)].toks = Tail(@), !.gap = FALSE]]
      ELSE IF s.events = <<>> THEN [ev |-> Event("end"), s |-> s]
      ELSE IF s.events[1].kind = "token"
      THEN [ev |-> TokenEvent(outer), s |-> [rest EXCEPT !.gap = FALSE]]
      ELSE [ev |-> s.events[1], s |-> [rest EXCEPT !.env = Apply(s.events[1], @)]]

RECURSIVE Peek(_), Collect(_, _, _), Run(_)

(* Past a parenthesis, if the next token on this or a later line is one:   *)
(* [found, s].                                                             *)
Peek(s) ==
  LET r == Read(s)
  IN  IF r.ev.kind # "token" THEN [found |-> FALSE, s |-> s]
      ELSE IF r.ev.tok.t = "\n" THEN Peek(r.s)
      ELSE [found |-> r.ev.tok.t = "(", s |-> r.s]

(* The tokens up to the parenthesis that closes a call: [s, toks].         *)
Collect(s, depth, toks) ==
  LET r == Read(s)
      x == r.ev.tok
      after == [r.s EXCEPT !.exempt = @ \/ Len(r.s.open) < Len(s.open)]
  IN  IF r.ev.kind \in {"end", "eof"} THEN [s |-> [s EXCEPT !.ok = FALSE], toks |-> toks]
      ELSE IF r.ev.kind # "token" THEN Collect(after, depth, toks)
      ELSE IF x.t = ")" /\ depth = 0 THEN [s |-> after, toks |-> toks]
      ELSE Collect(after, depth + Bit(x.t = "(") - Bit(x.t = ")"), Append(toks, x))

Fresh(toks, env, off) ==
  [events |-> [i \in DOMAIN toks |-> TokenEvent(toks[i])], open |-> <<>>, env |-> env, off |-> off,
   out |-> <<>>, ok |-> TRUE, gap |-> FALSE, lost |-> FALSE, exempt |-> FALSE]

Push(s, name, toks, space) ==
  [s EXCEPT !.open = Append(@, [name |-> name, toks |-> Spaced(toks, space)]),
            !.gap = @ \/ (toks = <<>> /\ space)]

(* A call of m with its arguments, full being what they come to.           *)
Opened(s, m, tok, args, full) ==
  LET lost == s.lost \/ \E i \in DOMAIN full : full[i].lost
      strings == \E j \in DOMAIN m.body : m.body[j].t = "#"
      exempt(r) == ((lost \/ r.lost) /\ strings) \/ \E i \in DOMAIN full : full[i].exempt
      push(r) == IF r.ok THEN Push([s EXCEPT !.lost = lost \/ r.lost, !.exempt = @ \/ exempt(r)],
                                   tok.t, r.toks, tok.space)
                 ELSE [s EXCEPT !.ok = FALSE]
  IN  IF \E i \in DOMAIN full : ~full[i].ok THEN [s EXCEPT !.ok = FALSE]
      ELSE push(Substituted(m, [i \in DOMAIN args |-> [raw |-> args[i].raw, omitted |-> args[i].omitted,
                                                       expanded |-> full[i].out]]))

(* A call of m whose arguments are toks.                                   *)
Called(s, m, tok, toks) ==
  LET call == CallViews(m, toks)
  IN  IF ~s.ok \/ ~call.ok THEN [s EXCEPT !.ok = FALSE]
      ELSE Opened(s, m, tok, call.args,
             [i \in DOMAIN call.args |->
                IF Needed(m, i) THEN Run(Fresh(call.args[i].raw, s.env, Disabled(s)))
                ELSE Fresh(<<>>, s.env, {})])

(* A built-in query whose argument comes to r.                             *)
Told(s, kind, r) ==
  LET header == HeaderSpelt(r.out)
      known == IF kind \notin HeaderQueries THEN Known(kind, Texts(r.out))
               ELSE IF header \notin DOMAIN Headers THEN [ok |-> FALSE, found |-> FALSE]
               ELSE [ok |-> s.env.finds[kind, header] # "none", found |-> s.env.finds[kind, header] = "yes"]
  IN  IF ~s.ok \/ ~r.ok \/ r.out = <<>> \/ ~known.ok THEN [s EXCEPT !.ok = FALSE]
      ELSE [s EXCEPT !.out = Append(@, Plainly(IF known.found THEN "1" ELSE "0", FALSE)),
                     !.exempt = @ \/ r.exempt \/ r.lost]

(* A built-in query whose argument is toks.                                *)
Answered(s, kind, toks) ==
  LET plain == toks # <<>> /\ toks[1].t \in DOMAIN Headers \cup {"<"}
  IN  Told(s, kind, IF plain THEN [Fresh(<<>>, s.env, {}) EXCEPT !.out = toks]
                    ELSE Run(Fresh(toks, s.env, Disabled(s))))

Run(s) ==
  LET r == Read(s)
      tok == r.ev.tok
      m == s.env.macros[tok.t]
      p == Peek(r.s)
      c == Collect(p.s, 0, <<>>)
      body == ObjectBody(m.body)
      put == [r.s EXCEPT !.out = Append(@, tok)]
  IN  IF ~s.ok \/ r.ev.kind = "end" THEN s
      ELSE IF r.ev.kind # "token" THEN Run(r.s)
      ELSE IF QueryKind(tok.t, s.env)
      THEN IF tok.t = "__COPYSPACE__" THEN Run([r.s EXCEPT !.out = Append(@, Plainly("1", FALSE))])
           ELSE IF (tok.t \in HeaderQueries /\ ~s.env.condition) \/ ~p.found THEN [s EXCEPT !.ok = FALSE]
           ELSE Run(Answered(c.s, tok.t, c.toks))
      ELSE IF tok.hidden # {} \/ tok.t \notin DOMAIN s.env.macros THEN Run(put)
      ELSE IF m.function THEN IF p.found THEN Run(Called(c.s, m, tok, c.toks)) ELSE Run(put)
      ELSE IF ~body.ok THEN [s EXCEPT !.ok = FALSE]
      ELSE Run(Push(r.s, tok.t, body.toks, tok.space))

-----------------------------------------------------------------------------
(* Files and groups.  st: [ok, env, once, events, nest, depth, exempt].    *)

FoundFrom(file, root, header, next) ==
  LET first == IF next THEN root + 1 ELSE 1
      hits == {i \in first .. Len(bundle.roots) : Candidate(bundle.roots[i], header.path) # 0}
      beside == Candidate(Front(bundle.files[file].name), header.path)
      nearest == CHOOSE i \in hits : \A j \in hits : i <= j
  IN  IF header.quote /\ ~next /\ beside # 0 THEN <<beside, 0>>
      ELSE IF hits = {} THEN <<0, 0>> ELSE <<Candidate(bundle.roots[nearest], header.path), nearest>>

(* What the queries of a line of a file answer.                            *)
Lines(st, file, root) ==
  [st.env EXCEPT !.finds = [kind \in HeaderQueries, h \in DOMAIN Headers |->
     IF kind = "__has_include_next" /\ root >= Len(bundle.roots) THEN "none"
     ELSE IF FoundFrom(file, root, Headers[h], kind = "__has_include_next")[1] # 0 THEN "yes" ELSE "no"]]

Certain(ok, truth) == [ok |-> ok, truth |-> truth, exempt |-> FALSE]
MeantBy(m) == IF m = <<>> THEN Certain(FALSE, FALSE) ELSE Certain(~m[1].err, m[1].n # 0)
MeantAfter(ok, s) ==
  [MeantBy(IF ok /\ s.ok THEN Meaning(Texts(s.out)) ELSE <<>>) EXCEPT !.exempt = s.exempt]

Truth(line, st, file, root) ==
  LET env == [Lines(st, file, root) EXCEPT !.condition = TRUE]
      d == DefinedRead(Lex(line.items), env)
  IN  CASE line.kind \in {"ifdef", "ifndef"} ->
             Certain(line.name \in Names /\ Lex(line.items) = <<>>,
                     IsDefined(line.name, env) = (line.kind = "ifdef"))
        [] line.kind = "else" -> Certain(TRUE, TRUE)
        [] OTHER -> MeantAfter(d.ok, Run(Fresh(d.toks, env, {})))

Openers == {"if", "ifdef", "ifndef"}

(* The #elif, #else and #endif of the group at the first of lines.         *)
Parts(lines) ==
  LET d == FoldLeft(LAMBDA r, l : Append(r, r[Len(r)] + Bit(l.kind \in Openers) - Bit(l.kind = "endif")),
                    <<0>>, lines)
      ends == {i \in DOMAIN lines : d[i + 1] = 0}
      end == CHOOSE i \in ends : \A j \in ends : i <= j
  IN  IF ends = {} THEN <<>>
      ELSE SetToSortSeq({i \in 2 .. end : i = end \/ (d[i] = 1 /\ lines[i].kind \in {"elif", "else"})}, <)

RECURSIVE Flat(_, _, _, _, _), Branches(_, _, _, _, _, _, _)

(* The lines of a group from a part on, whose line says c; no line is read *)
(* after one was.                                                          *)
Branch(c, lines, from, parts, st, file, root, run) ==
  LET head == lines[from]
      body == SubSeq(lines, from + 1, parts[1] - 1)
      rest(after) == IF Len(parts) = 1 THEN after
                     ELSE Branches(lines, parts[1], Tail(parts), after, file, root, run /\ ~c.truth)
      shape == /\ head.kind = "else" => lines[parts[1]].kind = "endif" /\ Lex(head.items) = <<>>
               /\ lines[parts[1]].kind = "endif" => Lex(lines[parts[1]].items) = <<>>
  IN  IF ~st.ok \/ ~shape THEN [st EXCEPT !.ok = FALSE]
      ELSE rest(Flat(body, [st EXCEPT !.ok = c.ok, !.exempt = @ \/ c.exempt], file, root, run /\ c.truth))

Branches(lines, from, parts, st, file, root, run) ==
  Branch(IF run THEN Truth(lines[from], st, file, root) ELSE Certain(TRUE, FALSE),
         lines, from, parts, st, file, root, run)

(* An #include whose name is read as name.                                 *)
Included(name, l, st, file, root) ==
  LET marked == [st EXCEPT !.exempt = @ \/ name.exempt \/ name.lost]
      spelt == HeaderSpelt(name.out)
      found == FoundFrom(file, root, Headers[spelt], l.kind = "include_next")
  IN  IF ~name.ok \/ name.out = <<>> \/ spelt \notin DOMAIN Headers THEN [marked EXCEPT !.ok = FALSE]
      ELSE IF found[1] = 0 THEN [marked EXCEPT !.ok = FALSE]
      ELSE IF found[1] \in marked.once THEN marked
      ELSE IF marked.depth = IncludeMax THEN [marked EXCEPT !.ok = FALSE]
      ELSE [Flat(bundle.files[found[1]].text, [marked EXCEPT !.depth = @ + 1], found[1], found[2], TRUE)
              EXCEPT !.depth = marked.depth, !.events = Append(@, Event("eof"))]

(* After the first of the lines, or the group that begins there.           *)
AfterFirst(lines, parts, st, file, root, run) ==
  LET l == lines[1]
      marked == [st EXCEPT !.events = Append(@, Event("mark"))]
      text == Append(Lex(l.items), NewLine)
      read(ev) == [marked EXCEPT !.events = Append(@, ev), !.env = Apply(ev, @)]
      define(d) == [read([Event("define") EXCEPT !.name = l.name, !.macro = d.macro])
                      EXCEPT !.ok = d.ok /\ l.name \in Names]
      undef == [Event("undef") EXCEPT !.name = l.name]
      toks == Lex(l.items)
  IN  CASE l.kind = "text" ->
               IF run THEN [st EXCEPT !.events = @ \o [i \in DOMAIN text |-> TokenEvent(text[i])]] ELSE st
          [] l.kind \in Openers ->
               IF parts = <<>> \/ st.nest = GroupMax THEN [st EXCEPT !.ok = FALSE]
               ELSE [Branches(lines, 1, parts, [marked EXCEPT !.nest = @ + 1], file, root, run)
                       EXCEPT !.nest = st.nest]
          [] l.kind \in {"elif", "else", "endif"} -> [st EXCEPT !.ok = FALSE]
          [] l.kind = "null" \/ ~run -> marked
          [] l.kind = "define" -> define(Definition(l.items))
          [] l.kind = "undef" -> [read(undef) EXCEPT !.ok = toks = <<>> /\ l.name \in Names]
          [] l.kind = "pragma" -> [marked EXCEPT !.ok = Texts(toks) = <<"once">>, !.once = @ \cup {file}]
          [] l.kind = "other" -> [st EXCEPT !.ok = FALSE]
          [] OTHER ->
               Included(IF toks # <<>> /\ toks[1].t \in DOMAIN Headers
                        THEN [Fresh(<<>>, st.env, {}) EXCEPT !.out = toks, !.ok = Len(toks) = 1]
                        ELSE Run(Fresh(toks, st.env, {})), l, marked, file, root)

(* The lines of a file, read if run and looked through if not.             *)
Flat(lines, st, file, root, run) ==
  LET parts == Parts(lines)
      rest == IF lines[1].kind \in Openers /\ parts # <<>> THEN SubSeq(lines, parts[Len(parts)] + 1, Len(lines))
              ELSE Tail(lines)
  IN  IF lines = <<>> \/ ~st.ok THEN st ELSE Flat(rest, AfterFirst(lines, parts, st, file, root, run), file, root, run)

NoFinds == [kind \in HeaderQueries, h \in DOMAIN Headers |-> "none"]
FirstEnv == [macros |-> << >>, queries |-> QuerySymbols, condition |-> FALSE, incomplete |-> FALSE,
             finds |-> NoFinds]

(* [ok, exempt, texts] for the bundle.                                     *)
Whole(files, s) == [ok |-> files.ok /\ s.ok, exempt |-> files.exempt \/ s.exempt, texts |-> Texts(s.out)]
Through(files) == Whole(files, Run([Fresh(<<>>, FirstEnv, {}) EXCEPT !.events = files.events]))
Standard ==
  Through(Flat(bundle.files[bundle.main].text,
               [ok |-> TRUE, env |-> FirstEnv, once |-> {}, events |-> <<>>, nest |-> 0, depth |-> 0,
                exempt |-> FALSE],
               bundle.main, 0, TRUE))

-----------------------------------------------------------------------------
(* What is put out is what C says, however directives cut the text and     *)
(* whatever waits at a cut; and a bundle is refused exactly when C has no  *)
(* meaning for it.  Spellings are compared, not white space; where ## lost *)
(* white space and a string spells it, the two differ, and such bundles    *)
(* are left out.  (Decoding and cc_preprocess_macros as a whole.)          *)
PutsOutStandard ==
  outcome \in {"done", "failed"} /\ Decodable(bundle) =>
    LET is(s) == s.exempt \/ ((outcome = "done") = s.ok /\ (s.ok => output = s.texts))
    IN  is(Standard)

(* An #if line that is evaluated has the value that C gives it, and is     *)
(* refused exactly when C gives it none.                                   *)
EvaluatesStandard ==
  outcome = "read" /\ Here.at <= Len(Text) /\ Line.kind = "if" /\ enabled /\ ConditionTexts.ok =>
    Agrees(ConditionTexts.texts)
=============================================================================
