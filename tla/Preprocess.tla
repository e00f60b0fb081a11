----------------------------- MODULE Preprocess -----------------------------
(***************************************************************************)
(* The preprocessor of the copy_c compiler (cc_preprocess_macros in        *)
(* runtime/copy_c/preprocess_macros.h, with preprocess_condition.h,        *)
(* preprocess_include.h and input_files.h): the files of a bundle are read *)
(* a line at a time.  The tokens of the lines wait in a list until a       *)
(* directive or the end of a file; before a directive, all that is         *)
(* complete is replaced and put out, and a call that goes on stays with    *)
(* the definition it began with.  A line is [kind, name, items]: the       *)
(* directive, or "text"; the name it is about; and the items after that,   *)
(* " " being white space.                                                  *)
(***************************************************************************)
EXTENDS MacroExpand

CONSTANTS FilesMax,    \* CC_FILES_MAX
          RootsMax,    \* CC_FILE_ROOTS_MAX
          GroupMax,    \* 64
          IncludeMax   \* CC_PP_INCLUDE_DEPTH

VARIABLES bundle,   \* [files, main, roots], files being [name, text]
          stack,    \* the files that are open: [file, at, floor, root]
          list,     \* the tokens that wait
          macros,   \* name -> macro
          queries,  \* the built-in names that no #undef has removed
          groups,   \* [parent, taken, active, saw_else]
          enabled,  \* whether lines are read or skipped
          once,     \* the files that said #pragma once
          output,   \* the spellings put out
          outcome   \* "decode", "read", "done" or "failed"

ppVars == <<bundle, stack, list, macros, queries, groups, enabled, once, output, outcome>>

(* The compiler is given the bundle b.                                     *)
Init(b) ==
  /\ bundle = b /\ outcome = "decode"
  /\ stack = <<>> /\ list = <<>> /\ macros = << >> /\ queries = QuerySymbols
  /\ groups = <<>> /\ enabled = TRUE /\ once = {} /\ output = <<>>

Fails == /\ outcome' = "failed"
         /\ UNCHANGED <<bundle, stack, list, macros, queries, groups, enabled, once, output>>

(* cc_file_name_valid: a name is a sequence of components.                 *)
NameValid(name, root) ==
  /\ name # <<>> \/ root
  /\ \A i \in DOMAIN name : name[i] \notin {"", ".", ".."}

(* Roots are kept once each; two files of one name are refused.            *)
Distinct(roots) ==
  FoldLeft(LAMBDA s, r : IF r \in ToSet(s) THEN s ELSE Append(s, r), <<>>, roots)

Decodable(b) ==
  /\ Len(b.files) \in 1 .. FilesMax /\ b.main \in DOMAIN b.files /\ Len(b.roots) <= RootsMax
  /\ \A i \in DOMAIN b.roots : NameValid(b.roots[i], TRUE)
  /\ \A i \in DOMAIN b.files : NameValid(b.files[i].name, FALSE)
  /\ \A i, j \in DOMAIN b.files : b.files[i].name = b.files[j].name => i = j

Frame(file, root) == [file |-> file, at |-> 1, floor |-> Len(groups), root |-> root]

Decode == /\ outcome = "decode"
          /\ IF ~Decodable(bundle) THEN Fails
             ELSE /\ bundle' = [bundle EXCEPT !.roots = Distinct(@)]
                  /\ stack' = <<Frame(bundle.main, 0)>>
                  /\ outcome' = "read"
                  /\ UNCHANGED <<list, macros, queries, groups, enabled, once, output>>

-----------------------------------------------------------------------------
(* Files that a name leads to.                                             *)

Here == stack[Len(stack)]
Text == bundle.files[Here.file].text
Line == Text[Here.at]

(* cc_pp_include_candidate: the file of that path, or 0; .. may not leave  *)
(* the bundle.                                                             *)
Candidate(directory, path) ==
  LET step(r, c) == IF c \in {"", "."} \/ ~r.ok THEN r
                    ELSE IF c # ".." THEN [r EXCEPT !.path = Append(@, c)]
                    ELSE IF r.path = <<>> THEN [r EXCEPT !.ok = FALSE]
                    ELSE [r EXCEPT !.path = Front(@)]
      r == FoldLeft(step, [ok |-> TRUE, path |-> <<>>], directory \o path)
      found == {i \in DOMAIN bundle.files : bundle.files[i].name = r.path}
  IN  IF ~r.ok \/ found = {} \/ path[1] = "" THEN 0 ELSE CHOOSE i \in found : TRUE

NextRoot == IF Here.root > 0 THEN Here.root + 1 ELSE 1

(* Where the roots are searched from.                                      *)
FirstRoot(next) == IF next THEN NextRoot ELSE 1

(* cc_pp_include_find: [file, root], file being 0 if there is none.        *)
Find(header, next) ==
  LET beside == IF header.quote /\ ~next
                THEN Candidate(Front(bundle.files[Here.file].name), header.path) ELSE 0
      hits == {i \in FirstRoot(next) .. Len(bundle.roots) : Candidate(bundle.roots[i], header.path) # 0}
      root == CHOOSE i \in hits : \A j \in hits : i <= j
  IN  IF beside # 0 THEN [file |-> beside, root |-> 0]
      ELSE IF hits = {} THEN [file |-> 0, root |-> 0]
      ELSE [file |-> Candidate(bundle.roots[root], header.path), root |-> root]

(* What __has_include and __has_include_next answer; the second is refused *)
(* where no root is left.                                                  *)
Finds ==
  [kind \in HeaderQueries, h \in DOMAIN Headers |->
     IF kind = "__has_include_next" /\ NextRoot > Len(bundle.roots) THEN "none"
     ELSE IF Find(Headers[h], kind = "__has_include_next").file # 0 THEN "yes" ELSE "no"]

Env(condition, incomplete) ==
  [macros |-> macros, queries |-> queries, condition |-> condition,
   incomplete |-> incomplete, finds |-> Finds]

-----------------------------------------------------------------------------
(* Lines.                                                                  *)

Reading == outcome = "read" /\ Here.at <= Len(Text)
At(kinds) == Reading /\ Line.kind \in kinds
Passed == [stack EXCEPT ![Len(stack)].at = @ + 1]

NewLine == Plainly("\n", FALSE)

ReadText == /\ At({"text"})
            /\ list' = IF enabled THEN list \o Append(Lex(Line.items), NewLine) ELSE list
            /\ stack' = Passed
            /\ UNCHANGED <<bundle, macros, queries, groups, enabled, once, output, outcome>>

(* cc_pp_flush_prefix, before every directive.                             *)
Flushed == Rescan(<<>>, list, 0, Env(FALSE, TRUE))

PutOut(r) == r.ok /\ output' = output \o Texts(r.done) /\ list' = r.rest
FlushPrefix == PutOut(Flushed)

PrefixFails == /\ Reading /\ Line.kind # "text"
               /\ ~Flushed.ok /\ Fails

(* The line was read.                                                      *)
Done == stack' = Passed /\ UNCHANGED <<bundle, outcome>>

Defines(d) == IF ~(d.ok /\ Line.name \in Names) THEN Fails
              ELSE /\ FlushPrefix
                   /\ macros' = [n \in DOMAIN macros \cup {Line.name} |->
                                   IF n = Line.name THEN d.macro ELSE macros[n]]
                   /\ Done /\ UNCHANGED <<queries, groups, enabled, once>>
Define == At({"define"}) /\ enabled /\ Defines(Definition(Line.items))

Undef == /\ At({"undef"}) /\ enabled
         /\ IF Line.name \notin Names \/ Lex(Line.items) # <<>> THEN Fails
            ELSE /\ FlushPrefix
                 /\ macros' = [n \in DOMAIN macros \ {Line.name} |-> macros[n]]
                 /\ queries' = queries \ {Line.name}
                 /\ Done /\ UNCHANGED <<groups, enabled, once>>

(* cc_pp_pragma                                                            *)
Pragma == /\ At({"pragma"}) /\ enabled
          /\ IF Texts(Lex(Line.items)) # <<"once">> THEN Fails
             ELSE /\ FlushPrefix
                  /\ once' = once \cup {Here.file}
                  /\ Done /\ UNCHANGED <<macros, queries, groups, enabled>>

(* cc_pp_include_name: the header, if one is named: [ok, header].          *)
HeaderNamed(r) ==
  LET spelt == HeaderSpelt(r.done)
  IN  IF ~r.ok \/ r.done = <<>> THEN [ok |-> FALSE]
      ELSE IF spelt \in DOMAIN Headers THEN [ok |-> TRUE, header |-> Headers[spelt]] ELSE [ok |-> FALSE]
IncludeName ==
  LET toks == Lex(Line.items)
  IN  HeaderNamed(IF toks # <<>> /\ toks[1].t \in DOMAIN Headers THEN [ok |-> Len(toks) = 1, done |-> toks]
                  ELSE Rescan(<<>>, toks, 0, Env(FALSE, FALSE)))

(* A file that said #pragma once is passed over.                           *)
Includes(name) ==
  LET found == Find(name.header, Line.kind = "include_next")
  IN  IF \/ ~name.ok \/ found.file = 0
         \/ (found.file \notin once /\ Len(stack) > IncludeMax)
      THEN Fails
      ELSE /\ FlushPrefix
           /\ stack' = IF found.file \in once THEN Passed
                       ELSE Append(Passed, Frame(found.file, found.root))
           /\ UNCHANGED <<bundle, macros, queries, groups, enabled, once, outcome>>
Include == At({"include", "include_next"}) /\ enabled /\ Includes(IncludeName)

(* A # alone, a directive that is skipped, and one that is not known.      *)
Unread == {"define", "undef", "pragma", "include", "include_next", "other"}

Skip == /\ At({"null"}) \/ (At(Unread) /\ ~enabled)
        /\ FlushPrefix
        /\ Done /\ UNCHANGED <<macros, queries, groups, enabled, once>>

Other == At({"other"}) /\ enabled /\ Fails

-----------------------------------------------------------------------------
(* Groups.                                                                 *)

(* defined is answered before anything is replaced: [ok, toks].            *)
DefinedRead(toks, env) ==
  LET answer(t) == Plainly(IF IsDefined(t, env) THEN "1" ELSE "0", FALSE)
      step(r, x) ==
        CASE r.at = "plain" -> IF x.t = "defined" THEN [r EXCEPT !.at = "defined"]
                               ELSE [r EXCEPT !.toks = Append(@, x)]
          [] r.at = "defined" /\ x.t = "(" -> [r EXCEPT !.at = "name"]
          [] r.at \in {"defined", "name"} /\ x.t \in Names ->
               [at |-> IF r.at = "name" THEN "close" ELSE "plain", toks |-> Append(r.toks, answer(x.t))]
          [] r.at = "close" /\ x.t = ")" -> [r EXCEPT !.at = "plain"]
          [] OTHER -> [r EXCEPT !.at = "failed"]
      r == FoldLeft(step, [at |-> "plain", toks |-> <<>>], toks)
  IN  [ok |-> r.at = "plain", toks |-> r.toks]

(* What the line of an #if comes to before it is evaluated: [ok, texts].   *)
AllTexts(ok, r) == IF ok /\ r.ok THEN [ok |-> TRUE, texts |-> Texts(r.done)] ELSE [ok |-> FALSE, texts |-> <<>>]
ConditionTexts ==
  LET env == Env(TRUE, FALSE)
      d == DefinedRead(Lex(Line.items), env)
  IN  AllTexts(d.ok, Rescan(<<>>, d.toks, 0, env))

(* cc_pp_condition_line: [ok, truth]; a line that is not run is skipped.   *)
TruthOf(c) ==
  LET v == Condition(c.texts, queries \ DOMAIN macros)
  IN  IF c.ok THEN [ok |-> v.ok, truth |-> v.ok /\ v.truth] ELSE [ok |-> FALSE, truth |-> FALSE]
ConditionLine(run) == IF run THEN TruthOf(ConditionTexts) ELSE [ok |-> TRUE, truth |-> FALSE]

(* #if, #ifdef and #ifndef                                                 *)
NameLine == [ok |-> ~enabled \/ (Line.name \in Names /\ Lex(Line.items) = <<>>),
             truth |-> enabled /\ (IsDefined(Line.name, Env(FALSE, FALSE)) = (Line.kind = "ifdef"))]
Opens(c) ==
  IF ~c.ok \/ Len(groups) = GroupMax THEN Fails
  ELSE /\ FlushPrefix
       /\ groups' = Append(groups, [parent |-> enabled, taken |-> c.truth,
                                    active |-> enabled /\ c.truth, saw_else |-> FALSE])
       /\ enabled' = (enabled /\ c.truth)
       /\ Done /\ UNCHANGED <<macros, queries, once>>
If == /\ At({"if", "ifdef", "ifndef"})
      /\ Opens(IF Line.kind = "if" THEN ConditionLine(enabled) ELSE NameLine)

Group == groups[Len(groups)]
Inside == Len(groups) > Here.floor

Runnable == Group.parent /\ ~Group.taken
Continues(c) ==
  LET active == Runnable /\ c.truth
  IN  IF ~Inside \/ Group.saw_else \/ ~c.ok THEN Fails
      ELSE /\ FlushPrefix
           /\ groups' = [groups EXCEPT ![Len(groups)].active = active,
                                       ![Len(groups)].taken = @ \/ active]
           /\ enabled' = active
           /\ Done /\ UNCHANGED <<macros, queries, once>>
Elif == At({"elif"}) /\ Continues(ConditionLine(Runnable))

Else == /\ At({"else"})
        /\ IF ~Inside \/ Group.saw_else \/ Lex(Line.items) # <<>> THEN Fails
           ELSE /\ FlushPrefix
                /\ groups' = [groups EXCEPT ![Len(groups)] =
                                [parent |-> @.parent, taken |-> TRUE, saw_else |-> TRUE,
                                 active |-> @.parent /\ ~@.taken]]
                /\ enabled' = (Group.parent /\ ~Group.taken)
                /\ Done /\ UNCHANGED <<macros, queries, once>>

Endif == /\ At({"endif"})
         /\ IF ~Inside \/ Lex(Line.items) # <<>> THEN Fails
            ELSE /\ FlushPrefix
                 /\ groups' = Front(groups)
                 /\ enabled' = Group.parent
                 /\ Done /\ UNCHANGED <<macros, queries, once>>

(* The end of a file: what waits is put out, complete or not at all, and   *)
(* the file that included this one goes on.                                *)
Ends(r) ==
  IF Len(groups) # Here.floor \/ ~r.ok THEN Fails
  ELSE /\ output' = output \o Texts(r.done)
       /\ list' = <<>>
       /\ stack' = IF Len(stack) = 1 THEN stack ELSE Front(stack)
       /\ outcome' = IF Len(stack) = 1 THEN "done" ELSE outcome
       /\ UNCHANGED <<bundle, macros, queries, groups, enabled, once>>
EndFile == /\ outcome = "read" /\ Here.at > Len(Text)
           /\ Ends(Rescan(<<>>, list, 0, Env(FALSE, FALSE)))

Next == \/ Decode \/ ReadText \/ PrefixFails
        \/ Define \/ Undef \/ Pragma \/ Include \/ Skip \/ Other
        \/ If \/ Elif \/ Else \/ Endif \/ EndFile
=============================================================================
