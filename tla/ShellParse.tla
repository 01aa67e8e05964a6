----------------------------- MODULE ShellParse ----------------------------
(***************************************************************************)
(* How the shell reads a command text (user/sh.c: cut_segments and the     *)
(* parse_ functions).  The text is first cut into segments at the          *)
(* separators, and the segments are then parsed, keywords being taken off  *)
(* the front of a segment.                                                 *)
(*                                                                         *)
(* A text is a sequence of tokens: "w" is any word, "for" stands for       *)
(* "for NAME in WORDS", "case" for "case WORD", "p)" for the patterns of a *)
(* case item, "f()" for the head of a function, ">" for a redirection.     *)
(* Is a text accepted, refused, or are more lines needed?  IsProgram       *)
(* answers from the grammar alone.                                         *)
(***************************************************************************)
EXTENDS Naturals, Sequences

CONSTANTS
  PsTokens,      \* sets of tokens: a text takes its tokens from one of them
  PsStarts,      \* texts typed so far
  PsLength       \* how many tokens are typed after them

PsAssumption == PsLength \in Nat /\ \A S \in PsTokens : S \subseteq STRING

VARIABLE typed
psVars == <<typed>>

From(s, i) == SubSeq(s, i, Len(s))
Joins == [t \in {";", "newline", "&&", "||"} |-> IF t = "&&" THEN "and" ELSE IF t = "||" THEN "or" ELSE "always"]
Separators == DOMAIN Joins
Closing == {"then", "elif", "else", "fi", "do", "done", "esac", ";;", "}"}
Starts == {"if", "while", "until", "for", "case", "{"}
Tails == {"|", "&", ">"}

-----------------------------------------------------------------------------
(***************************************************************************)
(* cut_segments: [segs, join, bad]; join is what the last segment said of  *)
(* the next one.                                                           *)
(***************************************************************************)
Segment(text, join) == [text |-> text, join |-> join]

RECURSIVE cut_segments(_, _, _, _)
cut_segments(s, buf, segs, join) ==
  LET keep(j) == IF buf = <<>> THEN segs ELSE Append(segs, Segment(buf, j))
      now(j) == IF buf = <<>> THEN join ELSE j
  IN  IF s = <<>> THEN [segs |-> keep("always"), join |-> now("always"), bad |-> FALSE]
      ELSE IF Head(s) = ";;"
      THEN cut_segments(Tail(s), <<>>, Append(keep("always"), Segment(<<";;">>, "always")), "always")
      ELSE IF Head(s) \notin Separators THEN cut_segments(Tail(s), Append(buf, Head(s)), segs, join)
      ELSE IF buf = <<>> /\ Head(s) \in {"&&", "||"} THEN [segs |-> segs, join |-> join, bad |-> TRUE]
      ELSE cut_segments(Tail(s), <<>>, keep(Joins[Head(s)]), now(Joins[Head(s)]))

-----------------------------------------------------------------------------
(***************************************************************************)
(* The parser: Q = [segs, pos, st, tail, pipe], st one of "ok", "syntax"   *)
(* and "incomplete".  A parse_ function gives Q as it leaves it, and the   *)
(* tree as the tokens it stands for, in `is'.                              *)
(***************************************************************************)
Text(Q) == Q.segs[Q.pos].text
AtEnd(Q) == Q.pos > Len(Q.segs)
first_word(Q) == IF Head(Text(Q)) \in Tails THEN "" ELSE Head(Text(Q))
Fail(Q, why) == [Q EXCEPT !.st = why]
Is(Q, is) == [Q |-> Q, is |-> is]
continue_segment(Q, rest) ==
  IF rest = <<>> THEN [Q EXCEPT !.pos = @ + 1] ELSE [Q EXCEPT !.segs[Q.pos].text = rest]

Starting(Q, kw) == ~AtEnd(Q) /\ first_word(Q) = kw
\* take_keyword, once the keyword is known to be there.
Taken(Q, alone) ==
  LET rest == Tail(Text(Q)) IN
  CASE rest = <<>> -> [Q EXCEPT !.pos = @ + 1]
    [] rest # <<>> /\ alone = "tail" /\ Head(rest) \in Tails ->
         [continue_segment(Q, rest) EXCEPT !.tail = TRUE]
    [] rest # <<>> /\ alone # "no" /\ ~(alone = "tail" /\ Head(rest) \in Tails) -> Fail(Q, "syntax")
    [] OTHER -> continue_segment(Q, rest)
expect_keyword(Q, kw, alone) ==
  CASE Q.st # "ok" -> Q
    [] Q.st = "ok" /\ AtEnd(Q) -> Fail(Q, "incomplete")
    [] Q.st = "ok" /\ ~AtEnd(Q) /\ first_word(Q) # kw -> Fail(Q, "syntax")
    [] OTHER -> Taken(Q, alone)

NonEmpty(Q, is) == IF Q.st = "ok" /\ is = <<>> THEN Fail(Q, "syntax") ELSE Q

RECURSIVE parse_list(_, _, _, _), parse_if(_), parse_command(_), parse_items(_, _), parse_stages(_, _)
List(Q) == parse_list(Q, TRUE, "always", <<>>)

\* A body after its keyword, when that was there.
BodyAfter(Q) == IF Q.st = "ok" THEN List(Q) ELSE Is(Q, <<>>)

if_end(C, B, E, last) == Is(NonEmpty(NonEmpty(E.Q, C.is), B.is), <<"if">> \o C.is \o <<"then">> \o B.is \o last \o E.is)
if_fi(C, B, E, last) == if_end(C, B, Is(expect_keyword(E.Q, "fi", "tail"), Append(E.is, "fi")), last)
if_elif(C, B, I) == if_end(C, B, Is(I.Q, Tail(I.is)), <<"elif">>)
if_rest(C, B) ==
  CASE B.Q.st = "ok" /\ Starting(B.Q, "elif") -> if_elif(C, B, parse_if(Taken(B.Q, "no")))
    [] B.Q.st = "ok" /\ Starting(B.Q, "else") -> if_fi(C, B, List(Taken(B.Q, "no")), <<"else">>)
    [] OTHER -> if_fi(C, B, Is(B.Q, <<>>), <<>>)
if_then(C) == if_rest(C, BodyAfter(expect_keyword(C.Q, "then", "no")))
parse_if(Q) == if_then(List(Q))

\* while and until; a for has its head in the segment.
while_done(kw, C, B, end) ==
  Is(IF kw = "for" THEN NonEmpty(end, B.is) ELSE NonEmpty(NonEmpty(end, B.is), C.is),
     <<kw>> \o C.is \o <<"do">> \o B.is \o <<"done">>)
while_body(kw, C, B) == while_done(kw, C, B, expect_keyword(B.Q, "done", "tail"))
while_do(kw, C) == while_body(kw, C, BodyAfter(expect_keyword(C.Q, "do", "no")))
parse_while(kw, Q) ==
  while_do(kw, IF kw = "for" THEN Is([Q EXCEPT !.pos = @ + 1], Tail(Text(Q))) ELSE List(Taken(Q, "no")))

\* The items of a case, up to "esac".
item_end(B, is) ==
  IF B.Q.st # "ok" THEN Is(B.Q, is \o B.is)
  ELSE IF first_word(B.Q) = ";;" THEN parse_items(Taken(B.Q, "alone"), Append(is \o B.is, ";;"))
  ELSE IF first_word(B.Q) = "esac" THEN parse_items(B.Q, is \o B.is)
  ELSE Is(Fail(B.Q, "syntax"), is \o B.is)
parse_items(Q, is) ==
  IF Q.st # "ok" THEN Is(Q, is)
  ELSE IF AtEnd(Q) THEN Is(Fail(Q, "incomplete"), is)
  ELSE IF first_word(Q) = "esac" THEN Is(Taken(Q, "tail"), Append(is, "esac"))
  ELSE IF Head(Text(Q)) # "p)" THEN Is(Fail(Q, "syntax"), is)
  ELSE item_end(List(continue_segment(Q, Tail(Text(Q)))), Append(is, "p)"))
parse_case(Q) ==
  LET rest == Tail(Text(Q)) IN
  parse_items(CASE rest = <<>> -> expect_keyword([Q EXCEPT !.pos = @ + 1], "in", "no")
                [] rest # <<>> /\ Head(rest) = "in" -> continue_segment(Q, Tail(rest))
                [] OTHER -> Fail(Q, "syntax"), <<"case", "in">>)

braces_end(B) == Is(NonEmpty(expect_keyword(B.Q, "}", "tail"), B.is), <<"{">> \o B.is \o <<"}">>)
parse_braces(Q) == braces_end(List(Q))
function_end(F) == Is(IF F.Q.st = "ok" /\ F.Q.tail THEN Fail(F.Q, "syntax") ELSE F.Q, <<"f()">> \o F.is)
function_body(H) == IF H.st = "ok" THEN function_end(parse_braces(H)) ELSE Is(H, <<>>)
parse_function(Q) == function_body(expect_keyword(continue_segment(Q, Tail(Text(Q))), "{", "no"))

\* A simple command goes up to a '|' before a compound one.
pipe_into_compound(s) == {i \in 1 .. Len(s) - 1 : s[i] = "|" /\ s[i + 1] \in Starts}
parse_simple(Q) ==
  LET s == Text(Q)
      bars == pipe_into_compound(s)
      bar == CHOOSE i \in bars : \A j \in bars : i <= j
  IN  IF bars = {} THEN Is([Q EXCEPT !.pos = @ + 1], s)
      ELSE Is([continue_segment(Q, From(s, bar + 1)) EXCEPT !.pipe = TRUE], SubSeq(s, 1, bar - 1))

parse_command(Q) ==
  LET w == first_word(Q) IN
  CASE w = "if" -> parse_if(Taken(Q, "no"))
    [] w \in {"while", "until", "for"} -> parse_while(w, Q)
    [] w = "case" -> parse_case(Q)
    [] w = "{" -> parse_braces(Taken(Q, "no"))
    [] w = "f()" -> parse_function(Q)
    [] OTHER -> parse_simple(Q)

\* The redirections and the '|' left after a closing keyword.
take_tail(Q0) ==
  LET Q == [Q0 EXCEPT !.tail = FALSE]
      s == Text(Q)
      bars == {i \in 1 .. Len(s) : s[i] = "|"}
      bar == CHOOSE i \in bars : \A j \in bars : i <= j
  IN  IF bars = {} THEN Is([Q EXCEPT !.pos = @ + 1], s)
      ELSE Is([continue_segment(Q, From(s, bar + 1)) EXCEPT !.pipe = TRUE], SubSeq(s, 1, bar - 1))

\* parse_pipeline_body from its loop on: the last command is E, T the tail it
\* took, N the command after the '|'.
next_stage(Q, N, is) ==
  IF N.Q.st = "ok" /\ first_word(Q) = "f()" THEN Is(Fail(Q, "syntax"), is) ELSE parse_stages(N, Append(is, "|"))
after_bar(Q, is) ==
  IF AtEnd(Q) THEN Is(Fail(Q, "incomplete"), is)
  ELSE IF first_word(Q) \in Closing \/ Head(Text(Q)) = "|" THEN Is(Fail(Q, "syntax"), is)
  ELSE next_stage(Q, parse_command(Q), is)
after_tail(T, is) ==
  IF T.Q.pipe THEN after_bar([T.Q EXCEPT !.pipe = FALSE], is \o T.is) ELSE Is(T.Q, is \o T.is)
parse_stages(E, is) ==
  IF E.Q.st # "ok" THEN E
  ELSE after_tail(IF E.Q.tail THEN take_tail(E.Q) ELSE Is(E.Q, <<>>), is \o E.is)
parse_pipeline_body(Q0) == parse_stages(parse_command([Q0 EXCEPT !.tail = FALSE, !.pipe = FALSE]), <<>>)
negated(B) == Is(B.Q, <<"!">> \o B.is)
parse_pipeline(Q) ==
  IF first_word(Q) # "!" THEN parse_pipeline_body(Q)
  ELSE IF Tail(Text(Q)) = <<>> THEN Is(Fail(Q, "syntax"), <<>>)
  ELSE negated(parse_pipeline_body(Taken(Q, "no")))

\* Mutant of ClosingOk: a closing keyword may follow && and ||
ClosingAnyhow(nested, join) == nested
ClosingOk(nested, join) == nested /\ join = "always"

JoinToken(join) == IF join = "and" THEN "&&" ELSE IF join = "or" THEN "||" ELSE ";"
next_pipeline(P, nested, join, is) ==
  IF P.Q.st # "ok" THEN P
  ELSE parse_list(P.Q, nested, P.Q.segs[P.Q.pos - 1].join,
                  is \o (IF is = <<>> THEN <<>> ELSE <<JoinToken(join)>>) \o P.is)
parse_list(Q, nested, join, is) ==
  CASE Q.st # "ok" -> Is(Q, is)
    [] Q.st = "ok" /\ AtEnd(Q) -> Is(IF nested THEN Fail(Q, "incomplete") ELSE Q, is)
    [] Q.st = "ok" /\ ~AtEnd(Q) /\ first_word(Q) \in Closing ->
         Is(IF ClosingOk(nested, join) THEN Q ELSE Fail(Q, "syntax"), is)
    [] OTHER -> next_pipeline(parse_pipeline(Q), nested, join, is)

\* run_text, up to running it.
text_read(P, join) == IF P.Q.st = "ok" /\ join # "always" THEN Is(Fail(P.Q, "incomplete"), P.is) ELSE P
text_cut(cut) ==
  IF cut.bad THEN Is([st |-> "syntax"], <<>>)
  ELSE text_read(parse_list([segs |-> cut.segs, pos |-> 1, st |-> "ok", tail |-> FALSE, pipe |-> FALSE],
                            FALSE, "always", <<>>), cut.join)
run_text(s) == text_cut(cut_segments(s, <<>>, <<>>, "always"))

-----------------------------------------------------------------------------
(***************************************************************************)
(* The grammar, over texts whose empty statements have been taken out: no  *)
(* separator at the start, after another one or after a word that a list   *)
(* follows.  The parts of a simple command are left to when it is run.     *)
(***************************************************************************)
Opens == {"if", "while", "until", "then", "elif", "else", "do", "{", "p)", "f()", "case", "|", "!"}
\* `head' says that a command could start here.
RECURSIVE Squeezed(_, _, _)
Squeezed(s, done, head) ==
  LET t == Head(s)
      last == IF done = <<>> THEN ";" ELSE done[Len(done)]
      stays == t \in Separators \cup {";;", "|"} \/ (head /\ t \in Opens /\ (last = "|" => t \in Starts)) \/ (head /\ t = "in" /\ last = "case")
  IN  IF s = <<>> THEN done
      ELSE IF /\ t \in {";", "newline"}
              /\ (head /\ last # "|" /\ last # "!") \/ (Len(s) > 1 /\ s[2] \in {";", "newline", ";;"})
           THEN Squeezed(Tail(s), done, head)
           ELSE Squeezed(Tail(s), Append(done, IF t = "newline" THEN ";" ELSE t), stays)

Between(s, i, j) == SubSeq(s, i, j)

RECURSIVE IsList(_), IsCompound(_), IsPipeline(_), IsRest(_), IsItems(_)
\* A list that a keyword follows ends with ';'.
IsClosed(s) == s # <<>> /\ s[Len(s)] = ";" /\ IsList(Between(s, 1, Len(s) - 1))
IsSimple(s) ==
  /\ s # <<>> /\ Head(s) \notin Closing \cup Starts \cup {"f()"}
  /\ \A i \in DOMAIN s : s[i] \notin Separators /\ s[i] # ";;"
  /\ pipe_into_compound(s) = {}
IsTail(s) == s = <<>> \/ (Head(s) \in Tails \ {"|"} /\ \A i \in DOMAIN s : s[i] \notin Separators \cup {"|", ";;"})
\* What follows "then LIST;".
IsRest(s) ==
  \/ s = <<"fi">>
  \/ Head(s) = "else" /\ s[Len(s)] = "fi" /\ (Len(s) = 2 \/ IsClosed(Between(s, 2, Len(s) - 1)))
  \/ /\ Head(s) = "elif"
     /\ \E k \in 2 .. Len(s) : s[k] = "then" /\ IsClosed(Between(s, 2, k - 1))
          /\ \E m \in k + 1 .. Len(s) : IsClosed(Between(s, k + 1, m - 1)) /\ IsRest(From(s, m))
IsItems(s) ==
  \/ s = <<"esac">>
  \/ /\ s # <<>> /\ Head(s) = "p)"
     /\ \E k \in 2 .. Len(s) :
          /\ LET body == Between(s, 2, k - 1) IN
             body = <<>> \/ IsClosed(body) \/ (s[k] = ";;" /\ IsList(body))
          /\ \/ s[k] = ";;" /\ IsItems(From(s, k + 1))
             \/ s[k] = "esac" /\ k = Len(s)
IsCompound(s) ==
  s # <<>> /\
  CASE Head(s) = "if" ->
         \E k \in 2 .. Len(s) : s[k] = "then" /\ IsClosed(Between(s, 2, k - 1))
           /\ \E m \in k + 1 .. Len(s) : IsClosed(Between(s, k + 1, m - 1)) /\ IsRest(From(s, m))
    [] Head(s) \in {"while", "until", "for"} ->
         /\ s[Len(s)] = "done"
         /\ \E k \in 2 .. Len(s) :
              /\ s[k] = "do" /\ IsClosed(Between(s, k + 1, Len(s) - 1))
              /\ IF Head(s) = "for"
                 THEN s[k - 1] = ";" /\ \A i \in 2 .. k - 2 : s[i] \notin Separators \cup {";;"}
                 ELSE IsClosed(Between(s, 2, k - 1))
    [] Head(s) = "case" -> Len(s) > 1 /\ s[2] = "in" /\ IsItems(From(s, 3))
    [] Head(s) = "{" -> s[Len(s)] = "}" /\ IsClosed(Between(s, 2, Len(s) - 1))
    [] OTHER -> FALSE
\* Commands joined by '|', a compound one perhaps with redirections.
IsPipeline(s) ==
  \/ IsSimple(s)
  \/ \E k \in 1 .. Len(s) : IsCompound(Between(s, 1, k)) /\ IsTail(From(s, k + 1))
  \/ \E k \in 1 .. Len(s) - 1 :
       /\ s[k] = "|"
       /\ \/ (k = 1 \/ IsSimple(Between(s, 1, k - 1))) /\ s[k + 1] \in Starts
          \/ \E m \in 1 .. k - 1 : IsCompound(Between(s, 1, m)) /\ IsTail(Between(s, m + 1, k - 1))
       /\ LET rest == IF s[k + 1] = ";" /\ k > 1 /\ s[k - 1] \in Closing \cup Tails THEN From(s, k + 2) ELSE From(s, k + 1)
          IN  rest # <<>> /\ Head(rest) # "|" /\ IsPipeline(rest)
IsCommand(s) ==
  \/ s # <<>> /\ Head(s) # "!" /\ IsPipeline(s)
  \/ Len(s) > 1 /\ Head(s) = "!" /\ IsPipeline(Tail(s))
  \/ Len(s) > 1 /\ Head(s) = "f()" /\ s[2] = "{" /\ IsCompound(Tail(s))
IsList(s) ==
  \/ IsCommand(s)
  \/ \E k \in 2 .. Len(s) - 1 : s[k] \in Separators /\ IsCommand(Between(s, 1, k - 1)) /\ IsList(From(s, k + 1))
IsProgram(s) == s = <<>> \/ IsList(s) \/ IsClosed(s)

\* A text without the separators that only end a list.
RECURSIVE Bare(_)
Bare(s) ==
  IF s = <<>> THEN s
  ELSE IF Head(s) = ";" /\ (Len(s) = 1 \/ s[2] \in Closing) THEN Bare(Tail(s))
  ELSE IF Head(s) = "|" /\ Len(s) > 1 /\ s[2] = ";" THEN <<"|">> \o Bare(From(s, 3))
  ELSE <<Head(s)>> \o Bare(Tail(s))

-----------------------------------------------------------------------------
\* Texts grow by a token, as long as they or what a word would make of them
\* are not refused.  Not typed, because the code is more lenient there than
\* any grammar: a '&&' or '||' right after an opening word (the segment's join
\* is dropped with the word, so "{ && a; }" is "{ a; }"), and a keyword right
\* after '!' (it is then a command's name).  Patterns stand only where a case
\* has them.
type_token(t) ==
  /\ \E start \in PsStarts :
       /\ Len(start) <= Len(typed) /\ SubSeq(typed, 1, Len(start)) = start
       /\ Len(typed) < Len(start) + PsLength
  /\ \E S \in PsTokens : {t} \cup {typed[i] : i \in DOMAIN typed} \subseteq S
  /\ \E u \in {<<>>, <<"w">>} : run_text(typed \o u).Q.st # "syntax"
  /\ typed # <<>> => LET last == typed[Len(typed)] IN
       /\ t \in {"&&", "||"} => last \notin Opens \cup {"in", ";;"}
       /\ last = "!" => t = "w" \/ t \in Starts
  /\ t = "p)" => LET words == SelectSeq(typed, LAMBDA x : x \notin {";", "newline"}) IN
       words # <<>> /\ words[Len(words)] \in {"in", ";;"} /\ run_text(typed).Q.st = "incomplete"
  /\ typed' = Append(typed, t)

PsInit == typed \in PsStarts
PsNext == \E t \in UNION PsTokens : type_token(t)

\* The shell runs exactly the texts of the grammar, it reads the commands in
\* them in the order and with the joins they were written, and a text whose
\* lines are read one by one is never refused before its end: the prompt asks
\* for the rest (cut_segments, parse_list, take_keyword, run_text).
ReadsTheGrammar ==
  LET R == run_text(typed)
      s == Squeezed(typed, <<>>, TRUE)
  IN  /\ R.Q.st = "ok" <=> IsProgram(s)
      /\ R.Q.st = "ok" =>
           /\ Bare(R.is) = Bare(s)
           /\ \A k \in DOMAIN typed : typed[k] = "newline" => run_text(SubSeq(typed, 1, k)).Q.st # "syntax"
=============================================================================
