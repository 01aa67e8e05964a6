----------------------------- MODULE ShellWords ----------------------------
(***************************************************************************)
(* From a simple command's text to the arguments its programs get          *)
(* (user/sh.c: parse, next_word, append_variable, add_fields,              *)
(* expand_wildcard, parse_redirect): quotes, variables, $@ and $*, command *)
(* output split into fields, wildcards, assignments, redirections.         *)
(*                                                                         *)
(* A text is a sequence of characters; "D" and "S" are the double and the  *)
(* single quote, and "$x", "$e" (not set), "$@", "$*", "$(c)" (a command)  *)
(* and "n=" count as one each.  Intended keeps a command as it was meant:  *)
(* words made of parts, each with its quotes.  Written writes it down,     *)
(* Means says what its programs should get.                                *)
(***************************************************************************)
EXTENDS Naturals, Sequences

CONSTANTS
  WdTokens,      \* the characters used
  WdArguments,   \* the shell's arguments
  WdFiles,       \* the names in the directory, sorted
  WdLength,      \* how many characters, operators and words
  WdMaxArgs      \* MAX_ARGS

WdAssumption == WdLength \in Nat /\ WdMaxArgs \in Nat \ {0}

VARIABLE intended
wdVars == <<intended>>

FIELD_BREAK == "break"
Blank(c) == c = " "
Operators == {"|", ">"}
Expansions == {"$x", "$e", "$@", "$*", "$(c)"}
\* What a variable holds, and what the command prints.
Value(t) == CASE t = "$x" -> <<"a", " ", "*">> [] t = "$(c)" -> <<"a", " ", " ", "b">> [] OTHER -> <<>>
Count(s) == Len(s)

RECURSIVE Concat(_)
Concat(ss) == IF ss = <<>> THEN <<>> ELSE Head(ss) \o Concat(Tail(ss))
RECURSIVE JoinedBy(_, _)
JoinedBy(ss, c) ==
  IF Len(ss) <= 1 THEN Concat(ss) ELSE Head(ss) \o <<c>> \o JoinedBy(Tail(ss), c)

-----------------------------------------------------------------------------
(***************************************************************************)
(* next_word from position p on: [word, p, quoted, split, ok].             *)
(***************************************************************************)
\* append_variable for $@ and $*.
joined(t, quote, assigning) == assigning \/ (t = "$*" /\ quote # "")
ArgumentsText(t, quote, assigning) ==
  JoinedBy(WdArguments, IF joined(t, quote, assigning) THEN " " ELSE FIELD_BREAK)
OutputText(out, whole) == [i \in DOMAIN out |-> IF ~whole /\ Blank(out[i]) THEN FIELD_BREAK ELSE out[i]]

EndsWord(c, quote) == quote = "" /\ (Blank(c) \/ c \in Operators)

RECURSIVE word_from(_, _, _, _, _)
word_from(s, p, quote, W, assigning) ==
  LET c == IF p > Len(s) THEN "end" ELSE s[p]
      add(text, split) == word_from(s, p + 1, quote, [W EXCEPT !.word = @ \o text, !.split = @ \/ split, !.any = TRUE], assigning)
  IN  CASE c = "end" -> [W EXCEPT !.p = p, !.ok = quote = "" /\ W.any]
        [] c # "end" /\ EndsWord(c, quote) -> [W EXCEPT !.p = p, !.ok = W.any]
        [] c \in {"D", "S"} /\ quote = "" ->
             word_from(s, p + 1, c, [W EXCEPT !.quoted = TRUE, !.any = TRUE], assigning)
        [] c \in {"D", "S"} /\ quote = c -> word_from(s, p + 1, "", W, assigning)
        [] c = "$(c)" /\ quote # "S" ->
             LET whole == quote # "" \/ assigning IN add(OutputText(Value(c), whole), ~whole)
        [] c \in {"$@", "$*"} /\ quote # "S" ->
             add(ArgumentsText(c, quote, assigning), ~joined(c, quote, assigning))
        [] c \in {"$x", "$e"} /\ quote # "S" -> add(Value(c), FALSE)
        [] OTHER -> add(<<c>>, FALSE)
next_word(s, p, assigning) ==
  word_from(s, p, "", [word |-> <<>>, p |-> p, quoted |-> FALSE, split |-> FALSE, any |-> FALSE, ok |-> FALSE], assigning)

-----------------------------------------------------------------------------
(***************************************************************************)
(* The stages: [argv, assigned, redirects].                                *)
(***************************************************************************)
RECURSIVE Pieces(_, _)
Pieces(w, piece) ==
  IF w = <<>> THEN <<piece>>
  ELSE IF Head(w) = FIELD_BREAK THEN <<piece>> \o Pieces(Tail(w), <<>>)
  ELSE Pieces(Tail(w), Append(piece, Head(w)))
\* Mutant of add_fields: empty fields are kept
add_all_fields(w) == Pieces(w, <<>>)
add_fields(w) == SelectSeq(Pieces(w, <<>>), LAMBDA f : f # <<>>)

RECURSIVE glob_match(_, _)
glob_match(pat, name) ==
  IF pat = <<>> THEN name = <<>>
  ELSE IF Head(pat) = "*"
       THEN glob_match(Tail(pat), name) \/ (name # <<>> /\ glob_match(pat, Tail(name)))
       ELSE name # <<>> /\ Head(name) = Head(pat) /\ glob_match(Tail(pat), Tail(name))
glob_has_wildcard(w) == \E i \in DOMAIN w : w[i] = "*"
expand_wildcard(w) ==
  LET names == SelectSeq(WdFiles, LAMBDA f : glob_match(w, f)) IN IF names = <<>> THEN <<w>> ELSE names

ArgumentsOf(W) ==
  IF W.split THEN add_fields(W.word)
  ELSE IF ~W.quoted /\ glob_has_wildcard(W.word) THEN expand_wildcard(W.word) ELSE <<W.word>>

\* redirect_target: one name, or nothing.
redirect_target(W) ==
  IF ~W.ok THEN <<>>
  ELSE IF ~W.split THEN <<W.word>>
  ELSE LET fields == add_fields(W.word) IN IF Len(fields) = 1 THEN fields ELSE <<>>

NoStage == [argv |-> <<>>, assigned |-> <<>>, redirects |-> <<>>]
Bad == <<[NoStage EXCEPT !.argv = <<<<"syntax">>>>]>>
\* A line of nothing but assignments may have no pipe and no redirection.
Ended(stages, S) ==
  CASE S.argv = <<>> /\ S.assigned # <<>> ->
         IF stages = <<>> /\ S.redirects = <<>> THEN <<S>> ELSE Bad
    [] S.argv = <<>> /\ S.assigned = <<>> -> IF stages = <<>> THEN <<>> ELSE Bad
    [] OTHER -> Append(stages, S)

RECURSIVE parse(_, _, _, _)
parse(s, p, stages, S) ==
  LET c == IF p > Len(s) THEN "end" ELSE s[p]
      assigning == c = "n=" /\ S.argv = <<>>
      W == next_word(s, p, assigning)
      gap == CHOOSE k \in p + 1 .. Len(s) + 1 :
               (k = Len(s) + 1 \/ ~Blank(s[k])) /\ \A j \in p + 1 .. k - 1 : Blank(s[j])
      T == next_word(s, gap, FALSE)
      argv == S.argv \o ArgumentsOf(W)
  IN  CASE c = "end" -> Ended(stages, S)
        [] c = " " -> parse(s, p + 1, stages, S)
        [] c = "|" -> IF S.argv = <<>> THEN Bad ELSE parse(s, p + 1, Append(stages, S), NoStage)
        [] c = ">" ->
             IF redirect_target(T) = <<>> THEN Bad
             ELSE parse(s, T.p, stages, [S EXCEPT !.redirects = @ \o redirect_target(T)])
        [] assigning ->
             IF ~W.ok THEN Bad ELSE parse(s, W.p, stages, [S EXCEPT !.assigned = Append(@, W.word)])
        [] OTHER ->
             IF Len(S.argv) >= WdMaxArgs \/ ~W.ok \/ Len(argv) > WdMaxArgs THEN Bad
             ELSE parse(s, W.p, stages, [S EXCEPT !.argv = argv])

-----------------------------------------------------------------------------
(***************************************************************************)
(* What was meant: a sequence of items, an operator [op] or a word, which  *)
(* is a sequence of parts [q, t]: the characters t in quotes q.            *)
(***************************************************************************)
Op(o) == [op |-> o, parts |-> <<>>]
WordOf(parts) == [op |-> "", parts |-> parts]
Written1(part) == IF part.q = "" THEN part.t ELSE <<part.q>> \o part.t \o <<part.q>>
Written(items) ==
  Concat([i \in DOMAIN items |->
            (IF items[i].op # "" THEN <<items[i].op>>
             ELSE Concat([k \in DOMAIN items[i].parts |-> Written1(items[i].parts[k])])) \o <<" ">>])

Splits(t, q) == (t = "$(c)" /\ q = "") \/ (t = "$@" /\ q # "S") \/ (t = "$*" /\ q = "")
\* The fields a character makes, of which the first and the last join what
\* stands beside it; `one' for where nothing is split.
TokenFields(t, q, one) ==
  IF q = "S" \/ t \notin Expansions THEN <<<<t>>>>
  ELSE IF t \in {"$@", "$*"}
       THEN IF one \/ ~Splits(t, q) THEN <<JoinedBy(WdArguments, " ")>>
            ELSE IF WdArguments = <<>> THEN <<<<>>>> ELSE WdArguments
  ELSE IF t = "$(c)" /\ q = "" /\ ~one THEN <<<<"a">>, <<"b">>>> ELSE <<Value(t)>>
Beside(fs, gs) ==
  SubSeq(fs, 1, Len(fs) - 1) \o <<fs[Len(fs)] \o gs[1]>> \o Tail(gs)
RECURSIVE FieldsOf(_, _)
FieldsOf(cells, one) ==
  IF cells = <<>> THEN <<<<>>>>
  ELSE Beside(TokenFields(Head(cells).t, Head(cells).q, one), FieldsOf(Tail(cells), one))
Cells(w) == Concat([k \in DOMAIN w.parts |-> [j \in DOMAIN w.parts[k].t |-> [t |-> w.parts[k].t[j], q |-> w.parts[k].q]]])
HasSplit(w) == \E c \in {Cells(w)[i] : i \in DOMAIN Cells(w)} : Splits(c.t, c.q)
WordMeans(w) ==
  LET fields == FieldsOf(Cells(w), FALSE) IN
  IF HasSplit(w) THEN SelectSeq(fields, LAMBDA f : f # <<>>)
  ELSE IF \A k \in DOMAIN w.parts : w.parts[k].q = "" THEN
       (IF glob_has_wildcard(fields[1]) THEN expand_wildcard(fields[1]) ELSE fields)
  ELSE fields

IsAssigning(w) == w.parts[1].q = "" /\ w.parts[1].t[1] = "n="
RECURSIVE Means(_, _, _)
Means(items, stages, S) ==
  IF items = <<>> THEN Ended(stages, S)
  ELSE LET i == Head(items)
           argv == S.argv \o WordMeans(i)
       IN
  CASE i.op = "|" -> IF S.argv = <<>> THEN Bad ELSE Means(Tail(items), Append(stages, S), NoStage)
    [] i.op = ">" ->
         LET name == IF Len(items) = 1 \/ items[2].op # "" THEN <<>>
                     ELSE IF HasSplit(items[2]) THEN WordMeans(items[2]) ELSE FieldsOf(Cells(items[2]), FALSE)
         IN  IF Len(name) # 1 THEN Bad
             ELSE Means(SubSeq(items, 3, Len(items)), stages, [S EXCEPT !.redirects = @ \o name])
    [] i.op = "" /\ IsAssigning(i) /\ S.argv = <<>> ->
         Means(Tail(items), stages, [S EXCEPT !.assigned = @ \o FieldsOf(Cells(i), TRUE)])
    [] OTHER -> IF Len(argv) > WdMaxArgs \/ Len(S.argv) = WdMaxArgs THEN Bad ELSE Means(Tail(items), stages, [S EXCEPT !.argv = argv])

-----------------------------------------------------------------------------
Size(items) == Len(items) + Len(Concat([i \in DOMAIN items |-> items[i].parts]))
Allowed(t, q) == q # "" \/ t \notin Operators \cup {" "}
new_operator(o) == intended' = Append(intended, Op(o))
new_word(t, q) == Allowed(t, q) /\ intended' = Append(intended, WordOf(<<[q |-> q, t |-> <<t>>]>>))
new_part(t, q) ==
  /\ intended # <<>> /\ intended[Len(intended)].op = "" /\ Allowed(t, q)
  /\ intended' = [intended EXCEPT ![Len(intended)].parts = Append(@, [q |-> q, t |-> <<t>>])]
more_in_part(t) ==
  /\ intended # <<>> /\ intended[Len(intended)].op = ""
  /\ LET ps == intended[Len(intended)].parts
         last == ps[Len(ps)]
     IN  /\ Allowed(t, last.q) /\ Len(last.t) < 2
         /\ intended' = [intended EXCEPT ![Len(intended)].parts = [@ EXCEPT ![Len(ps)].t = Append(@, t)]]

WdInit == intended = <<>>
WdNext ==
  /\ Size(intended) < WdLength
  /\ \/ \E o \in Operators : new_operator(o)
     \/ \E t \in WdTokens, q \in {"", "D", "S"} : new_word(t, q) \/ new_part(t, q)
     \/ \E t \in WdTokens : more_in_part(t)

\* The programs of a command get exactly the arguments that were meant: what
\* is in quotes stays together and stands for itself, what a command printed
\* is split into fields, a wildcard becomes the names it matches, and the
\* argument table is never overrun (next_word, parse, add_fields).
ArgumentsAsMeant ==
  LET R == parse(Written(intended), 1, <<>>, NoStage) IN
  /\ R = Means(intended, <<>>, NoStage)
  /\ R # Bad => \A i \in DOMAIN R : Len(R[i].argv) <= WdMaxArgs
=============================================================================
