------------------------------ MODULE LineEdit -----------------------------
(***************************************************************************)
(* The shell's line editor (user/lib/lineedit.c): keys come one byte at a  *)
(* time, an arrow key as an escape sequence; a line has a cursor, earlier  *)
(* lines can be brought back, and Tab completes a word.                    *)
(*                                                                         *)
(* The code keeps a line, its cursor and arithmetic on both.  Beside it    *)
(* runs what the user means: the text before and after the cursor, and the *)
(* line that was being typed when the history was opened.                  *)
(***************************************************************************)
EXTENDS Naturals, Sequences, FiniteSets

CONSTANTS
  LeKeys,        \* the bytes typed
  LeNames,       \* the names Tab offers, in the order they are offered
  LeMax,         \* LINEEDIT_MAX
  LeHistory      \* LINEEDIT_HISTORY

LeAssumption == LeMax \in Nat \ {0} /\ LeHistory \in Nat \ {0}

VARIABLES
  ed,            \* [line, cursor, escape, arg, browsing, typed, tab]
  history,
  user           \* [before, after, own]: what the user means
leVars == <<ed, history, user>>

Text == {"a", "b", " "}
Drop(s, n) == SubSeq(s, n + 1, Len(s))
StartsWith(s, p) == Len(p) <= Len(s) /\ SubSeq(s, 1, Len(p)) = p

-----------------------------------------------------------------------------
lineedit_start(E, H) ==
  [E EXCEPT !.line = <<>>, !.cursor = 0, !.escape = 0, !.browsing = Len(H), !.tab = FALSE]
set_line(E, text) == [E EXCEPT !.line = text, !.cursor = Len(text)]
insert(E, c) ==
  IF Len(E.line) + 1 >= LeMax THEN E
  ELSE [E EXCEPT !.line = SubSeq(@, 1, E.cursor) \o <<c>> \o Drop(@, E.cursor), !.cursor = @ + 1]
\* Mutant of CursorAfter: the cursor stays
CursorStays(cursor, at, n) == cursor
CursorAfter(cursor, at, n) ==
  IF cursor <= at THEN cursor ELSE IF cursor >= at + n THEN cursor - n ELSE at
erase(E, at, count) ==
  LET n == IF count > Len(E.line) - at THEN Len(E.line) - at ELSE count IN
  IF at >= Len(E.line) \/ count = 0 THEN E
  ELSE [E EXCEPT !.line = SubSeq(@, 1, at) \o Drop(@, at + n), !.cursor = CursorAfter(@, at, n)]
Leaving(E) == E.browsing = Len(history)
browse(E, index) ==
  LET kept == IF Leaving(E) THEN E.line ELSE E.typed IN
  IF index > Len(history) \/ index = E.browsing THEN E
  ELSE set_line([E EXCEPT !.typed = kept, !.browsing = index],
                IF index = Len(history) THEN kept ELSE history[index + 1])
remember(E) ==
  IF E.line = <<>> \/ (history # <<>> /\ history[Len(history)] = E.line) THEN history
  ELSE Append(IF Len(history) = LeHistory THEN Tail(history) ELSE history, E.line)

-----------------------------------------------------------------------------
\* Completion: the names that could go where the word is, and what
\* lineedit_add_match leaves of the prefix, one name after the other.
WordStart(E) ==
  CHOOSE k \in 0 .. E.cursor :
    (k = 0 \/ E.line[k] = " ") /\ \A j \in k + 1 .. E.cursor : E.line[j] # " "
Word(E) == SubSeq(E.line, WordStart(E) + 1, E.cursor)
Shared(p, name) ==
  SubSeq(p, 1, CHOOSE k \in 0 .. Len(p) :
    /\ StartsWith(name, SubSeq(p, 1, k))
    /\ k = Len(p) \/ ~StartsWith(name, SubSeq(p, 1, k + 1)))
RECURSIVE add_matches(_, _)
add_matches(names, p) == IF names = <<>> THEN p ELSE add_matches(Tail(names), Shared(p, Head(names)))
Matches(E) == SelectSeq(LeNames, LAMBDA n : StartsWith(n, Word(E)))
RECURSIVE insert_all(_, _)
insert_all(E, s) == IF s = <<>> THEN E ELSE insert_all(insert(E, Head(s)), Tail(s))
complete_word(E) ==
  LET m == Matches(E)
      prefix == add_matches(Tail(m), Head(m))
      longer == insert_all(E, Drop(prefix, Len(Word(E))))
  IN  IF m = <<>> THEN E ELSE IF Len(m) = 1 THEN insert(longer, " ") ELSE longer

\* Ctrl-W: back over blanks, then over the word.
WordBefore(E) ==
  LET blanks == CHOOSE k \in 0 .. E.cursor :
                  (k = 0 \/ E.line[k] # " ") /\ \A j \in k + 1 .. E.cursor : E.line[j] = " "
  IN  CHOOSE k \in 0 .. blanks : (k = 0 \/ E.line[k] = " ") /\ \A j \in k + 1 .. blanks : E.line[j] # " "

Sequence(E, key) ==
  LET F == [E EXCEPT !.escape = 0] IN
  CASE key = "3" -> [E EXCEPT !.arg = "3"]
    [] key = "A" -> IF E.browsing = 0 THEN F ELSE browse(F, E.browsing - 1)
    [] key = "B" -> browse(F, E.browsing + 1)
    [] key = "C" -> [F EXCEPT !.cursor = IF @ < Len(E.line) THEN @ + 1 ELSE @]
    [] key = "D" -> [F EXCEPT !.cursor = IF @ > 0 THEN @ - 1 ELSE @]
    [] key = "~" /\ E.arg = "3" -> erase(F, F.cursor, 1)
    [] OTHER -> F
Plain(E, key) ==
  CASE key = "esc" -> [E EXCEPT !.escape = 1]
    [] key = "bs" -> IF E.cursor > 0 THEN erase(E, E.cursor - 1, 1) ELSE E
    [] key = "^D" -> erase(E, E.cursor, 1)
    [] key = "^A" -> [E EXCEPT !.cursor = 0]
    [] key = "^E" -> [E EXCEPT !.cursor = Len(E.line)]
    [] key = "^K" -> erase(E, E.cursor, Len(E.line) - E.cursor)
    [] key = "^U" -> erase(E, 0, E.cursor)
    [] key = "^W" -> erase(E, WordBefore(E), E.cursor - WordBefore(E))
    [] key \in Text -> insert(E, key)
    [] OTHER -> E
lineedit_key(E, key) ==
  CASE key = "tab" -> complete_word([E EXCEPT !.tab = TRUE])
    [] key # "tab" /\ E.escape = 1 -> [E EXCEPT !.escape = IF key = "[" THEN 2 ELSE 0, !.arg = "", !.tab = FALSE]
    [] key # "tab" /\ E.escape = 2 -> Sequence([E EXCEPT !.tab = FALSE], key)
    [] OTHER -> Plain([E EXCEPT !.tab = FALSE], key)

-----------------------------------------------------------------------------
(***************************************************************************)
(* What the user means by it.                                              *)
(***************************************************************************)
Front(s) == SubSeq(s, 1, Len(s) - 1)
At(U, before, after) == [U EXCEPT !.before = before, !.after = after]
WhatFits(U, s) == LET room == LeMax - 1 - Len(U.before) - Len(U.after) IN SubSeq(s, 1, IF room < Len(s) THEN room ELSE Len(s))
Adds(U, s) == At(U, U.before \o WhatFits(U, s), U.after)
RECURSIVE WithoutBlanks(_), WithoutWord(_)
WithoutBlanks(s) == IF s # <<>> /\ s[Len(s)] = " " THEN WithoutBlanks(Front(s)) ELSE s
WithoutWord(s) == IF s # <<>> /\ s[Len(s)] # " " THEN WithoutWord(Front(s)) ELSE s
Shows(U, text) == [U EXCEPT !.before = text, !.after = <<>>]

\* Everything that could follow the word, and what all of it agrees on.
Completed(U) ==
  LET word == Drop(U.before, Len(WithoutWord(U.before)))
      names == {LeNames[i] : i \in DOMAIN LeNames}
      fits == {n \in names : StartsWith(n, word)}
      agreed == CHOOSE p \in UNION {{SubSeq(n, 1, k) : k \in 0 .. Len(n)} : n \in fits} :
                  /\ \A n \in fits : StartsWith(n, p)
                  /\ \A n \in fits : \A k \in 0 .. Len(n) :
                       (\A o \in fits : StartsWith(o, SubSeq(n, 1, k))) => k <= Len(p)
      rest == Drop(agreed, Len(word))
  IN  IF fits = {} THEN U
      ELSE IF Cardinality(fits) = 1 THEN Adds(U, Append(rest, " ")) ELSE Adds(U, rest)

Own(U, E) == IF E.browsing = Len(history) THEN U.before \o U.after ELSE U.own
MeansSequence(U, E, key) ==
  CASE key = "A" /\ E.browsing > 0 -> Shows([U EXCEPT !.own = Own(U, E)], history[E.browsing])
    [] key = "B" /\ E.browsing < Len(history) ->
         Shows(U, IF E.browsing + 1 = Len(history) THEN U.own ELSE history[E.browsing + 2])
    [] key = "C" /\ U.after # <<>> -> At(U, Append(U.before, Head(U.after)), Tail(U.after))
    [] key = "D" /\ U.before # <<>> -> At(U, Front(U.before), <<U.before[Len(U.before)]>> \o U.after)
    [] key = "~" /\ E.arg = "3" /\ U.after # <<>> -> At(U, U.before, Tail(U.after))
    [] OTHER -> U
MeansPlain(U, key) ==
  CASE key = "bs" /\ U.before # <<>> -> At(U, Front(U.before), U.after)
    [] key = "^D" /\ U.after # <<>> -> At(U, U.before, Tail(U.after))
    [] key = "^A" -> At(U, <<>>, U.before \o U.after)
    [] key = "^E" -> At(U, U.before \o U.after, <<>>)
    [] key = "^K" -> At(U, U.before, <<>>)
    [] key = "^U" -> At(U, <<>>, U.after)
    [] key = "^W" -> At(U, WithoutWord(WithoutBlanks(U.before)), U.after)
    [] key \in Text -> Adds(U, <<key>>)
    [] OTHER -> U
Means(U, E, key) ==
  CASE key = "tab" -> Completed(U)
    [] key # "tab" /\ E.escape = 1 -> U
    [] key # "tab" /\ E.escape = 2 -> MeansSequence(U, E, key)
    [] OTHER -> MeansPlain(U, key)

-----------------------------------------------------------------------------
Finishes(key) == ed.escape = 0 /\ (key = "enter" \/ (key = "^D" /\ ed.line = <<>>))
press_key(key) ==
  /\ ~Finishes(key)
  /\ ed' = lineedit_key(ed, key)
  /\ user' = Means(user, ed, key)
  /\ UNCHANGED history
\* Enter, or Ctrl-D on an empty line; the next line is started.
finish(key) ==
  /\ Finishes(key)
  /\ history' = IF key = "enter" THEN remember(ed) ELSE history
  /\ ed' = lineedit_start(ed, history')
  /\ user' = [user EXCEPT !.before = <<>>, !.after = <<>>]

LeInit ==
  /\ history = <<>>
  /\ ed = [line |-> <<>>, cursor |-> 0, escape |-> 0, arg |-> "", browsing |-> 0, typed |-> <<>>, tab |-> FALSE]
  /\ user = [before |-> <<>>, after |-> <<>>, own |-> <<>>]
LeNext == \E key \in LeKeys : press_key(key) \/ finish(key)

\* The line shown is the line meant: every key moves and changes the text
\* around the cursor as the user means it, the line being typed comes back
\* when the history is left, a completion adds what all the names agree on,
\* and the history has no empty line, no line twice running and not more
\* lines than it holds (insert, erase, browse, complete_word, remember).
LineIsWhatIsMeant ==
  /\ ed.line = user.before \o user.after
  /\ ed.cursor = Len(user.before)
  /\ Len(ed.line) < LeMax
  /\ Len(history) <= LeHistory
  /\ \A i \in DOMAIN history : history[i] # <<>> /\ (i > 1 => history[i] # history[i - 1])
=============================================================================
