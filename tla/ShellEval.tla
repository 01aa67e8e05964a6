----------------------------- MODULE ShellEval -----------------------------
(***************************************************************************)
(* How the shell runs a parsed command text (user/sh.c: exec_list,         *)
(* exec_node and what they call).  The C code finds its way with global    *)
(* flags and counters: pending_break, pending_continue, pending_return,    *)
(* should_exit and interrupted say that commands are to be skipped,        *)
(* loop_depth, call_depth and errexit_ignored where it is, and a stack of  *)
(* saved variables what local has to put back.                             *)
(*                                                                         *)
(* Run is that code, with the globals in a record S that is passed along.  *)
(* Means is what the commands mean: every command ends in an outcome, and  *)
(* what surrounds it is a context handed down, with nothing to be reset.   *)
(* Both are run on every program of the bounded set.                       *)
(***************************************************************************)
EXTENDS Integers, Sequences

CONSTANTS
  EvDepth,        \* MAX_CALL_DEPTH
  EvTicks,        \* rounds the conditions of a program allow in all
  EvContinue      \* whether a condition may hold a "continue"

EvAssumption == EvDepth \in Nat \ {0} /\ EvTicks \in Nat /\ EvContinue \in BOOLEAN

VARIABLES
  program,        \* the command text, or NoProgram
  ran             \* what running it did, and what it should have done
evVars == <<program, ran>>

-----------------------------------------------------------------------------
(***************************************************************************)
(* Trees.  A list is a sequence of [join, node].                           *)
(***************************************************************************)
Node(k, c, cond, body, other) ==
  [k |-> k, c |-> c, cond |-> cond, body |-> body, other |-> other, negate |-> FALSE]
Simple(c) == Node("simple", c, <<>>, <<>>, <<>>)
Then(join, n) == [join |-> join, node |-> n]
One(n) == <<Then("always", n)>>
Two(n, join, m) == <<Then("always", n), Then(join, m)>>
Not(n) == [n EXCEPT !.negate = TRUE]

\* The variable: its value, and whether it is unset, the shell's or exported.
Unset == [v |-> 0, in |-> "none"]
set_variable(x, v) == [v |-> v, in |-> IF x.in = "env" THEN "env" ELSE "own"]
export_variable(x) == IF x.in = "own" THEN [x EXCEPT !.in = "env"] ELSE x

Fewer(a, b) == IF a < b THEN a ELSE b

-----------------------------------------------------------------------------
(***************************************************************************)
(* The code.  S.r is the status a call returns, S.last is $?.              *)
(***************************************************************************)
Stop(S) == S.exit \/ S.interrupted \/ S.brk > 0 \/ S.cont > 0 \/ S.ret

\* break N and continue N.
loop_control(S, n, isBreak) ==
  IF S.loops = 0 THEN [S EXCEPT !.r = 1]
  ELSE IF isBreak THEN [S EXCEPT !.r = 0, !.brk = Fewer(n, S.loops)]
  ELSE [S EXCEPT !.r = 0, !.cont = Fewer(n, S.loops)]
return_builtin(S) ==
  IF S.calls = 0 THEN [S EXCEPT !.r = 1] ELSE [S EXCEPT !.r = S.last, !.ret = TRUE]
local_builtin(S) ==
  IF S.calls = 0 THEN [S EXCEPT !.r = 1]
  ELSE [S EXCEPT !.r = 0, !.saved = Append(@, S.x), !.x = set_variable(@, 1)]

\* restore_locals: the newest first, so that the oldest is what stays.
restored(saved, mark, x) == IF Len(saved) > mark THEN saved[mark + 1] ELSE x

\* Whether the loop is left, and what is left for the loops around it.
leave_loop(S) ==
  CASE S.ret -> [leave |-> TRUE, S |-> S]
    [] ~S.ret /\ S.brk > 0 -> [leave |-> TRUE, S |-> [S EXCEPT !.brk = @ - 1]]
    [] ~S.ret /\ S.brk = 0 /\ S.cont > 0 -> [leave |-> S.cont > 1, S |-> [S EXCEPT !.cont = @ - 1]]
    [] OTHER -> [leave |-> FALSE, S |-> S]

RECURSIVE ExecList(_, _, _), ExecFrom(_, _, _, _, _), ExecNode(_, _, _), While(_, _, _, _), For(_, _, _, _)
RECURSIVE CondRan(_, _, _, _), CondLeft(_, _, _, _), BodyRan(_, _, _, _), BodyLeft(_, _, _, _), NodeRan(_, _, _, _)
RECURSIVE TrapsRan(_, _, _, _, _)

\* call_function, after the body.
Called(S, T) ==
  [T EXCEPT !.calls = S.calls, !.ret = FALSE, !.loops = S.loops, !.saved = S.saved,
            !.x = restored(T.saved, Len(S.saved), T.x)]
\* A simple command: run_pipeline_text.
ExecSimple(c, S0, P) ==
  LET S == [S0 EXCEPT !.trace = Append(@, <<c, S0.x>>)] IN
  CASE c \in {"ok", "signal"} -> [S EXCEPT !.r = 0, !.noted = @ \/ c = "signal"]
    [] c = "fail" -> [S EXCEPT !.r = 1]
    [] c = "more" -> [S EXCEPT !.r = IF S.ticks > 0 THEN 0 ELSE 1, !.ticks = IF @ > 0 THEN @ - 1 ELSE 0]
    [] c = "over" -> [S EXCEPT !.r = IF S.ticks > 0 THEN 1 ELSE 0, !.ticks = IF @ > 0 THEN @ - 1 ELSE 0]
    [] c = "break" -> loop_control(S, 1, TRUE)
    [] c = "break, signal" -> loop_control([S EXCEPT !.noted = TRUE], 1, TRUE)
    [] c = "break 2" -> loop_control(S, 2, TRUE)
    [] c = "continue" -> loop_control(S, 1, FALSE)
    [] c = "continue 2" -> loop_control(S, 2, FALSE)
    [] c = "return" -> return_builtin(S)
    [] c = "exit 3" -> [S EXCEPT !.r = 3, !.exit = TRUE]
    [] c = "killed" -> [S EXCEPT !.r = 130, !.interrupted = TRUE]
    [] c = "local" -> local_builtin(S)
    [] c = "assign" -> [S EXCEPT !.r = 0, !.x = set_variable(@, 2)]
    [] c = "export" -> [S EXCEPT !.r = 0, !.x = export_variable(@)]
    [] c = "unset" -> [S EXCEPT !.r = 0, !.x = Unset]
    [] OTHER ->                                                    \* call_function
         IF S.calls >= EvDepth THEN [S EXCEPT !.r = 2, !.interrupted = TRUE]
         ELSE Called(S, ExecList(P.function, [S EXCEPT !.loops = 0, !.calls = @ + 1], P))

\* Mutant of AroundTrap: what the list left pending stays
AroundTrapLost(S, T) == T
\* run_traps_between_commands: where the interrupted text is, is kept.
AroundTrap(S, T) ==
  [T EXCEPT !.interrupted = S.interrupted, !.brk = S.brk, !.cont = S.cont, !.ret = S.ret]

\* run_traps: the list is a text of its own; if it exits, the shell does.
TrapRan(S, T) ==
  AroundTrap(S, IF T.exit THEN [T EXCEPT !.running = FALSE, !.dead = TRUE, !.final = T.r]
                ELSE [T EXCEPT !.running = FALSE, !.last = S.last, !.exit = S.exit, !.brk = 0,
                               !.cont = 0, !.ret = FALSE])
RunTraps(S, P) ==
  IF ~S.noted \/ S.running THEN S
  ELSE TrapRan(S, ExecList(One(Simple(P.trap)), [S EXCEPT !.noted = FALSE, !.running = TRUE,
                                                          !.interrupted = FALSE, !.exit = FALSE], P))

Tested(list, i) == i < Len(list) /\ list[i + 1].join # "always"
Joined(join, status) ==
  join = "always" \/ (join = "and" /\ status = 0) \/ (join = "or" /\ status # 0)

Tests(list, i) == IF Tested(list, i) THEN 1 ELSE 0
errexit(list, i, S, P, status) ==
  [S EXCEPT !.exit = @ \/ (P.errexit /\ ~S.dead /\ status # 0 /\ ~Tested(list, i) /\ S.ignored = 0
                           /\ ~list[i].node.negate)]

\* The list goes on at i, in state S with the last status; T has run the node,
\* U the traps after it.
ExecFrom(list, i, S, P, status) ==
  IF i > Len(list) \/ (i > 1 /\ Stop(S)) \/ S.dead THEN [S EXCEPT !.r = status]
  ELSE IF ~Joined(list[i].join, status) THEN ExecFrom(list, i + 1, S, P, status)
  ELSE NodeRan(list, i, ExecNode(list[i].node, [S EXCEPT !.ignored = @ + Tests(list, i)], P), P)
NodeRan(list, i, T, P) ==
  TrapsRan(list, i, RunTraps([T EXCEPT !.ignored = @ - Tests(list, i), !.last = T.r], P), P, T.r)
TrapsRan(list, i, U, P, status) == ExecFrom(list, i + 1, errexit(list, i, U, P, status), P, status)
ExecList(list, S, P) == ExecFrom(list, 1, S, P, S.last)

\* while and until; `status' is that of the last round.
While(n, S, P, status) ==
  CondRan(n, [ExecList(n.cond, [S EXCEPT !.ignored = @ + 1], P) EXCEPT !.ignored = S.ignored], P, status)
CondRan(n, D, P, status) ==
  IF D.exit \/ D.interrupted THEN [D EXCEPT !.r = status] ELSE CondLeft(n, leave_loop(D), P, status)
CondLeft(n, L, P, status) ==
  IF L.leave \/ (IF n.k = "while" THEN L.S.r # 0 ELSE L.S.r = 0) THEN [L.S EXCEPT !.r = status]
  ELSE BodyRan(n, ExecList(n.body, L.S, P), P, 0)
\* for, over the words w, w + 1 .. 2.
For(n, S, P, w) == BodyRan(n, ExecList(n.body, [S EXCEPT !.x = set_variable(@, w)], P), P, w)
\* The body of a loop has run: the w-th round of a for.
BodyRan(n, B, P, w) ==
  IF B.exit \/ B.interrupted THEN B ELSE BodyLeft(n, leave_loop(B), P, w)
BodyLeft(n, M, P, w) ==
  CASE M.leave \/ w = 2 -> M.S
    [] ~M.leave /\ w = 1 -> For(n, M.S, P, 2)
    [] ~M.leave /\ w = 0 -> While(n, M.S, P, M.S.r)

Negated(T) == [T EXCEPT !.ignored = @ - 1, !.r = IF T.r = 0 THEN 1 ELSE 0]
IfRan(n, D, P) ==
  IF Stop(D) THEN D
  ELSE IF D.r = 0 THEN ExecList(n.body, D, P)
  ELSE IF n.other # <<>> THEN ExecList(n.other, D, P) ELSE [D EXCEPT !.r = 0]
LoopIn(S) == [S EXCEPT !.loops = @ + 1]
ExecNode(n, S, P) ==
  IF n.negate
  THEN Negated(ExecNode([n EXCEPT !.negate = FALSE], [S EXCEPT !.ignored = @ + 1], P))
  ELSE CASE n.k = "simple" -> ExecSimple(n.c, S, P)
         [] n.k = "group" -> ExecList(n.body, S, P)
         [] n.k = "if" ->
              IfRan(n, [ExecList(n.cond, [S EXCEPT !.ignored = @ + 1], P) EXCEPT !.ignored = @ - 1], P)
         [] n.k = "case" -> IF S.x.v = 1 THEN ExecList(n.body, S, P) ELSE [S EXCEPT !.r = 0]
         [] n.k = "for" -> [For(n, LoopIn(S), P, 1) EXCEPT !.loops = @ - 1]
         [] OTHER -> [While(n, LoopIn(S), P, 0) EXCEPT !.loops = @ - 1]

Start == [r |-> 0, last |-> 0, brk |-> 0, cont |-> 0, ret |-> FALSE, exit |-> FALSE, dead |-> FALSE, final |-> 0,
          interrupted |-> FALSE, loops |-> 0, calls |-> 0, ignored |-> 0, saved |-> <<>>, x |-> Unset,
          noted |-> FALSE, running |-> FALSE, trace |-> <<>>, ticks |-> EvTicks]

\* run_text: what the program did, and whether the shell is over.
Told(S) ==
  [trace |-> S.trace, x |-> S.x, over |-> S.exit \/ S.dead, status |-> IF S.dead THEN S.final ELSE S.r,
   abandoned |-> S.interrupted, level |-> S.loops + S.calls + S.ignored]
Run(P) == Told(ExecList(P.list, Start, P))

-----------------------------------------------------------------------------
(***************************************************************************)
(* What the commands mean (the comments of sh.c and its opening text).     *)
(* A command in context K = [tested, loops, depth] changes the environment *)
(* E and has a status and an outcome.                                      *)
(***************************************************************************)
Go == [k |-> "go", n |-> 0]
Out(k, n) == [k |-> k, n |-> n]
Gives(r, out, E) == [r |-> r, out |-> out, E |-> E]
Outward(o) == Out(o.k, o.n - 1)

RECURSIVE MeansList(_, _, _, _), MeansFrom(_, _, _, _, _), Means(_, _, _, _), MeansLoop(_, _, _, _, _)
RECURSIVE MeansOne(_, _, _, _, _)

MeansCall(E, R) ==
  Gives(R.r, IF R.out.k = "return" THEN Go ELSE R.out,
        [R.E EXCEPT !.x = IF R.E.own THEN R.E.outer ELSE @, !.own = E.own, !.outer = E.outer])
MeansSimple(c, E0, K, P) ==
  LET E == [E0 EXCEPT !.trace = Append(@, <<c, E0.x>>)]
      tick == [E EXCEPT !.ticks = IF @ > 0 THEN @ - 1 ELSE 0]
      Jump(k, n, F) == IF K.loops = 0 THEN Gives(1, Go, F) ELSE Gives(0, Out(k, Fewer(n, K.loops)), F)
  IN  CASE c = "ok" -> Gives(0, Go, E)
        [] c = "fail" -> Gives(1, Go, E)
        [] c = "signal" -> Gives(0, Go, [E EXCEPT !.noted = TRUE])
        [] c = "more" -> Gives(IF E.ticks > 0 THEN 0 ELSE 1, Go, tick)
        [] c = "over" -> Gives(IF E.ticks > 0 THEN 1 ELSE 0, Go, tick)
        [] c = "break" -> Jump("break", 1, E)
        [] c = "break, signal" -> Jump("break", 1, [E EXCEPT !.noted = TRUE])
        [] c = "break 2" -> Jump("break", 2, E)
        [] c = "continue" -> Jump("continue", 1, E)
        [] c = "continue 2" -> Jump("continue", 2, E)
        [] c = "return" -> IF K.depth = 0 THEN Gives(1, Go, E) ELSE Gives(E.last, Out("return", 0), E)
        [] c = "exit 3" -> Gives(3, Out("exit", 3), E)
        [] c = "killed" -> Gives(130, Out("abandon", 0), E)
        [] c = "local" ->
             IF K.depth = 0 THEN Gives(1, Go, E)
             ELSE Gives(0, Go, [E EXCEPT !.own = TRUE, !.outer = IF E.own THEN @ ELSE E.x,
                                         !.x = set_variable(@, 1)])
        [] c = "assign" -> Gives(0, Go, [E EXCEPT !.x = set_variable(@, 2)])
        [] c = "export" -> Gives(0, Go, [E EXCEPT !.x = export_variable(@)])
        [] c = "unset" -> Gives(0, Go, [E EXCEPT !.x = Unset])
        [] OTHER ->
             IF K.depth >= EvDepth THEN Gives(2, Out("abandon", 0), E)
             ELSE MeansCall(E, MeansList(P.function, [E EXCEPT !.own = FALSE],
                                         [K EXCEPT !.loops = 0, !.depth = @ + 1], P))

\* A trap's list changes nothing but what its commands change, unless it exits.
Trapped(R, T) ==
  Gives(R.r, IF T.out.k \in {"exit", "dead"} THEN Out("dead", T.r) ELSE R.out,
        [T.E EXCEPT !.trapped = FALSE, !.last = R.E.last])
MeansTrap(R, K, P) ==
  IF ~R.E.noted \/ R.E.trapped THEN R
  ELSE Trapped(R, MeansList(One(Simple(P.trap)), [R.E EXCEPT !.noted = FALSE, !.trapped = TRUE], K, P))

\* The list from i on, after B.
Inside(list, i, K) == [K EXCEPT !.tested = @ \/ (i < Len(list) /\ list[i + 1].join \in {"and", "or"})]
MeansFrom(list, i, B, K, P) ==
  IF i > Len(list) \/ B.out # Go THEN B
  ELSE IF ~Joined(list[i].join, B.r) THEN MeansFrom(list, i + 1, B, K, P)
  ELSE MeansFrom(list, i + 1, MeansOne(list, i, Means(list[i].node, B.E, Inside(list, i, K), P), K, P), K, P)
OrFails(T, fails, r) ==
  IF fails /\ T.out.k \notin {"exit", "dead"} THEN [T EXCEPT !.out = Out("exit", r)] ELSE T
MeansOne(list, i, R, K, P) ==
  OrFails(MeansTrap([R EXCEPT !.E.last = R.r], K, P),
          P.errexit /\ R.r # 0 /\ ~Inside(list, i, K).tested /\ ~list[i].node.negate, R.r)
MeansList(list, E, K, P) == MeansFrom(list, 1, Gives(E.last, Go, E), K, P)

\* Rounds of a loop; b counts those of a for and has the last status.
LoopRan(n, R, K, P, b) ==
  CASE R.out.k \in {"break", "continue"} /\ R.out.n > 1 -> Gives(b.r, Outward(R.out), R.E)
    [] R.out = Out("break", 1) -> Gives(b.r, Go, R.E)
    [] R.out \in {Go, Out("continue", 1)} -> MeansLoop(n, R.E, K, P, [b EXCEPT !.w = @ + 1])
    [] OTHER -> Gives(b.r, R.out, R.E)
LoopBody(n, R, K, P, b) == LoopRan(n, R, K, P, [b EXCEPT !.r = R.r])
LoopCond(n, C, K, P, b) ==
  IF C.out # Go THEN LoopRan(n, C, K, P, b)
  ELSE IF (n.k = "until") = (C.r = 0) THEN Gives(b.r, Go, C.E)
  ELSE LoopBody(n, MeansList(n.body, IF n.k = "for" THEN [C.E EXCEPT !.x = set_variable(@, b.w)] ELSE C.E, K, P),
                K, P, b)
MeansLoop(n, E, K, P, b) ==
  LoopCond(n, IF n.k = "for" THEN Gives(IF b.w > 2 THEN 1 ELSE 0, Go, E)
              ELSE MeansList(n.cond, E, [K EXCEPT !.tested = TRUE], P), K, P, b)

Inverted(R) == [R EXCEPT !.r = IF R.r = 0 THEN 1 ELSE 0]
MeansIf(n, C, K, P) ==
  IF C.out # Go THEN C
  ELSE IF C.r = 0 THEN MeansList(n.body, C.E, K, P)
  ELSE IF n.other # <<>> THEN MeansList(n.other, C.E, K, P) ELSE Gives(0, Go, C.E)
Means(n, E, K, P) ==
  IF n.negate
  THEN Inverted(Means([n EXCEPT !.negate = FALSE], E, [K EXCEPT !.tested = TRUE], P))
  ELSE CASE n.k = "simple" -> MeansSimple(n.c, E, K, P)
         [] n.k = "group" -> MeansList(n.body, E, K, P)
         [] n.k = "if" ->
              MeansIf(n, MeansList(n.cond, E, [K EXCEPT !.tested = TRUE], P), K, P)
         [] n.k = "case" -> IF E.x.v = 1 THEN MeansList(n.body, E, K, P) ELSE Gives(0, Go, E)
         [] OTHER -> MeansLoop(n, E, [K EXCEPT !.loops = @ + 1], P, [w |-> 1, r |-> 0])

Meant(R, over) ==
  [trace |-> R.E.trace, x |-> R.E.x, over |-> over, status |-> IF over THEN R.out.n ELSE R.r,
   abandoned |-> R.out.k = "abandon", level |-> 0]
AllMeant(R) == Meant(R, R.out.k \in {"exit", "dead"})
Meaning(P) ==
  AllMeant(MeansList(P.list, [x |-> Unset, last |-> 0, noted |-> FALSE, trapped |-> FALSE, trace |-> <<>>,
                              ticks |-> EvTicks, own |-> FALSE, outer |-> Unset],
                     [tested |-> FALSE, loops |-> 0, depth |-> 0], P))

-----------------------------------------------------------------------------
(***************************************************************************)
(* The programs: a command inside one inside one more, then a last one.    *)
(***************************************************************************)
Jumps == {"break", "break, signal", "break 2", "continue", "continue 2", "return", "exit 3", "killed"}
Plain == {"ok", "fail", "signal", "call"}
Vars == {"local", "assign", "export", "unset"}

Inner ==
  {Simple(c) : c \in Jumps \cup Plain \cup Vars}
  \cup {Node("while", "", One(Simple("more")), Two(Simple(c), j, Simple("ok")), <<>>)
          : c \in Jumps \cup {"signal", "fail"}, j \in {"always", "and"}}
  \cup {Node("until", "", One(Simple("over")), One(Simple(c)), <<>>) : c \in Jumps}
  \cup {Node("while", "", Two(Simple("more"), "and", Simple(c)), One(Simple("ok")), <<>>)
          : c \in (Jumps \ (IF EvContinue THEN {} ELSE {"continue", "continue 2"})) \cup {"signal"}}
  \cup {Node("if", "", One(Simple(c)), One(Simple(d)), <<>>) : c \in Jumps \cup {"fail", "call"}, d \in {"fail", "break"}}
  \cup {Node("if", "", One(Simple("fail")), One(Simple("ok")), One(Simple(c))) : c \in Jumps}
  \cup {Node("group", "", <<>>, Two(Simple(c), j, Simple(d)), <<>>)
          : c \in {"fail", "ok", "signal", "local", "export"}, j \in {"always", "and", "or"}, d \in Jumps \cup Vars}
  \cup {Not(Simple(c)) : c \in Jumps \cup Plain}
  \cup {Node("case", "", <<>>, One(Simple(c)), <<>>) : c \in Jumps \cup {"fail"}}

Outer(n) ==
  {One(Node("for", "", <<>>, Two(n, j, Simple("ok")), <<>>)) : j \in {"always", "or"}}
  \cup {One(Node("while", "", One(Simple("more")), Two(n, "always", Simple("fail")), <<>>)),
         One(Node("if", "", One(n), One(Simple("fail")), One(Simple("assign")))),
         One(Not(Node("group", "", <<>>, One(n), <<>>))),
         Two(n, "or", Simple("fail")), Two(Simple("export"), "and", Simple("call"))}

choose_program ==
  /\ program = <<>>
  /\ \E n \in Inner, e \in BOOLEAN, t \in {"fail", "break", "return", "exit 3"} :
       \E top \in Outer(n) :
         \E f \in {<<Then("always", Simple("local")), Then("always", n), Then("always", Simple("assign"))>>,
                    Two(Node("for", "", <<>>, One(n), <<>>), "always", Simple("return"))} :
         program' = [list |-> Append(top, Then("always", Simple("ok"))), function |-> f, errexit |-> e, trap |-> t]
  /\ UNCHANGED ran
run_program ==
  /\ program # <<>> /\ ran = <<>>
  /\ ran' = <<Run(program), Meaning(program)>>
  /\ UNCHANGED program

EvInit == program = <<>> /\ ran = <<>>
EvNext == choose_program \/ run_program

-----------------------------------------------------------------------------
\* The flags, counters and stacks of the code do what the commands mean: the
\* same commands run in the same order with the same variable, the shell ends
\* for the same programs, the status is the same, and every counter is back
\* where it was (exec_list, exec_node, leave_loop, call_function, run_traps).
ScriptsMeanWhatTheySay ==
  ran # <<>> =>
    LET did == ran[1]
        should == ran[2]
    IN  /\ did.trace = should.trace /\ did.x = should.x /\ did.over = should.over
        /\ ~should.over /\ ~should.abandoned => did.status = should.status
        /\ did.level = 0

\* "exit [status]  leave the shell" (the help text): the shell's status is the
\* one exit was given.
ExitStatusIsKept == ran # <<>> /\ ran[2].over => ran[1].status = ran[2].status
=============================================================================
