------------------------- MODULE MCPrograms -------------------------
(***************************************************************************)
(* The network and the user programs for TLC, part by part, as MCKernel     *)
(* does for the kernel: a behaviour runs one part (focus) and leaves the    *)
(* variables of the others alone.  ProgramParts chooses the parts.          *)
(***************************************************************************)
EXTENDS Naturals, Sequences, FiniteSets, TLC

CONSTANTS
  ProgramParts,  \* the parts that are run
  Mod, Mss, Room, MaxRetries, MaxFlight, Lives, Scenarios,
  RecMod, Smss, Ranges, CwndMax, MaxSpan, MaxSent, MaxDup,
  OpBytes, OpLength, OpMss, OpSmallest, OpDefault, OpShift, OpShiftMax, OpField, OpRoom,
    OpUnscaled, OpBlocks,
  FragKeys, FragSlots, FragMemory, PayloadMax, FragTimeout, MaxNow,
  Callers, Peers, ArpSize, ArpTries, ArpWait, ArpStale, PingSlots, PingWait, Socks, Ports,
    Overhead, QueueBytes, ErrorsMax, MaxClock, MaxCalls, MaxFrames,
  DhServers, DhOverride, DhTries, DhPause, LEASE_MIN, RETRY_MIN, DhDelay, DhTime, DhExchanges,
  RsNames, RsLine, RsTries, RsLookups, RsFlight,
  ShPids, ShStages, ShJobs, ShTraps, ShTyped, ShSignals, ShFaults,
  EvDepth, EvTicks, EvContinue,
  PsLength,
  ArWidth, ArOperators, ArDepth,
  WdTokens, WdLength, WdMaxArgs,
  TyThreads, TyKeys, TyRing, TyLine, TyPresses, TyCalls,
  LeKeys, LeMax, LeHistory,
  AcPrograms, AcUsers, AcPasswords, AcFits, AcMaxGroups, AcRacing, AcFaults

VARIABLES
  focus,  \* the part that is run
  sk, net, sent, got, faults, sc, lives,
  una, span, sacked, said, cc, dupacks, resend, allSent,
  ends, segment, phase,
  slot, memory, handed, now, netd, until, rx_woken, sender,
  arp, local_ip, pings, sockets, next, caller, rx, clock, calls, frames,
  dhcp, conf, wire, lent, dhClock,
  rs, hosts, dgrams, asked,
  shell, proc, jobs, tty, trap, shLeft,
  program, ran,
  typed,
  expr, levels,
  intended,
  device, ring, handler, inputLock, tline, rawMode, reader, interrupted, pressed, consumed, tyLeft,
  ed, history, user,
  etc, prog, agreed, acFaults

tcpVars == <<sk, net, sent, got, faults, sc, lives>>
recVars == <<una, span, sacked, said, cc, dupacks, resend, allSent>>
opVars == <<ends, segment, phase>>
fragVars == <<slot, memory, handed, now, netd, until, rx_woken, sender>>
netVars == <<arp, local_ip, pings, sockets, next, caller, rx, clock, calls, frames>>
dhVars == <<dhcp, conf, wire, lent, dhClock>>
rsVars == <<rs, hosts, dgrams, asked>>
shVars == <<shell, proc, jobs, tty, trap, shLeft>>
evVars == <<program, ran>>
psVars == <<typed>>
arVars == <<expr, levels>>
wdVars == <<intended>>
tyVars == <<device, ring, handler, inputLock, tline, rawMode, reader, interrupted, pressed,
    consumed, tyLeft>>
leVars == <<ed, history, user>>
acVars == <<etc, prog, agreed, acFaults>>

-----------------------------------------------------------------------------
(* What the programs are given. *)

\* A lease that leaves T1 and T2 to the client, and one with a T2 past its end.
DhLeases == {[seconds |-> 4, t1 |-> 0, t2 |-> 0], [seconds |-> 5, t1 |-> 2, t2 |-> 6]}

\* An alias with its address, an address, and a name that does not exist; and
\* files of hosts with lines too long, comments and blank lines.
RsZone == [n \in {"n", "m", "o"} |->
             CASE n = "n" -> <<"CNAME", "A">> [] n = "m" -> <<"A">> [] n = "o" -> <<"noname">>]
RsHosts ==
  {<<>>, <<"ip1", "m", "nl", "ip2", "n">>,
   <<"ip1", "n", "x", "x", "x", "nl", "ip2", "#", "n", "nl", "m", "n">>,
   <<"n", "nl", "x", "ip1", "n", "nl", "nl", "ip2", "m", "n">>}

\* The tokens scripts are made of, a few kinds at a time.
PsTokens ==
  {{"w", "if", "then", "elif", "else", "fi", ";"}, {"w", "while", "for", "do", "done", ";", "|", ">"},
   {"w", "case", "in", "p)", ";;", "esac", "newline"}, {"w", "f()", "{", "}", ";", "!", "&&"},
   {"w", "{", "}", "newline", "|"}}
PsIf == <<"if", "w", ";", "then", "w", ";">>
PsStarts ==
  {<<>>, PsIf, PsIf \o <<"elif", "w", ";", "then", "w", ";">>, <<"while", "w", ";", "do", "w">>,
   <<"for", "w", "w", ";", "do", "w", ";">>, <<"case", "in", "p)", "w">>, <<"f()", "{", "w">>,
   <<"{", "w", ";", "}">>}

\* Those who use the network are alike.
CallerSymmetry == Permutations(Callers)

\* The positional parameters, one with a blank, and the files patterns find.
WdArguments == <<<<"a">>, <<"b", " ">>>>
WdFiles == <<<<"a">>, <<"a", "b">>, <<"b">>>>

\* The names completion finds.
LeNames == <<<<"a", "b", "a">>, <<"a", "a", "a">>, <<"b", "b">>>>

\* root has no further group, a has one, b more than fit.
AcGroups == [u \in {"root", "a", "b"} |->
               CASE u = "root" -> {} [] u = "a" -> {"x"} [] u = "b" -> {"x", "y"}]

-----------------------------------------------------------------------------

TcpPart == INSTANCE Tcp
TcpRecoveryPart == INSTANCE TcpRecovery
TcpOptionsPart == INSTANCE TcpOptions
IpFragPart == INSTANCE IpFrag
NetStackPart == INSTANCE NetStack
DhcpPart == INSTANCE Dhcp
ResolverPart == INSTANCE Resolver
ShellJobsPart == INSTANCE ShellJobs
ShellEvalPart == INSTANCE ShellEval
ShellParsePart == INSTANCE ShellParse
ShellArithPart == INSTANCE ShellArith
ShellWordsPart == INSTANCE ShellWords
TerminalPart == INSTANCE Terminal
LineEditPart == INSTANCE LineEdit
AccountsPart == INSTANCE Accounts

\* What the parts assume of their constants.
ASSUME PartsAssumption ==
  /\ TcpPart!TcpAssumption
  /\ TcpRecoveryPart!RecAssumption
  /\ TcpOptionsPart!OpFits
  /\ IpFragPart!FragAssumption
  /\ NetStackPart!NetAssumption
  /\ DhcpPart!DhAssumption
  /\ ShellJobsPart!ShAssumption
  /\ ShellEvalPart!EvAssumption
  /\ ShellParsePart!PsAssumption
  /\ ShellArithPart!ArAssumption
  /\ ShellWordsPart!WdAssumption
  /\ TerminalPart!TyAssumption
  /\ LineEditPart!LeAssumption
  /\ AccountsPart!AcAssumption

Parts == {"tcp", "recovery", "options", "fragments", "net", "dhcp", "resolver", "jobs", "eval",
    "parse", "arith", "words", "terminal", "line", "accounts"}

\* The part x is not run: its variables have no value of interest.
Off(x) ==
  CASE x = "tcp" -> sk = 0 /\ net = 0 /\ sent = 0 /\ got = 0 /\ faults = 0 /\ sc = 0 /\ lives = 0
    [] x = "recovery" -> una = 0 /\ span = 0 /\ sacked = 0 /\ said = 0 /\ cc = 0 /\ dupacks = 0
          /\ resend = 0 /\ allSent = 0
    [] x = "options" -> ends = 0 /\ segment = 0 /\ phase = 0
    [] x = "fragments" -> slot = 0 /\ memory = 0 /\ handed = 0 /\ now = 0 /\ netd = 0 /\ until = 0
          /\ rx_woken = 0 /\ sender = 0
    [] x = "net" -> arp = 0 /\ local_ip = 0 /\ pings = 0 /\ sockets = 0 /\ next = 0 /\ caller = 0
          /\ rx = 0 /\ clock = 0 /\ calls = 0 /\ frames = 0
    [] x = "dhcp" -> dhcp = 0 /\ conf = 0 /\ wire = 0 /\ lent = 0 /\ dhClock = 0
    [] x = "resolver" -> rs = 0 /\ hosts = 0 /\ dgrams = 0 /\ asked = 0
    [] x = "jobs" -> shell = 0 /\ proc = 0 /\ jobs = 0 /\ tty = 0 /\ trap = 0 /\ shLeft = 0
    [] x = "eval" -> program = 0 /\ ran = 0
    [] x = "parse" -> typed = 0
    [] x = "arith" -> expr = 0 /\ levels = 0
    [] x = "words" -> intended = 0
    [] x = "terminal" -> device = 0 /\ ring = 0 /\ handler = 0 /\ inputLock = 0 /\ tline = 0
          /\ rawMode = 0 /\ reader = 0 /\ interrupted = 0 /\ pressed = 0 /\ consumed = 0
          /\ tyLeft = 0
    [] x = "line" -> ed = 0 /\ history = 0 /\ user = 0
    [] x = "accounts" -> etc = 0 /\ prog = 0 /\ agreed = 0 /\ acFaults = 0

\* The part x stays as it is.
Stays(x) ==
  CASE x = "tcp" -> UNCHANGED tcpVars
    [] x = "recovery" -> UNCHANGED recVars
    [] x = "options" -> UNCHANGED opVars
    [] x = "fragments" -> UNCHANGED fragVars
    [] x = "net" -> UNCHANGED netVars
    [] x = "dhcp" -> UNCHANGED dhVars
    [] x = "resolver" -> UNCHANGED rsVars
    [] x = "jobs" -> UNCHANGED shVars
    [] x = "eval" -> UNCHANGED evVars
    [] x = "parse" -> UNCHANGED psVars
    [] x = "arith" -> UNCHANGED arVars
    [] x = "words" -> UNCHANGED wdVars
    [] x = "terminal" -> UNCHANGED tyVars
    [] x = "line" -> UNCHANGED leVars
    [] x = "accounts" -> UNCHANGED acVars

AtStart(x) == focus = x /\ \A y \in Parts \ {x} : Off(y)
Alone(x) == focus = x /\ UNCHANGED focus /\ \A y \in Parts \ {x} : Stays(y)

Init ==
  /\ focus \in ProgramParts
  /\ \/ AtStart("tcp") /\ TcpPart!TcpInit
     \/ AtStart("recovery") /\ TcpRecoveryPart!RecInit
     \/ AtStart("options") /\ TcpOptionsPart!OpInit
     \/ AtStart("fragments") /\ IpFragPart!FragInit
     \/ AtStart("net") /\ NetStackPart!NetInit
     \/ AtStart("dhcp") /\ DhcpPart!DhInit
     \/ AtStart("resolver") /\ ResolverPart!RsInit
     \/ AtStart("jobs") /\ ShellJobsPart!ShInit
     \/ AtStart("eval") /\ ShellEvalPart!EvInit
     \/ AtStart("parse") /\ ShellParsePart!PsInit
     \/ AtStart("arith") /\ ShellArithPart!ArInit
     \/ AtStart("words") /\ ShellWordsPart!WdInit
     \/ AtStart("terminal") /\ TerminalPart!TyInit
     \/ AtStart("line") /\ LineEditPart!LeInit
     \/ AtStart("accounts") /\ AccountsPart!AcInit

Next ==
  \/ Alone("tcp") /\ TcpPart!TcpNext
  \/ Alone("recovery") /\ TcpRecoveryPart!RecNext
  \/ Alone("options") /\ TcpOptionsPart!OpNext
  \/ Alone("fragments") /\ IpFragPart!FragNext
  \/ Alone("net") /\ NetStackPart!NetNext
  \/ Alone("dhcp") /\ DhcpPart!DhNext
  \/ Alone("resolver") /\ ResolverPart!RsNext
  \/ Alone("jobs") /\ ShellJobsPart!ShNext
  \/ Alone("eval") /\ ShellEvalPart!EvNext
  \/ Alone("parse") /\ ShellParsePart!PsNext
  \/ Alone("arith") /\ ShellArithPart!ArNext
  \/ Alone("words") /\ ShellWordsPart!WdNext
  \/ Alone("terminal") /\ TerminalPart!TyNext
  \/ Alone("line") /\ LineEditPart!LeNext
  \/ Alone("accounts") /\ AccountsPart!AcNext

Spec == Init /\ [][Next]_<<focus, tcpVars, recVars, opVars, fragVars, netVars, dhVars, rsVars,
    shVars, evVars, psVars, arVars, wdVars, tyVars, leVars, acVars>>

------------------------------------------------------------
\* What read() returns is what write() took, in order and each byte once, what
\* is acknowledged has arrived, and whoever sleeps on a socket has a reason,
\* through loss, duplication and reordering (tcp.c); what the sender believes
\* the other side has is there, and its window never closes for good (SACK and
\* congestion control).
TcpSound ==
  /\ focus = "tcp" => TcpPart!InOrder /\ TcpPart!AckedArrived /\ TcpPart!SleepersWait
  /\ focus = "recovery" => TcpRecoveryPart!ScoreboardIsTrue /\ TcpRecoveryPart!WindowStaysOpen

\* Nobody waits for an address, an answer or a datagram that is there, the
\* tables name each port and each host once (net.c), a datagram is handed on
\* only when all of it has come, its memory is charged and its deadline kept
\* (ip_frag.c), and the options of a segment are read without leaving it and
\* both ends agree on them (tcp_options.c).
PacketsSound ==
  /\ focus = "net" => NetStackPart!NetSleepersWait /\ NetStackPart!NetTablesSound
  /\ focus = "fragments" => IpFragPart!HandedOnWhole /\ IpFragPart!MemoryIsCharged
                            /\ IpFragPart!DeadlineKept
  /\ focus = "options" => TcpOptionsPart!OptionsSound

\* The interface keeps an address only while it is lent to it (dhcp.c), and a
\* name is resolved to an address of that name, whatever late or foreign
\* datagrams arrive (dns.c).
NamesAndLeases ==
  /\ focus = "dhcp" => DhcpPart!AddressIsLent /\ DhcpPart!LeaseTimesSound
  /\ focus = "resolver" => ResolverPart!NameIsItsOwn

\* The shell accepts the scripts of its grammar, asks for more just when one is
\* not finished, computes as C does and passes the arguments that were meant
\* (the lexer, parser, arithmetic and expansion of sh.c).
ScriptsAreRead ==
  /\ focus = "parse" => ShellParsePart!ReadsTheGrammar
  /\ focus = "arith" => ShellArithPart!ArithmeticIsC
  /\ focus = "words" => ShellWordsPart!ArgumentsAsMeant

\* A script does what its commands mean: which of them run, with which
\* variables, and where break, return, traps and set -e leave it (sh.c).
ScriptsRun == focus = "eval" => ShellEvalPart!ScriptsMeanWhatTheySay

\* Every process the shell started is waited for or in a job, and every trap
\* that is due runs once (the job table of sh.c).
JobsSound == focus = "jobs" => ShellJobsPart!JobsAreKnown /\ ShellJobsPart!TrapsAreRun

\* Nobody sleeps beside a key that is there and no key is lost or doubled on
\* its way to a reader (keyboard.c, tty.c), and the line is edited as meant
\* (line.c).
KeyboardSound ==
  /\ focus = "terminal" => TerminalPart!TermSleepersWait /\ TerminalPart!KeysAreKept
  /\ focus = "line" => LineEditPart!LineIsWhatIsMeant

\* The password file keeps every account, with the password last set, at every
\* crash, and a shell runs as the user whose password was given (login, passwd,
\* useradd, su).
AccountsSound == focus = "accounts" => AccountsPart!AccountsAreKept /\ AccountsPart!ShellIsTheirs

============================================================
