------------------------------ MODULE Terminal -----------------------------
(***************************************************************************)
(* The terminal: keys come from the keyboard and from the serial line,     *)
(* each with its interrupt handler and its ring, and a reader takes them   *)
(* through the line discipline (drivers/tty/tty.c, input/keyboard.c,       *)
(* char/serial.c).                                                         *)
(*                                                                         *)
(* A device holds one key until its interrupt handler, or a reader that    *)
(* polls it, takes it.  Buffering a key and announcing it are two steps    *)
(* under two locks (the ring's, and input_lock): a reader holds input_lock *)
(* from finding both rings empty until it is asleep.                       *)
(* A key is a pair <<source, key>>; "a" stands for text, "bs" for          *)
(* backspace, "nl" for Enter, "eof" for Ctrl-D, "esc" and "[" start an     *)
(* escape sequence, "int" is Ctrl-C.                                       *)
(***************************************************************************)
EXTENDS Naturals, Sequences

CONSTANTS
  TyThreads,     \* the threads that read or poll the terminal
  TyKeys,        \* the keys pressed
  TyRing,        \* a ring's size (KEYBOARD_BUFFER_SIZE - 1)
  TyLine,        \* TTY_LINE_MAX
  TyPresses,     \* how many keys are pressed
  TyCalls        \* how many reads and polls are made

TyAssumption == TyRing \in Nat \ {0} /\ TyLine \in Nat \ {0, 1} /\ TyPresses \in Nat /\ TyCalls \in Nat

VARIABLES
  device,        \* [source -> the key it holds, "none", and `irq' raised]
  ring,          \* [source -> the keys buffered]
  handler,       \* [source -> "idle" or "announce"]
  inputLock,     \* who holds input_lock
  tline,         \* [buf, pos, ready, escape]: the line being collected
  rawMode,
  reader,        \* [thread -> [at, key, count, n, poll]]
  interrupted,   \* the threads with a signal to handle
  pressed,       \* [source -> the keys buffered so far]
  consumed,      \* the keys that went into the line, or to a raw reader
  tyLeft         \* [presses, calls]

tyVars == <<device, ring, handler, inputLock, tline, rawMode, reader, interrupted, pressed, consumed, tyLeft>>

Sources == {"kbd", "serial"}
NoKey == "none"
Nothing == [at |-> "out", key |-> <<"kbd", NoKey>>, count |-> 0, n |-> 0, poll |-> FALSE]
EmptyLine == [buf |-> <<>>, pos |-> 0, ready |-> FALSE, escape |-> 0]

-----------------------------------------------------------------------------
(***************************************************************************)
(* The devices and their interrupt handlers.                               *)
(***************************************************************************)
press(s, k) ==
  /\ tyLeft.presses > 0 /\ device[s].key = NoKey
  /\ device' = [device EXCEPT ![s] = [key |-> k, irq |-> TRUE]]
  /\ tyLeft' = [tyLeft EXCEPT !.presses = @ - 1]
  /\ UNCHANGED <<ring, handler, inputLock, tline, rawMode, reader, interrupted, pressed, consumed>>

\* kbd_buffer_push and serial_drain_uart: Ctrl-C is not data; a full ring
\* drops the key.
Kept(s) == device[s].key \notin {NoKey, "int"} /\ Len(ring[s]) < TyRing
RingAfter(s) == IF Kept(s) THEN Append(ring[s], <<s, device[s].key>>) ELSE ring[s]
PressedAfter(s) == IF Kept(s) THEN Append(pressed[s], <<s, device[s].key>>) ELSE pressed[s]
InterruptedAfter(s) == IF device[s].key = "int" THEN TyThreads ELSE interrupted
\* What keyboard_handle_port and serial_drain_uart leave.
HandlePort(s) ==
  /\ pressed' = [pressed EXCEPT ![s] = PressedAfter(s)]
  /\ device' = [device EXCEPT ![s].key = NoKey]

\* A signal ends a sleep: sched_interrupted answers from then on.
WokenBySignal(s) ==
  IF device[s].key = "int"
  THEN [t \in TyThreads |-> IF reader[t].at = "asleep" THEN [reader[t] EXCEPT !.at = "getchar"] ELSE reader[t]]
  ELSE reader

\* keyboard_irq_handler and serial_irq_handler, up to the announcement
irq_handler(s) ==
  /\ device[s].irq /\ handler[s] = "idle"
  /\ ring' = [ring EXCEPT ![s] = RingAfter(s)]
  /\ pressed' = [pressed EXCEPT ![s] = PressedAfter(s)]
  /\ interrupted' = InterruptedAfter(s)
  /\ reader' = WokenBySignal(s)
  /\ device' = [device EXCEPT ![s] = [key |-> NoKey, irq |-> FALSE]]
  /\ handler' = [handler EXCEPT ![s] = "announce"]
  /\ UNCHANGED <<inputLock, tline, rawMode, consumed, tyLeft>>
keyboard_input_arrived(s) ==
  /\ handler[s] = "announce" /\ inputLock = {}
  /\ handler' = [handler EXCEPT ![s] = "idle"]
  /\ reader' = [t \in TyThreads |-> IF reader[t].at = "asleep" THEN [reader[t] EXCEPT !.at = "getchar"] ELSE reader[t]]
  /\ UNCHANGED <<device, ring, inputLock, tline, rawMode, interrupted, pressed, consumed, tyLeft>>

-----------------------------------------------------------------------------
(***************************************************************************)
(* tty_read and tty_poll.                                                  *)
(***************************************************************************)
ReaderGoes(t, where) == reader' = [reader EXCEPT ![t].at = where]
tty_read(t, count) ==
  /\ reader[t].at = "out" /\ tyLeft.calls > 0
  /\ reader' = [reader EXCEPT ![t] = [Nothing EXCEPT !.at = IF rawMode THEN "getchar" ELSE "look",
                                                    !.count = count, !.n = IF rawMode THEN 0 ELSE TyLine]]
  /\ tyLeft' = [tyLeft EXCEPT !.calls = @ - 1]
  /\ UNCHANGED <<device, ring, handler, inputLock, tline, rawMode, interrupted, pressed, consumed>>
tty_poll(t) ==
  /\ reader[t].at = "out" /\ tyLeft.calls > 0 /\ ~rawMode
  /\ reader' = [reader EXCEPT ![t] = [Nothing EXCEPT !.at = "look", !.poll = TRUE, !.n = TyLine]]
  /\ tyLeft' = [tyLeft EXCEPT !.calls = @ - 1]
  /\ UNCHANGED <<device, ring, handler, inputLock, tline, rawMode, interrupted, pressed, consumed>>

\* Is there a line?  Then it is read: the rest of it stays.
AfterRead(count) ==
  IF Len(tline.buf) - tline.pos <= count THEN [EmptyLine EXCEPT !.escape = tline.escape]
  ELSE [tline EXCEPT !.pos = @ + count]
look_for_line(t) ==
  /\ reader[t].at = "look"
  /\ \/ ~tline.ready /\ ReaderGoes(t, IF reader[t].poll THEN "try_kbd" ELSE "getchar") /\ UNCHANGED tline
     \/ /\ tline.ready
        /\ tline' = IF reader[t].poll THEN tline ELSE AfterRead(reader[t].count)
        /\ reader' = [reader EXCEPT ![t] = Nothing]
  /\ UNCHANGED <<device, ring, handler, inputLock, rawMode, interrupted, pressed, consumed, tyLeft>>

\* kbd_buffer_pop: the port is polled first.  What the thread does next is
\* `found' with a key and `empty' without.
kbd_buffer_pop(t, found, empty) ==
  LET keys == RingAfter("kbd")
      has == keys # <<>>
  IN  /\ HandlePort("kbd")
      /\ interrupted' = InterruptedAfter("kbd")
      /\ ring' = [ring EXCEPT !["kbd"] = IF has THEN Tail(keys) ELSE keys]
      /\ reader' = [WokenBySignal("kbd") EXCEPT ![t] = [reader[t] EXCEPT !.at = IF has THEN found ELSE empty,
                                                                       !.key = IF has THEN Head(keys) ELSE reader[t].key]]
\* serial_has_char: it too drains the device.
serial_has_char(t, found, empty) ==
  /\ HandlePort("serial")
  /\ interrupted' = InterruptedAfter("serial")
  /\ ring' = [ring EXCEPT !["serial"] = RingAfter("serial")]
  /\ reader' = [WokenBySignal("serial") EXCEPT ![t] = [reader[t] EXCEPT !.at = IF RingAfter("serial") # <<>> THEN found ELSE empty]]

\* keyboard_getchar, which holds input_lock throughout
getchar_kbd(t) ==
  /\ reader[t].at = "getchar" /\ inputLock = {}
  /\ kbd_buffer_pop(t, "have", "getchar_serial")
  /\ inputLock' = IF reader'[t].at = "have" THEN {} ELSE {t}
  /\ UNCHANGED <<handler, tline, rawMode, consumed, tyLeft>>
getchar_serial(t) ==
  /\ reader[t].at = "getchar_serial"
  /\ serial_has_char(t, "take_serial", "getchar_sleep")
  /\ UNCHANGED <<handler, inputLock, tline, rawMode, consumed, tyLeft>>
\* Mutant of SleepLock: the lock is given up before the sleep begins
SleepUnlocked(t) == {}
SleepLock(t) == inputLock
check_interrupted(t) ==
  /\ reader[t].at = "getchar_sleep"
  /\ IF t \in interrupted
     THEN /\ reader' = [reader EXCEPT ![t] = Nothing]
          /\ interrupted' = interrupted \ {t} /\ inputLock' = {}
     ELSE ReaderGoes(t, "sleeping") /\ inputLock' = SleepLock(t) /\ UNCHANGED interrupted
  /\ UNCHANGED <<device, ring, handler, tline, rawMode, pressed, consumed, tyLeft>>
\* sched_sleep; a signal that came since ends it at once
sched_sleep(t) ==
  /\ reader[t].at = "sleeping"
  /\ inputLock' = inputLock \ {t}
  /\ ReaderGoes(t, IF t \in interrupted THEN "getchar" ELSE "asleep")
  /\ UNCHANGED <<device, ring, handler, tline, rawMode, interrupted, pressed, consumed, tyLeft>>

\* serial_getchar: it waits, without sleeping, for a byte.
serial_getchar(t) ==
  LET keys == RingAfter("serial") IN
  /\ reader[t].at = "take_serial"
  /\ keys # <<>>
  /\ HandlePort("serial")
  /\ interrupted' = InterruptedAfter("serial")
  /\ ring' = [ring EXCEPT !["serial"] = Tail(keys)]
  /\ reader' = [WokenBySignal("serial") EXCEPT ![t] = [reader[t] EXCEPT !.at = "have", !.key = Head(keys)]]
  /\ inputLock' = inputLock \ {t}
  /\ UNCHANGED <<handler, tline, rawMode, consumed, tyLeft>>

\* keyboard_try_getchar, which takes no lock of its own
try_kbd(t) ==
  /\ reader[t].at = "try_kbd"
  /\ kbd_buffer_pop(t, "have", "try_serial")
  /\ UNCHANGED <<handler, inputLock, tline, rawMode, consumed, tyLeft>>
try_serial(t) ==
  /\ reader[t].at = "try_serial"
  /\ serial_has_char(t, "take_serial", "out")
  /\ UNCHANGED <<handler, inputLock, tline, rawMode, consumed, tyLeft>>

-----------------------------------------------------------------------------
\* tty_input: the line discipline.  Keys typed while a line waits are dropped.
Disciplined(L, k) ==
  CASE L.ready -> L
    [] ~L.ready /\ L.escape = 1 -> [L EXCEPT !.escape = IF k = "[" THEN 2 ELSE 0]
    [] ~L.ready /\ L.escape = 2 -> [L EXCEPT !.escape = IF k = "a" THEN 0 ELSE 2]
    [] OTHER ->
         CASE k = "esc" -> [L EXCEPT !.escape = 1]
           [] k = "nl" -> [L EXCEPT !.buf = Append(@, "nl"), !.ready = TRUE]
           [] k = "eof" -> [L EXCEPT !.ready = TRUE]
           [] k = "bs" -> IF L.buf = <<>> THEN L ELSE [L EXCEPT !.buf = SubSeq(@, 1, Len(@) - 1)]
           [] OTHER -> IF Len(L.buf) < TyLine - 1 THEN [L EXCEPT !.buf = Append(@, k)] ELSE L
AfterInput(t) == "look"
tty_input(t) ==
  /\ reader[t].at = "have" /\ reader[t].n = TyLine
  /\ tline' = Disciplined(tline, reader[t].key[2])
  /\ consumed' = IF tline.ready THEN consumed ELSE Append(consumed, reader[t].key)
  /\ reader' = [reader EXCEPT ![t].at = AfterInput(t), ![t].key = <<"kbd", NoKey>>]
  /\ UNCHANGED <<device, ring, handler, inputLock, rawMode, interrupted, pressed, tyLeft>>

\* read_raw: the first key is waited for, the others are taken if they are there.
raw_key(t) ==
  /\ reader[t].at = "have" /\ reader[t].n # TyLine
  /\ consumed' = Append(consumed, reader[t].key)
  /\ reader' = [reader EXCEPT ![t] = [reader[t] EXCEPT !.n = reader[t].n + 1, !.key = <<"kbd", NoKey>>,
                                                        !.at = IF reader[t].n + 1 < reader[t].count THEN "raw_more" ELSE "out"]]
  /\ UNCHANGED <<device, ring, handler, inputLock, tline, rawMode, interrupted, pressed, tyLeft>>
\* keyboard_has_char
raw_more(t) ==
  /\ reader[t].at = "raw_more"
  /\ HandlePort("kbd")
  /\ interrupted' = InterruptedAfter("kbd")
  /\ ring' = [ring EXCEPT !["kbd"] = RingAfter("kbd")]
  /\ reader' = [WokenBySignal("kbd") EXCEPT ![t] = [reader[t] EXCEPT !.at = IF RingAfter("kbd") # <<>> THEN "getchar" ELSE "raw_serial"]]
  /\ UNCHANGED <<handler, inputLock, tline, rawMode, consumed, tyLeft>>
raw_serial(t) ==
  /\ reader[t].at = "raw_serial"
  /\ serial_has_char(t, "getchar", "out")
  /\ UNCHANGED <<handler, inputLock, tline, rawMode, consumed, tyLeft>>

tty_set_raw(on) ==
  /\ rawMode # on
  /\ rawMode' = on
  /\ tline' = IF on THEN EmptyLine ELSE tline
  /\ \A t \in TyThreads : reader[t].at = "out"
  /\ UNCHANGED <<device, ring, handler, inputLock, reader, interrupted, pressed, consumed, tyLeft>>

-----------------------------------------------------------------------------
TyInit ==
  /\ device = [s \in Sources |-> [key |-> NoKey, irq |-> FALSE]]
  /\ ring = [s \in Sources |-> <<>>] /\ pressed = [s \in Sources |-> <<>>]
  /\ handler = [s \in Sources |-> "idle"] /\ inputLock = {}
  /\ tline = EmptyLine /\ rawMode = FALSE
  /\ reader = [t \in TyThreads |-> Nothing]
  /\ interrupted = {} /\ consumed = <<>>
  /\ tyLeft = [presses |-> TyPresses, calls |-> TyCalls]

TyNext ==
  \/ \E s \in Sources, k \in TyKeys : press(s, k)
  \/ \E s \in Sources : irq_handler(s) \/ keyboard_input_arrived(s)
  \/ \E t \in TyThreads, count \in {1, 3} : tty_read(t, count)
  \/ \E t \in TyThreads :
       \/ tty_poll(t) \/ look_for_line(t) \/ getchar_kbd(t) \/ getchar_serial(t)
       \/ check_interrupted(t) \/ sched_sleep(t) \/ serial_getchar(t)
       \/ try_kbd(t) \/ try_serial(t) \/ tty_input(t) \/ raw_key(t) \/ raw_more(t) \/ raw_serial(t)
  \/ \E on \in BOOLEAN : tty_set_raw(on)

TySpec == TyInit /\ [][TyNext]_tyVars

-----------------------------------------------------------------------------
\* Nobody sleeps in keyboard_getchar through a key or a signal: while a reader
\* is asleep the rings are empty and it has no signal, or a handler is about
\* to announce a key.
TermSleepersWait ==
  \A t \in TyThreads : reader[t].at = "asleep" =>
    /\ t \notin interrupted
    /\ \A s \in Sources : ring[s] # <<>> => \E r \in Sources : handler[r] = "announce" \/ device[r].irq

\* The keys of a source arrive in the order in which they were buffered, each
\* once: with one reader none is lost, and none is dropped because a line is
\* waiting (tty_read and tty_poll look for a line before they take a key).
Of(s, keys) == SelectSeq(keys, LAMBDA k : k[1] = s /\ k[2] # NoKey)
KeysAreKept ==
  \A t \in TyThreads, s \in Sources : TyThreads = {t} =>
    Of(s, consumed) \o Of(s, <<reader[t].key>>) \o ring[s] = pressed[s]

\* Asking whether a key is there never waits for one: who found a key on the
\* serial line finds it still there when it takes it.
PollNeverWaits ==
  \A t \in TyThreads : reader[t].at = "take_serial" => ring["serial"] # <<>> \/ device["serial"].key # NoKey
=============================================================================
