------------------------------- MODULE Console ------------------------------
(***************************************************************************)
(* Typing a command line: the shell (apps/system/sys_shell.c) reads it     *)
(* with tty_read() of earth/dev_tty.c and parses it, while interrupts call *)
(* tty_recv_intr(), which takes characters from the same UART and leaves   *)
(* them in the same static variable c.                                     *)
(***************************************************************************)
EXTENDS Timer, Integers, Sequences, SequencesExt, FiniteSets

CONSTANTS
  Letters,       \* ordinary characters other than the space
  LEN,           \* size of the shell's buffer, 256 in the code
  CMD_NARGS, CMD_ARG_LEN,
  UINT,          \* values of an unsigned int, 2^32 in the code
  MaxTyped,      \* bound on the characters typed
  FifoSize       \* characters the UART holds

ASSUME ConsoleAssumption ==
  /\ {LEN, CMD_NARGS, CMD_ARG_LEN, UINT, MaxTyped, FifoSize} \subseteq Nat \ {0}
  /\ 1 < LEN /\ LEN < UINT /\ Letters \cap {" ", "BS", "^C", "CR"} = {}

Chars == Letters \cup {" ", "BS", "^C", "CR"}

VARIABLES
  uart,         \* characters received and not yet read
  typed,        \* number of characters typed so far
  c,            \* the last character read, shared; "-1" for none
  is_reading,
  sh,           \* the shell: where it is, i, its buffer and its request
  curr,         \* the process that runs: a server, the shell or another
  want, key     \* history: the line as the user edited it, the key that ended it

conVars == <<uart, typed, c, is_reading, sh, curr, want, key>>
vars == <<timerVars, conVars>>

Kinds == {"server", "shell", "user"}
Junk == [k \in 1 .. LEN |-> "?"]   \* what earlier calls left in the buffer
NoReq == [ok |-> TRUE, argv |-> << >>, put |-> {}]

Init ==
  /\ TimerInit
  /\ uart = << >> /\ typed = 0 /\ c = "-1" /\ is_reading = FALSE
  /\ sh = [pc |-> "prompt", i |-> 0, buf |-> Junk, req |-> NoReq]
  /\ curr = "shell"
  /\ want = << >> /\ key = "none"

Type(ch) ==
  /\ typed < MaxTyped /\ Len(uart) < FifoSize
  /\ uart' = Append(uart, ch) /\ typed' = typed + 1
  /\ UNCHANGED <<timerVars, c, is_reading, sh, curr, want, key>>

(* uart_getc(&c).  A character that leaves the UART during tty_read() is   *)
(* the user's next edit of the line, whoever takes it.                     *)
Edit(line, ch) ==
  IF ch = "BS" THEN SubSeq(line, 1, Len(line) - 1)
  ELSE IF ch \in {"^C", "CR"} THEN line ELSE Append(line, ch)

uart_getc ==
  /\ c' = IF uart = << >> THEN "-1" ELSE Head(uart)
  /\ uart' = IF uart = << >> THEN uart ELSE Tail(uart)
  /\ want' = IF is_reading /\ uart # << >> THEN Edit(want, Head(uart)) ELSE want

-----------------------------------------------------------------------------
(* tty_read(), called by the shell.  Until is_reading is 0 again nothing   *)
(* can interfere, so a character is read and stored in one step.           *)

Running == curr = "shell" /\ tm.pc = "idle"

ReadStart ==
  /\ Running /\ sh.pc = "prompt"
  /\ sh' = [sh EXCEPT !.pc = "loop", !.i = 0, !.buf = Junk]
  /\ is_reading' = TRUE
  /\ want' = << >> /\ key' = "none"
  /\ UNCHANGED <<timerVars, uart, typed, c, curr>>

ReadNothing ==
  /\ Running /\ sh.pc = "loop" /\ uart = << >>
  /\ uart_getc
  /\ UNCHANGED <<timerVars, typed, is_reading, sh, curr, key>>

(* The index after this character and the increment of the loop.           *)
NextIndex(i, ch) ==
  ((IF ch # "BS" THEN i ELSE IF i # 0 THEN i - 2 ELSE i - 1) + 1) % UINT

MoreRoom_past(i) == i <= LEN
MoreRoom(i) == i < LEN - 1

ReadChar ==
  LET ch   == Head(uart)
      i    == sh.i
      next == NextIndex(i, ch)
  IN /\ Running /\ sh.pc = "loop" /\ uart # << >> /\ ch \notin {"^C", "CR"}
     /\ uart_getc
     /\ IF MoreRoom(next)
        THEN /\ sh' = [sh EXCEPT !.i = next, !.buf[i + 1] = ch]
             /\ UNCHANGED <<is_reading, key>>
        ELSE /\ sh' = [sh EXCEPT !.pc = "line", !.i = LEN - 1,
                                 !.buf = [@ EXCEPT ![i + 1] = ch, ![LEN] = "NUL"]]
             /\ is_reading' = FALSE /\ key' = "full"
     /\ UNCHANGED <<timerVars, typed, curr>>

EndedBuf_kept(ch) == [sh.buf EXCEPT ![sh.i + 1] = "NUL"]
EndedBuf(ch) == IF ch = "^C" THEN [sh.buf EXCEPT ![1] = "NUL", ![sh.i + 1] = "NUL"]
                             ELSE [sh.buf EXCEPT ![sh.i + 1] = "NUL"]

ReadEnd ==
  /\ Running /\ sh.pc = "loop" /\ uart # << >> /\ Head(uart) \in {"^C", "CR"}
  /\ uart_getc
  /\ sh' = [sh EXCEPT !.pc = "ending", !.buf = EndedBuf(Head(uart))]
  /\ is_reading' = FALSE /\ key' = Head(uart)
  /\ UNCHANGED <<timerVars, typed, curr>>

(* After printf(), c is looked at once more; the shell reads another line  *)
(* when the result is 0.                                                   *)
Result == IF c = "^C" THEN 0 ELSE sh.i

ReadReturn ==
  /\ Running /\ sh.pc = "ending"
  /\ sh' = [sh EXCEPT !.pc = IF Result = 0 THEN "prompt" ELSE "line"]
  /\ UNCHANGED <<timerVars, uart, typed, c, is_reading, curr, want, key>>

-----------------------------------------------------------------------------
(* parse_request(): one step of its loop, then the whole of it.  r.word is *)
(* argv[nargs] as far as it is filled, and r.put the pairs of indices at   *)
(* which argv has been written.                                            *)
IsNul(ch) == ch = "NUL"
Text == SubSeq(sh.buf, 1, SelectInSeq(sh.buf, IsNul) - 1)

EndWord(r) == r.word # << >>

TooLong_late(idx) == idx > CMD_ARG_LEN
TooLong(idx) == idx >= CMD_ARG_LEN

ParseChar(r, ch) ==
  LET nargs == Len(r.argv)
      idx   == Len(r.word)
  IN IF ~ r.ok THEN r
     ELSE IF ch # " "
     THEN [r EXCEPT !.word = Append(@, ch), !.put = @ \cup {<<nargs, idx>>},
                    !.ok = ~ TooLong(idx + 1)]
     ELSE IF EndWord(r)
     THEN [r EXCEPT !.argv = Append(@, r.word), !.word = << >>,
                    !.put = @ \cup {<<nargs, idx>>}, !.ok = nargs + 1 < CMD_NARGS]
     ELSE r

parse_request(line) ==
  LET r == FoldLeft(ParseChar,
                    [ok |-> TRUE, argv |-> << >>, word |-> << >>, put |-> {}], line)
  IN [ok   |-> r.ok, put |-> r.put,
      argv |-> IF r.word # << >> THEN Append(r.argv, r.word) ELSE r.argv]

ShellParse ==
  /\ Running /\ sh.pc = "line"
  /\ sh' = [sh EXCEPT !.pc = "parsed", !.req = parse_request(Text)]
  /\ UNCHANGED <<timerVars, uart, typed, c, is_reading, curr, want, key>>

(* The command has run, or the line was rejected.                          *)
ShellDone ==
  /\ Running /\ sh.pc = "parsed"
  /\ sh' = [sh EXCEPT !.pc = "prompt", !.req = NoReq]
  /\ UNCHANGED <<timerVars, uart, typed, c, is_reading, curr, want, key>>

Shell == ReadStart \/ ReadNothing \/ ReadChar \/ ReadEnd \/ ReadReturn
         \/ ShellParse \/ ShellDone

-----------------------------------------------------------------------------
(* intr_entry().  Both interrupts look at the tty, unless a server is      *)
(* interrupted by the timer; a killed process keeps the processor.         *)
Leave_always == FALSE
Leave == is_reading
tty_recv_intr == IF Leave THEN UNCHANGED <<c, uart, want>> ELSE uart_getc

Interrupt ==
  /\ tty_recv_intr
  /\ IF ~ is_reading /\ c' = "^C" /\ curr = "user"
     THEN UNCHANGED <<tm, curr>>
     ELSE timer_reset /\ curr' \in Kinds
  /\ UNCHANGED <<mtime, mtimecmp, typed, is_reading, sh, key>>

TimerIntr ==
  /\ Due /\ tm.pc = "idle"
  /\ IF curr = "server"
     THEN timer_reset /\ UNCHANGED <<mtime, mtimecmp, conVars>>
     ELSE Interrupt

(* A system call of the process that runs.                                 *)
SoftIntr ==
  /\ tm.pc = "idle" /\ (curr = "shell" => sh.pc = "parsed")
  /\ Interrupt

Next ==
  \/ \E ch \in Chars : Type(ch)
  \/ Shell \/ TimerIntr \/ SoftIntr
  \/ (Tick \/ TimerStep) /\ UNCHANGED conVars

Spec == Init /\ [][Next]_vars

-----------------------------------------------------------------------------
(* Correctness.                                                            *)

(* The variables have the types the code declares; every index into the    *)
(* buffer is inside it.                                                    *)
TypeOK ==
  /\ uart \in Seq(Chars) /\ c \in Chars \cup {"-1"} /\ is_reading \in BOOLEAN
  /\ sh.i \in 0 .. LEN - 1
  /\ sh.buf \in [1 .. LEN -> Chars \cup {"?", "NUL"}]
  /\ curr \in Kinds /\ tm.pc \in {"idle", "high", "low", "check", "max", "wlow", "whigh"}

(* While tty_read() reads, its buffer holds the line as the user edited    *)
(* it: no character is taken by an interrupt, and Backspace removes one    *)
(* character, or none at the start of the line.                            *)
LineIsWhatWasTyped == is_reading => SubSeq(sh.buf, 1, sh.i) = want

(* What the shell goes on to parse is the line that was entered; of a line *)
(* cancelled with Ctrl+C nothing is left, even if an interrupt has hidden  *)
(* the Ctrl+C from the test at the end of tty_read().                      *)
CancelledNeverRuns ==
  sh.pc = "line" => Text = IF key = "^C" THEN << >> ELSE want

(* parse_request() finds the words of the line, in their order; it rejects *)
(* only lines with a word that is too long, or with too many words; and no *)
(* line, accepted or rejected, makes it write outside                      *)
(* argv[CMD_NARGS][CMD_ARG_LEN], the zeros after words included.           *)
WordsOf(line) ==
  {w \in (1 .. Len(line)) \X (1 .. Len(line)) :
     /\ w[1] <= w[2] /\ \A k \in w[1] .. w[2] : line[k] # " "
     /\ w[1] > 1 => line[w[1] - 1] = " "
     /\ w[2] < Len(line) => line[w[2] + 1] = " "}
ParsesWords ==
  sh.pc = "parsed" =>
    LET W == WordsOf(Text)
    IN /\ IF sh.req.ok
          THEN /\ Len(sh.req.argv) = Cardinality(W)
               /\ \A w \in W : sh.req.argv[Cardinality({v \in W : v[1] <= w[1]})]
                                 = SubSeq(Text, w[1], w[2])
               /\ \A w \in W : w[2] - w[1] + 1 < CMD_ARG_LEN   \* room for the zero
          ELSE \/ Cardinality(W) >= CMD_NARGS
               \/ \E w \in W : w[2] - w[1] + 1 >= CMD_ARG_LEN
       /\ sh.req.put \subseteq (0 .. CMD_NARGS - 1) \X (0 .. CMD_ARG_LEN - 1)
=============================================================================
