------------------------------ MODULE Console ------------------------------
(***************************************************************************)
(* The console: console_str() of device/console.c and put_char() of        *)
(* lib/kernel/print.S, on the threads and locks of Sync, called directly   *)
(* or by the system call write.  console_char(), console_hex() and         *)
(* printk() are console_str() of other strings.                            *)
(*                                                                         *)
(* put_char() reads the cursor from two registers of the video controller, *)
(* stores the character there, and writes the new cursor back; to get at a *)
(* register it first selects it.  Each of these accesses is a step, and an *)
(* interrupt may come between any two.  Threads print with console_lock,   *)
(* but cpu_idle() and the keyboard's handler print without it.             *)
(*                                                                         *)
(* A character is ordinary ("c"), CR or LF ("n"), backspace ("b") or NUL   *)
(* ("0"); what the cells of the screen hold is left out.                   *)
(***************************************************************************)
EXTENDS Sync, Integers

CONSTANTS ROWS, COLS,      \* 25 and 80
          BYTE,            \* 256
          LIMIT,           \* the cells in the video segment, 16384
          Strings,         \* what threads print
          IdleString,      \* "CPU IDLE\n"
          Typed,           \* the characters the keyboard's handler echoes
          Starts,          \* where the boot may leave the cursor
          console_lock,
          MaxPuts          \* bound: the strings printed and keys echoed

CELLS == ROWS * COLS
REG == BYTE * BYTE       \* the values of a 16-bit register
Chars == {"c", "n", "b", "0"}

ASSUME ScreenAssumption ==
  /\ ROWS \in Nat \ {0} /\ COLS \in Nat \ {0} /\ BYTE \in Nat \ {0}
  /\ ((CELLS - 1) \div BYTE + 1) * BYTE <= LIMIT   \* 2048 <= 16384
  /\ LIMIT \in Nat /\ REG % 2 = 0 /\ LIMIT + COLS < REG \div 2   \* 16464 < 32768
  /\ Starts \subseteq 0..(CELLS - 1)
ASSUME ConsoleAssumption == MaxPuts \in Nat /\ Locks = {console_lock}
ASSUME StringsAssumption ==
  /\ Strings \union {IdleString} \subseteq Seq(Chars) \ {<<>>}
  /\ Typed \subseteq Chars

VARIABLES crtc,   \* the selected register, and the two that hold the cursor
          out,    \* where each thread is in put_str(), the rest of its
                  \* string, its register bx, and whether in a system call
          harm,   \* history: "torn", characters were put at the same time;
                  \* "split", so that one took one register for the other
          puts    \* counts up to MaxPuts

locks == <<sema, owner, at, lk, saved>>
conVars == <<syncVars, crtc, out, harm, puts>>

Cursor == crtc.hi * BYTE + crtc.lo

(* The steps of put_char(), the register each is about, and what follows.   *)
Selects == {"sel_rh", "sel_rl", "sel_wh", "sel_wl"}
Reads == {"rd_h", "rd_l"}
Writes == {"wr_h", "wr_l"}
Half(p) == IF p \in {"sel_rh", "rd_h", "sel_wh", "wr_h"} THEN "hi" ELSE "lo"
Then == [sel_rh |-> "rd_h", rd_h |-> "sel_rl", sel_rl |-> "rd_l", rd_l |-> "store",
         sel_wh |-> "wr_h", wr_h |-> "sel_wl", sel_wl |-> "wr_l"]

Silent == [step |-> "none", rest |-> <<>>, bx |-> 0, trap |-> FALSE]

ConsoleInit ==
  /\ SyncInit
  /\ \E p \in Starts : crtc = [index |-> "lo", hi |-> p \div BYTE, lo |-> p % BYTE]
  /\ out = [t \in Threads |-> Silent]
  /\ harm = "none"
  /\ puts = 0

(* t is in put_char(), and has done something there.                        *)
MidChar(t) == out[t].step \in Reads \union Writes \union (Selects \ {"sel_rh"}) \union {"store"}

(* Where put_char() puts the character, and where it leaves bx.  Shifting   *)
(* bx left and right drops its top bit; jl compares signed numbers.         *)
target(c, bx) == IF c = "b" THEN ((bx + REG - 1) % REG) % (REG \div 2) ELSE bx % (REG \div 2)

new_line_NoRoll(bx) == (bx - (bx % COLS) + COLS) % REG
new_line(bx) ==
  LET start == (bx - (bx % COLS) + COLS) % REG
  IN  IF start < CELLS \/ start >= REG \div 2 THEN start ELSE CELLS - COLS

move(c, bx) ==
  CASE c = "b" -> target(c, bx)
    [] c = "n" -> new_line(bx)
    [] c = "c" -> IF target(c, bx) + 1 < CELLS THEN target(c, bx) + 1
                  ELSE new_line(target(c, bx) + 1)
    [] OTHER -> bx

(* A store beyond the video segment raises #GP.                             *)
faults(c, bx) == c \in {"b", "c"} /\ target(c, bx) >= LIMIT

(* ignore_intr_handler() of an exception: print its name, which is left     *)
(* out, and spin, with interrupts off.                                      *)
ignore_intr_handler == debug_out /\ UNCHANGED <<pid, next_pid, old_status, left>>

-----------------------------------------------------------------------------
Counted == puts < MaxPuts /\ puts' = puts + 1

Running(t) == IF t = Idle THEN At(t, "print") ELSE At(t, "run")
On(t, p) == Running(t) /\ out[t].step = p

(* A step of t in put_char() that leaves it with o.                         *)
Prints(t, o) ==
  /\ Running(t)
  /\ out' = [out EXCEPT ![t] = o]
  /\ harm' = IF out[t].step \in Reads \union Writes /\ crtc.index # Half(out[t].step) THEN "split"
             ELSE IF harm = "none" /\ \E u \in Threads \ {t} : MidChar(u) THEN "torn"
             ELSE harm
  /\ UNCHANGED <<locks, puts>>

(* What follows the last access for a character: the next, or the end.      *)
next_char(o) == [o EXCEPT !.bx = 0, !.rest = Tail(o.rest),
                          !.step = IF Len(o.rest) > 1 THEN "sel_rh" ELSE "end"]

put_char_select(t) ==
  /\ out[t].step \in Selects
  /\ Prints(t, [out[t] EXCEPT !.step = Then[@]])
  /\ crtc' = [crtc EXCEPT !.index = Half(out[t].step)]
  /\ UNCHANGED vars

put_char_read(t) ==
  LET o == out[t] IN
  /\ o.step \in Reads
  /\ Prints(t, [o EXCEPT !.step = Then[@],
                         !.bx = IF o.step = "rd_h" THEN crtc[crtc.index] * BYTE ELSE @ + crtc[crtc.index]])
  /\ UNCHANGED <<vars, crtc>>

put_char_store(t) ==
  LET o == out[t]
      c == Head(o.rest)
  IN  /\ o.step = "store"
      /\ IF faults(c, o.bx)
           THEN Prints(t, o) /\ ignore_intr_handler /\ UNCHANGED pc
           ELSE /\ Prints(t, IF c = "0" THEN next_char(o)
                             ELSE [o EXCEPT !.step = "sel_wh", !.bx = move(c, o.bx)])
                /\ UNCHANGED vars
      /\ UNCHANGED crtc

put_char_write(t) ==
  LET o == out[t] IN
  /\ o.step \in Writes
  /\ Prints(t, IF o.step = "wr_l" THEN next_char(o) ELSE [o EXCEPT !.step = Then[@]])
  /\ crtc' = [crtc EXCEPT ![crtc.index] = IF o.step = "wr_h" THEN o.bx \div BYTE ELSE o.bx % BYTE]
  /\ UNCHANGED vars

put_char(t) == put_char_select(t) \/ put_char_read(t) \/ put_char_store(t) \/ put_char_write(t)

-----------------------------------------------------------------------------
Quiet == UNCHANGED <<crtc, harm, puts>>

(* int 0x80 with sys_write(): interrupts are off until its iret.            *)
syscall_enter(t, s) ==
  /\ On(t, "none") /\ at[t] = "out" /\ t # Idle
  /\ Outside(local_irq_disable(t))
  /\ out' = [out EXCEPT ![t].step = "write", ![t].rest = s, ![t].trap = TRUE]
  /\ Counted
  /\ UNCHANGED <<crtc, harm>>

sys_write(t) ==
  /\ On(t, "write")
  /\ lock_acquire(t, console_lock)
  /\ out' = [out EXCEPT ![t].step = "lock"]
  /\ Quiet

syscall_exit(t) ==
  /\ On(t, "iret")
  /\ Outside(local_irq_enable(t))
  /\ out' = [out EXCEPT ![t] = Silent]
  /\ Quiet

(* console_str(): take the lock, ...  What main prints before it enables    *)
(* interrupts nothing can disturb: Starts stands for that.                  *)
console_str(t, s) ==
  /\ On(t, "none") /\ at[t] = "out" /\ t # Idle /\ intr
  /\ lock_acquire(t, console_lock)
  /\ out' = [out EXCEPT ![t].step = "lock", ![t].rest = s]
  /\ Counted
  /\ UNCHANGED <<crtc, harm>>

console_acquire_Skips(t) ==
  /\ On(t, "lock") /\ at[t] = "down"
  /\ at' = [at EXCEPT ![t] = "in"]
  /\ out' = [out EXCEPT ![t].step = "sel_rh"]
  /\ UNCHANGED <<vars, sema, owner, lk, saved>> /\ Quiet

console_acquire(t) ==
  /\ out[t].step = "lock" /\ AcquireStep(t)
  /\ out' = IF at'[t] = "in" THEN [out EXCEPT ![t].step = "sel_rh"] ELSE out
  /\ Quiet

(* ... put_str(), release the lock.                                         *)
console_release(t) ==
  /\ out[t].step = "end" /\ t # Idle
  /\ lock_release(t) \/ lock_release_count(t) \/ sema_up(t)
  /\ out' = IF at'[t] # "out" THEN out
            ELSE [out EXCEPT ![t] = IF @.trap THEN [@ EXCEPT !.step = "iret"] ELSE Silent]
  /\ Quiet

(* cpu_idle(): put_str() without the lock, then sti and hlt.                *)
cpu_idle_print ==
  /\ On(Idle, "none")
  /\ out' = [out EXCEPT ![Idle].step = "sel_rh", ![Idle].rest = IdleString]
  /\ Counted
  /\ UNCHANGED <<syncVars, crtc, harm>>

cpu_idle_halt ==
  /\ On(Idle, "end")
  /\ Outside(cpu_halt)
  /\ out' = [out EXCEPT ![Idle] = Silent]
  /\ Quiet

(* key_output() echoes a character when kbd_buff is not full: put_char() in *)
(* an interrupt handler, with interrupts off.                               *)
key_echo(c) ==
  LET bx == move(c, Cursor) IN
  /\ ~hung /\ intr /\ frame[current_task] = "none"
  /\ WakeCpu /\ Counted
  /\ harm' = IF harm = "none" /\ \E t \in Threads : MidChar(t) THEN "torn" ELSE harm
  /\ IF faults(c, Cursor)
       THEN ignore_intr_handler /\ crtc' = [crtc EXCEPT !.index = "lo"]
       ELSE /\ crtc' = [index |-> "lo", hi |-> bx \div BYTE, lo |-> bx % BYTE]
            /\ UNCHANGED <<sched, intr, pid, next_pid, old_status, left>>
  /\ UNCHANGED <<locks, out>>

-----------------------------------------------------------------------------
(* A step of the scheduler, or of a thread outside the console.             *)
Elsewhere(step) == Outside(step) /\ UNCHANGED out /\ Quiet
Away(t) == out[t].step = "none" /\ at[t] = "out"

ThreadStep(t) ==
  \/ \E s \in Strings : console_str(t, s) \/ syscall_enter(t, s)
  \/ sys_write(t) \/ syscall_exit(t)
  \/ console_acquire(t) \/ put_char(t) \/ console_release(t)

(* A thread waits for a disk, and the disk's interrupt wakes it.            *)
WaitForDisk(t) == Away(t) /\ intr /\ Elsewhere(Block(t))
DiskInterrupt(t) == Away(t) /\ Elsewhere(DeviceInterrupt(t))

ConsoleNext ==
  \/ \E t \in Threads \ {Idle} : ThreadStep(t) \/ WaitForDisk(t) \/ DiskInterrupt(t)
  \/ cpu_idle_print \/ put_char(Idle) \/ cpu_idle_halt
  \/ \E c \in Typed : key_echo(c)
  \/ \E t \in Threads : Away(Main) /\ Elsewhere(thread_start(t))
  \/ Away(Main) /\ Elsewhere(local_irq_enable(Main))
  \/ \E t \in Threads : Elsewhere(Resume(t))
  \/ Elsewhere(clock_service)
  \/ Elsewhere(cpu_idle)

ConsoleSpec == ConsoleInit /\ [][ConsoleNext]_conVars

-----------------------------------------------------------------------------
(* Where the cursor is, or will be once the character is through.           *)
Shown == IF harm # "none" \/ hung THEN -1
         ELSE IF \E t \in Threads : MidChar(t) /\ out[t].step \in Writes \union {"sel_wh", "sel_wl"}
           THEN out[CHOOSE t \in Threads : out[t].step \in Writes \union {"sel_wh", "sel_wl"}].bx
           ELSE Cursor

T == INSTANCE Terminal WITH pos <- Shown

(* Up to the first time that two characters are put at the same time, the   *)
(* nine accesses of put_char() act as one, and the cursor moves as on a     *)
(* terminal.                                                                *)
ActsAsTerminal == T!Spec

(* Threads that print with the console's functions do not disturb each      *)
(* other: of two characters that are put at the same time, at most one is   *)
(* a thread's own, the other is cpu_idle's or the keyboard's.  And nothing  *)
(* comes between the characters that a system call prints: although         *)
(* sema_down() may have switched threads, interrupts are off again.         *)
LockersTakeTurns ==
  \A t \in Threads \ {Idle} :
    MidChar(t) => /\ \A u \in Threads \ {Idle, t} : out[u].step \in {"none", "write", "lock", "iret"}
                  /\ out[t].trap /\ ~hung => current_task = t /\ ~intr

(* The kernel is stopped by a store beyond the video segment only when a    *)
(* backspace was put at the start of the screen, or when a character put by *)
(* somebody else came between selecting a register and using it.  Stale     *)
(* cursors, and cursors put together from two, stay within the segment.     *)
FaultNeedsSplit ==
  hung => \/ harm = "split"
          \/ LET o == out[current_task] IN o.step = "store" /\ Head(o.rest) = "b" /\ o.bx = 0
          \/ "b" \in Typed /\ Cursor = 0
=============================================================================
