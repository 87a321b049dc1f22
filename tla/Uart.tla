-------------------------------- MODULE Uart --------------------------------
(***************************************************************************)
(* Output through the UART (kernel/uart.c, consolewrite() of               *)
(* kernel/console.c): writers that sleep for room in the transmit buffer,  *)
(* the interrupt handler that drains it, and the two that write to the     *)
(* device without uart_tx_lock: the echo of input characters and the       *)
(* kernel's printf().                                                      *)
(*                                                                         *)
(* A test of the device's status and the write of its data register are    *)
(* separate steps: other harts write to it in between.  The buffer and the *)
(* device are abstracted to how many characters they hold.  What the       *)
(* handler does with input is in module Console.  A machine that has       *)
(* panicked stops and is not modelled.                                     *)
(***************************************************************************)
EXTENDS Naturals, FiniteSets

CONSTANTS
  Writers, None,
  UART_TX_BUF_SIZE,
  Sizes,              \* byte counts asked of write()
  RxDepth             \* characters the device holds before the user waits

Intr == "uartintr"
Printf == "printf"
Actors == Writers \cup {Intr, Printf}

ASSUME UartAssumption ==
  /\ Writers \cap {Intr, Printf} = {} /\ None \notin Actors
  /\ UART_TX_BUF_SIZE \in Nat \ {0} /\ RxDepth \in Nat \ {0}
  /\ Sizes \subseteq Nat

VARIABLES
  lock, n,   \* uart_tx_lock, and uart_tx_w - uart_tx_r
  fifo,      \* characters the device has to send; THR is empty when none
  txirq,     \* the device has raised its transmit interrupt
  rx,        \* characters the device has received
  pc,        \* where each writer, the handler and printf() are
  echo,      \* characters of the handler's echo left to send
  left       \* n - i of consolewrite()

device == <<fifo, txirq, rx>>
vars == <<lock, n, device, pc, echo, left>>

Init ==
  /\ lock = None /\ n = 0
  /\ fifo = 0 /\ txirq = FALSE /\ rx = 0
  /\ pc = [a \in Actors |-> "idle"]
  /\ echo = 0
  /\ left = [p \in Writers |-> 0]

Goto(a, point) == pc' = [pc EXCEPT ![a] = point]

-----------------------------------------------------------------------------
\* The device and the interrupt controller.

\* The user presses a key.
Press ==
  /\ rx < RxDepth
  /\ rx' = rx + 1
  /\ UNCHANGED <<lock, n, fifo, txirq, pc, echo, left>>

\* A character leaves the device; an empty transmitter interrupts.
Send ==
  /\ fifo > 0
  /\ fifo' = fifo - 1
  /\ txirq' = (fifo = 1)
  /\ UNCHANGED <<lock, n, rx, pc, echo, left>>

\* A write of THR: the transmitter is busy and its interrupt is withdrawn.
Transmit == fifo' = fifo + 1 /\ txirq' = FALSE /\ UNCHANGED rx

\* devintr(): the PLIC gives the interrupt to one hart, and the next one only
\* when that hart has completed it.
Claim ==
  /\ pc[Intr] = "idle"
  /\ txirq \/ rx > 0
  /\ txirq' = FALSE
  /\ Goto(Intr, "getc")
  /\ UNCHANGED <<lock, n, fifo, rx, echo, left>>

-----------------------------------------------------------------------------
\* The transmit buffer.

\* MUTANT: uartstart() wakes nobody.
UartStartSilent(a) ==
  /\ pc[a] = "start"
  /\ IF n = 0 \/ fifo > 0
     THEN /\ lock' = None
          /\ Goto(a, IF a = Intr THEN "idle" ELSE "write")
          /\ UNCHANGED n
     ELSE /\ n' = n - 1
          /\ Goto(a, "thr")
          /\ UNCHANGED lock
  /\ UNCHANGED <<device, echo, left>>

\* uartstart(), one turn: nothing to send or THR full, return and release the
\* lock; else take a character and wake the writers ...
UartStart(a) ==
  /\ pc[a] = "start"
  /\ IF n = 0 \/ fifo > 0
     THEN /\ lock' = None
          /\ Goto(a, IF a = Intr THEN "idle" ELSE "write")
          /\ UNCHANGED n
     ELSE /\ n' = n - 1
          /\ pc' = [b \in Actors |-> IF b = a THEN "thr"
                      ELSE IF pc[b] = "asleep" THEN "putc" ELSE pc[b]]
          /\ UNCHANGED lock
  /\ UNCHANGED <<device, echo, left>>

\* ... and write it to THR.
UartThr(a) ==
  /\ pc[a] = "thr"
  /\ Transmit
  /\ Goto(a, "start")
  /\ UNCHANGED <<lock, n, echo, left>>

\* write() on the console device: filewrite(), consolewrite().
StartWrite(p, k) ==
  /\ pc[p] = "idle"
  /\ left' = [left EXCEPT ![p] = k]
  /\ Goto(p, "write")
  /\ UNCHANGED <<lock, n, device, echo>>

\* The loop of consolewrite(): copyin() the next character, or return; it
\* also returns when copyin() fails.
ConsoleWrite(p) ==
  /\ pc[p] = "write"
  /\ \/ /\ left[p] > 0
        /\ left' = [left EXCEPT ![p] = @ - 1]
        /\ Goto(p, "putc")
     \/ /\ left' = [left EXCEPT ![p] = 0]
        /\ Goto(p, "idle")
  /\ UNCHANGED <<lock, n, device, echo>>

\* MUTANT: the full test is off by one.
UartPutcOverrun(p) ==
  /\ pc[p] = "putc" /\ lock = None
  /\ IF n = UART_TX_BUF_SIZE + 1
     THEN Goto(p, "asleep") /\ UNCHANGED <<lock, n>>
     ELSE lock' = p /\ n' = n + 1 /\ Goto(p, "start")
  /\ UNCHANGED <<device, echo, left>>

\* MUTANT: uartputc() leaves the sending to the interrupt handler.
UartPutcNoStart(p) ==
  /\ pc[p] = "putc" /\ lock = None
  /\ IF n = UART_TX_BUF_SIZE
     THEN Goto(p, "asleep") /\ UNCHANGED n
     ELSE n' = n + 1 /\ Goto(p, "write")
  /\ UNCHANGED <<lock, device, echo, left>>

\* uartputc(): sleep while the buffer is full, else store the character and go
\* on to uartstart() with the lock.  It does not look at p->killed: kill()
\* makes it test again, and sleep again.
UartPutc(p) ==
  /\ pc[p] = "putc" /\ lock = None
  /\ IF n = UART_TX_BUF_SIZE
     THEN Goto(p, "asleep") /\ UNCHANGED <<lock, n>>
     ELSE lock' = p /\ n' = n + 1 /\ Goto(p, "start")
  /\ UNCHANGED <<device, echo, left>>

Kill(p) ==
  /\ pc[p] = "asleep"
  /\ Goto(p, "putc")
  /\ UNCHANGED <<lock, n, device, echo, left>>

-----------------------------------------------------------------------------
\* Output that does not use the buffer: uartputc_sync() spins until THR is
\* empty, with interrupts off, then writes to it.

PrintfWait ==
  /\ pc[Printf] = "idle" /\ fifo = 0
  /\ Goto(Printf, "put")
  /\ UNCHANGED <<lock, n, device, echo, left>>

PrintfPut ==
  /\ pc[Printf] = "put"
  /\ Transmit
  /\ Goto(Printf, "idle")
  /\ UNCHANGED <<lock, n, echo, left>>

EchoWait ==
  /\ pc[Intr] = "echo" /\ fifo = 0
  /\ Goto(Intr, "put")
  /\ UNCHANGED <<lock, n, device, echo, left>>

EchoPut ==
  /\ pc[Intr] = "put"
  /\ Transmit
  /\ echo' = echo - 1
  /\ Goto(Intr, IF echo = 1 THEN "getc" ELSE "echo")
  /\ UNCHANGED <<lock, n, left>>

\* consputc(): a stored key is echoed, an erased one is '\b', ' ', '\b', and
\* some keys have no echo.
Echoes == {0, 1, 3}

\* MUTANT: uartintr() returns when it has served the input.
UartGetcOnly(k) ==
  /\ pc[Intr] = "getc"
  /\ IF rx = 0
     THEN Goto(Intr, "tx") /\ UNCHANGED <<rx, echo>>
     ELSE rx' = 0 /\ Goto(Intr, "idle") /\ UNCHANGED echo
  /\ UNCHANGED <<lock, n, fifo, txirq, left>>

\* uartintr(): consoleintr() for each character received, then uartstart().
UartGetc(k) ==
  /\ pc[Intr] = "getc"
  /\ IF rx = 0
     THEN Goto(Intr, "tx") /\ UNCHANGED <<rx, echo>>
     ELSE /\ rx' = rx - 1
          /\ echo' = k
          /\ Goto(Intr, IF k = 0 THEN "getc" ELSE "echo")
  /\ UNCHANGED <<lock, n, fifo, txirq, left>>

IntrLock ==
  /\ pc[Intr] = "tx" /\ lock = None
  /\ lock' = Intr
  /\ Goto(Intr, "start")
  /\ UNCHANGED <<n, device, echo, left>>

-----------------------------------------------------------------------------
UartIntr ==
  \/ Claim \/ IntrLock \/ EchoWait \/ EchoPut
  \/ UartStart(Intr) \/ UartThr(Intr)
  \/ \E k \in Echoes : UartGetc(k)

Running(p) == ConsoleWrite(p) \/ UartPutc(p) \/ UartStart(p) \/ UartThr(p)

Next ==
  \/ Press \/ Send \/ UartIntr \/ PrintfWait \/ PrintfPut
  \/ \E p \in Writers :
       \/ Running(p) \/ Kill(p)
       \/ \E k \in Sizes : StartWrite(p, k)

\* The device sends, an interrupt is taken and its handler runs, a process in
\* the kernel goes on; nothing obliges a user to type, to write or to kill.
Fairness ==
  /\ WF_vars(Send) /\ WF_vars(UartIntr) /\ WF_vars(PrintfPut)
  /\ \A p \in Writers : WF_vars(Running(p))

Spec == Init /\ [][Next]_vars /\ Fairness

-----------------------------------------------------------------------------
\* Properties.

Points == {"idle", "write", "putc", "asleep", "start", "thr", "getc", "echo",
           "put", "tx"}

\* Every variable has its type; the buffer is never overrun, and no more
\* characters reach the device at once than harts can race to it, fewer than
\* its FIFO holds.
TypeOK ==
  /\ lock \in Writers \cup {Intr, None} /\ n \in 0 .. UART_TX_BUF_SIZE
  /\ fifo \in 0 .. 3 /\ txirq \in BOOLEAN /\ rx \in 0 .. RxDepth
  /\ echo \in 0 .. 3 /\ left \in [Writers -> Nat]
  /\ pc \in [Actors -> Points]

\* With uart_tx_lock free, a writer sleeps in uartputc() only while the buffer
\* is full.
NoLostWakeup ==
  \A p \in Writers : pc[p] = "asleep" /\ lock = None => n = UART_TX_BUF_SIZE

\* Characters in the transmit buffer are always somebody's business: the device
\* is sending and will interrupt, has interrupted, or the handler has yet to
\* call uartstart().  Echoes and printf() that slip in between a status test
\* and a write do not change that.
OutputNotStalled ==
  lock = None /\ n > 0 => fifo > 0 \/ txirq \/ pc[Intr] # "idle"

\* Once the user and printf() leave the device alone, a full buffer always
\* gets room again, so that writers asleep in uartputc() are woken.  Which of
\* them takes the room is left to the race for uart_tx_lock.
RoomAgain ==
  <>[][~Press /\ ~PrintfWait]_vars =>
    (n = UART_TX_BUF_SIZE ~> n < UART_TX_BUF_SIZE)
=============================================================================
