---------------------------- MODULE Uart_proofs ----------------------------
(***************************************************************************)
(* Proofs about Uart, for any number of writers and any buffer size: the   *)
(* buffer is never overrun, the device's FIFO never holds more than three  *)
(* characters, no writer sleeps without reason, and output never stops     *)
(* with characters in the buffer and no interrupt to come.                 *)
(***************************************************************************)
EXTENDS Uart, TLAPS

\* Where each actor can be.
Positions ==
  /\ \A p \in Writers :
       pc[p] \in {"idle", "write", "putc", "asleep", "start", "thr"}
  /\ pc[Intr] \in {"idle", "getc", "echo", "put", "tx", "start", "thr"}
  /\ pc[Printf] \in {"idle", "put"}

\* uart_tx_lock is held exactly by the actor inside uartstart().
LockHeld == \A a \in Actors : pc[a] \in {"start", "thr"} <=> lock = a

\* Characters in the device, plus the harts that have seen it empty and are
\* about to write: printf(), the echo, and whoever is in uartstart().
One(b) == IF b THEN 1 ELSE 0
Racing ==
  fifo + One(pc[Printf] = "put") + One(pc[Intr] = "put")
       + One(lock # None /\ pc[lock] = "thr") <= 3

\* An echo that is under way has characters left.
Echoing == pc[Intr] \in {"echo", "put"} => echo > 0

\* Writers sleep only on a full buffer, whoever holds the lock.
SleepsOnFull == \A p \in Writers : pc[p] = "asleep" => n = UART_TX_BUF_SIZE

\* The inductive invariant.
IInv ==
  /\ TypeOK /\ Positions /\ LockHeld /\ Racing /\ Echoing /\ SleepsOnFull
  /\ OutputNotStalled
-----------------------------------------------------------------------------
\* Quiet devices and empty buffers satisfy the invariant.
LEMMA InitIInv == Init => IInv
  <1> SUFFICES ASSUME Init PROVE IInv
      OBVIOUS
  <1> USE UartAssumption DEF Init, Actors, Intr, Printf
  <1>1. TypeOK
      <2>1. txirq \in BOOLEAN
          OBVIOUS
      <2>2. lock \in Writers \cup {Intr, None} /\ n \in 0 .. UART_TX_BUF_SIZE
          OBVIOUS
      <2>3. fifo \in 0 .. 3 /\ rx \in 0 .. RxDepth /\ echo \in 0 .. 3
          OBVIOUS
      <2>4. left \in [Writers -> Nat] /\ pc \in [Actors -> Points]
          BY DEF Points
      <2> QED BY <2>1, <2>2, <2>3, <2>4 DEF TypeOK
  <1>2. Positions
      BY DEF Positions
  <1>3. LockHeld
      BY DEF LockHeld
  <1>4. Racing
      BY DEF Racing, One
  <1>5. Echoing /\ SleepsOnFull /\ OutputNotStalled
      BY DEF Echoing, SleepsOnFull, OutputNotStalled
  <1> QED BY <1>1, <1>2, <1>3, <1>4, <1>5 DEF IInv

\* A key only adds to what the device has received.
LEMMA PressIInv ==
  ASSUME IInv, Press
  PROVE  IInv'
  <1> USE UartAssumption DEF Actors, Intr, Printf, Points, device, Goto, Press
  <1>0. TypeOK /\ Positions /\ LockHeld
      BY DEF IInv
  <1>1. TypeOK'
      <2>1. txirq' \in BOOLEAN
          BY <1>0 DEF TypeOK
      <2>2. lock' \in Writers \cup {Intr, None} /\ n' \in 0 .. UART_TX_BUF_SIZE
          BY <1>0 DEF TypeOK
      <2>3. fifo' \in 0 .. 3 /\ rx' \in 0 .. RxDepth /\ echo' \in 0 .. 3
          BY DEF TypeOK, IInv
      <2>4. left' \in [Writers -> Nat] /\ pc' \in [Actors -> Points]
          BY <1>0 DEF TypeOK
      <2> QED BY <2>1, <2>2, <2>3, <2>4 DEF TypeOK
  <1>2. Positions'
      BY <1>0 DEF Positions
  <1>3. LockHeld'
      BY <1>0 DEF LockHeld
  <1>4. Racing'
      BY DEF IInv, Racing
  <1>5. Echoing'
      BY DEF IInv, Echoing
  <1>6. SleepsOnFull'
      BY DEF IInv, SleepsOnFull
  <1>7. OutputNotStalled'
      BY DEF IInv, OutputNotStalled
  <1> QED BY <1>1, <1>2, <1>3, <1>4, <1>5, <1>6, <1>7 DEF IInv

\* The last character to leave raises the interrupt.
LEMMA SendIInv ==
  ASSUME IInv, Send
  PROVE  IInv'
  <1> USE UartAssumption DEF Actors, Intr, Printf, Points, device, Goto, Send
  <1>0. TypeOK /\ Positions /\ LockHeld
      BY DEF IInv
  <1>1. TypeOK'
      <2>1. txirq' \in BOOLEAN
          OBVIOUS
      <2>2. lock' \in Writers \cup {Intr, None} /\ n' \in 0 .. UART_TX_BUF_SIZE
          BY <1>0 DEF TypeOK
      <2>3. fifo' \in 0 .. 3 /\ rx' \in 0 .. RxDepth /\ echo' \in 0 .. 3
          BY DEF TypeOK, IInv
      <2>4. left' \in [Writers -> Nat] /\ pc' \in [Actors -> Points]
          BY <1>0 DEF TypeOK
      <2> QED BY <2>1, <2>2, <2>3, <2>4 DEF TypeOK
  <1>2. Positions'
      BY <1>0 DEF Positions
  <1>3. LockHeld'
      BY <1>0 DEF LockHeld
  <1>4. Racing'
      BY DEF IInv, TypeOK, Racing, One
  <1>5. Echoing'
      BY DEF IInv, Echoing
  <1>6. SleepsOnFull'
      BY DEF IInv, SleepsOnFull
  <1>7. OutputNotStalled'
      <2>1. CASE fifo = 1
          <3> txirq'
              BY <2>1
          <3> QED BY DEF OutputNotStalled
      <2>2. CASE fifo # 1
          <3> fifo' > 0
              BY <1>0, <2>2 DEF TypeOK
          <3> QED BY DEF OutputNotStalled
      <2> QED BY <2>1, <2>2
  <1> QED BY <1>1, <1>2, <1>3, <1>4, <1>5, <1>6, <1>7 DEF IInv

\* An interrupt that is taken is in the handler's hands.
LEMMA ClaimIInv ==
  ASSUME IInv, Claim
  PROVE  IInv'
  <1> USE UartAssumption DEF Actors, Intr, Printf, Points, device, Goto, Claim
  <1>0. TypeOK /\ Positions /\ LockHeld
      BY DEF IInv
  <1>1. TypeOK'
      <2>1. txirq' \in BOOLEAN
          OBVIOUS
      <2>2. lock' \in Writers \cup {Intr, None} /\ n' \in 0 .. UART_TX_BUF_SIZE
          BY <1>0 DEF TypeOK
      <2>3. fifo' \in 0 .. 3 /\ rx' \in 0 .. RxDepth /\ echo' \in 0 .. 3
          BY DEF TypeOK, IInv
      <2>4. left' \in [Writers -> Nat] /\ pc' \in [Actors -> Points]
          BY <1>0 DEF TypeOK
      <2> QED BY <2>1, <2>2, <2>3, <2>4 DEF TypeOK
  <1>2. Positions'
      BY <1>0 DEF Positions
  <1>3. LockHeld'
      BY <1>0 DEF LockHeld
  <1>4. Racing'
      BY DEF IInv, Racing
  <1>5. Echoing'
      BY DEF Echoing
  <1>6. SleepsOnFull'
      BY DEF IInv, SleepsOnFull
  <1>7. OutputNotStalled'
      BY DEF IInv, TypeOK, OutputNotStalled
  <1> QED BY <1>1, <1>2, <1>3, <1>4, <1>5, <1>6, <1>7 DEF IInv

\* A character on its way becomes one in the device.
LEMMA UartThrIInv ==
  ASSUME IInv, NEW a \in Writers \cup {Intr}, UartThr(a)
  PROVE  IInv'
  <1> USE UartAssumption DEF Actors, Intr, Printf, Points, device, Goto, UartThr, Transmit
  <1>0. TypeOK /\ Positions /\ LockHeld
      BY DEF IInv
  <1>1. TypeOK'
      <2>1. txirq' \in BOOLEAN
          OBVIOUS
      <2>2. lock' \in Writers \cup {Intr, None} /\ n' \in 0 .. UART_TX_BUF_SIZE
          BY <1>0 DEF TypeOK
      <2>3. fifo' \in 0 .. 3 /\ rx' \in 0 .. RxDepth /\ echo' \in 0 .. 3
          BY DEF TypeOK, IInv, Racing, One, LockHeld
      <2>4. left' \in [Writers -> Nat] /\ pc' \in [Actors -> Points]
          BY <1>0 DEF TypeOK
      <2> QED BY <2>1, <2>2, <2>3, <2>4 DEF TypeOK
  <1>2. Positions'
      BY <1>0 DEF Positions
  <1>3. LockHeld'
      BY <1>0 DEF LockHeld
  <1>4. Racing'
      BY DEF IInv, TypeOK, LockHeld, Racing, One
  <1>5. Echoing'
      BY DEF IInv, Echoing
  <1>6. SleepsOnFull'
      BY DEF IInv, SleepsOnFull
  <1>7. OutputNotStalled'
      BY DEF IInv, LockHeld, OutputNotStalled
  <1> QED BY <1>1, <1>2, <1>3, <1>4, <1>5, <1>6, <1>7 DEF IInv

\* uartstart() leaves only an empty buffer or a busy device behind.
LEMMA UartStartIInv ==
  ASSUME IInv, NEW a \in Writers \cup {Intr}, UartStart(a)
  PROVE  IInv'
  <1> USE UartAssumption DEF Actors, Intr, Printf, Points, device, Goto, UartStart
  <1>0. TypeOK /\ Positions /\ LockHeld
      BY DEF IInv
  <1>1. TypeOK'
      <2>1. txirq' \in BOOLEAN
          BY <1>0 DEF TypeOK
      <2>2. lock' \in Writers \cup {Intr, None} /\ n' \in 0 .. UART_TX_BUF_SIZE
          BY <1>0 DEF TypeOK
      <2>3. fifo' \in 0 .. 3 /\ rx' \in 0 .. RxDepth /\ echo' \in 0 .. 3
          BY DEF TypeOK, IInv
      <2>4. left' \in [Writers -> Nat] /\ pc' \in [Actors -> Points]
          BY <1>0 DEF TypeOK
      <2> QED BY <2>1, <2>2, <2>3, <2>4 DEF TypeOK
  <1>2. Positions'
      BY <1>0 DEF TypeOK, Positions
  <1>3. LockHeld'
      BY <1>0 DEF TypeOK, LockHeld
  <1>4. Racing'
      BY DEF IInv, TypeOK, Racing, One
  <1>5. Echoing'
      BY DEF IInv, TypeOK, Echoing
  <1>6. SleepsOnFull'
      BY DEF IInv, TypeOK, SleepsOnFull
  <1>7. OutputNotStalled'
      BY DEF IInv, LockHeld, OutputNotStalled
  <1> QED BY <1>1, <1>2, <1>3, <1>4, <1>5, <1>6, <1>7 DEF IInv

\* A new write() touches neither lock nor device.
LEMMA StartWriteIInv ==
  ASSUME IInv, NEW p \in Writers, NEW k \in Sizes, StartWrite(p, k)
  PROVE  IInv'
  <1> USE UartAssumption DEF Actors, Intr, Printf, Points, device, Goto, StartWrite
  <1>0. TypeOK /\ Positions /\ LockHeld
      BY DEF IInv
  <1>1. TypeOK'
      <2>1. txirq' \in BOOLEAN
          BY <1>0 DEF TypeOK
      <2>2. lock' \in Writers \cup {Intr, None} /\ n' \in 0 .. UART_TX_BUF_SIZE
          BY <1>0 DEF TypeOK
      <2>3. fifo' \in 0 .. 3 /\ rx' \in 0 .. RxDepth /\ echo' \in 0 .. 3
          BY DEF TypeOK, IInv
      <2>4. left' \in [Writers -> Nat] /\ pc' \in [Actors -> Points]
          BY <1>0 DEF TypeOK
      <2> QED BY <2>1, <2>2, <2>3, <2>4 DEF TypeOK
  <1>2. Positions'
      BY <1>0 DEF Positions
  <1>3. LockHeld'
      BY <1>0 DEF LockHeld
  <1>4. Racing'
      BY DEF IInv, Racing
  <1>5. Echoing'
      BY DEF IInv, Echoing
  <1>6. SleepsOnFull'
      BY DEF IInv, SleepsOnFull
  <1>7. OutputNotStalled'
      BY DEF IInv, OutputNotStalled
  <1> QED BY <1>1, <1>2, <1>3, <1>4, <1>5, <1>6, <1>7 DEF IInv

\* The loop of consolewrite() holds no lock.
LEMMA ConsoleWriteIInv ==
  ASSUME IInv, NEW p \in Writers, ConsoleWrite(p)
  PROVE  IInv'
  <1> USE UartAssumption DEF Actors, Intr, Printf, Points, device, Goto, ConsoleWrite
  <1>0. TypeOK /\ Positions /\ LockHeld
      BY DEF IInv
  <1>1. TypeOK'
      <2>1. txirq' \in BOOLEAN
          BY <1>0 DEF TypeOK
      <2>2. lock' \in Writers \cup {Intr, None} /\ n' \in 0 .. UART_TX_BUF_SIZE
          BY <1>0 DEF TypeOK
      <2>3. fifo' \in 0 .. 3 /\ rx' \in 0 .. RxDepth /\ echo' \in 0 .. 3
          BY DEF TypeOK, IInv
      <2>4. left' \in [Writers -> Nat] /\ pc' \in [Actors -> Points]
          BY <1>0 DEF TypeOK
      <2> QED BY <2>1, <2>2, <2>3, <2>4 DEF TypeOK
  <1>2. Positions'
      BY <1>0 DEF TypeOK, Positions
  <1>3. LockHeld'
      BY <1>0 DEF TypeOK, LockHeld
  <1>4. Racing'
      BY DEF IInv, TypeOK, Racing
  <1>5. Echoing'
      BY DEF IInv, TypeOK, Echoing
  <1>6. SleepsOnFull'
      BY DEF IInv, TypeOK, SleepsOnFull
  <1>7. OutputNotStalled'
      BY DEF IInv, TypeOK, OutputNotStalled
  <1> QED BY <1>1, <1>2, <1>3, <1>4, <1>5, <1>6, <1>7 DEF IInv

\* uartputc() stores only when nobody has reason to sleep.
LEMMA UartPutcIInv ==
  ASSUME IInv, NEW p \in Writers, UartPutc(p)
  PROVE  IInv'
  <1> USE UartAssumption DEF Actors, Intr, Printf, Points, device, Goto, UartPutc
  <1>0. TypeOK /\ Positions /\ LockHeld
      BY DEF IInv
  <1>1. TypeOK'
      <2>1. txirq' \in BOOLEAN
          BY <1>0 DEF TypeOK
      <2>2. lock' \in Writers \cup {Intr, None} /\ n' \in 0 .. UART_TX_BUF_SIZE
          BY <1>0 DEF TypeOK
      <2>3. fifo' \in 0 .. 3 /\ rx' \in 0 .. RxDepth /\ echo' \in 0 .. 3
          BY DEF TypeOK, IInv
      <2>4. left' \in [Writers -> Nat] /\ pc' \in [Actors -> Points]
          BY <1>0 DEF TypeOK
      <2> QED BY <2>1, <2>2, <2>3, <2>4 DEF TypeOK
  <1>2. Positions'
      BY <1>0 DEF TypeOK, Positions
  <1>3. LockHeld'
      BY <1>0 DEF TypeOK, LockHeld
  <1>4. Racing'
      BY DEF IInv, TypeOK, Racing
  <1>5. Echoing'
      BY DEF IInv, TypeOK, Echoing
  <1>6. SleepsOnFull'
      BY DEF IInv, TypeOK, SleepsOnFull
  <1>7. OutputNotStalled'
      BY DEF IInv, TypeOK, OutputNotStalled
  <1> QED BY <1>1, <1>2, <1>3, <1>4, <1>5, <1>6, <1>7 DEF IInv

\* A killed sleeper goes back to its test.
LEMMA KillIInv ==
  ASSUME IInv, NEW p \in Writers, Kill(p)
  PROVE  IInv'
  <1> USE UartAssumption DEF Actors, Intr, Printf, Points, device, Goto, Kill
  <1>0. TypeOK /\ Positions /\ LockHeld
      BY DEF IInv
  <1>1. TypeOK'
      <2>1. txirq' \in BOOLEAN
          BY <1>0 DEF TypeOK
      <2>2. lock' \in Writers \cup {Intr, None} /\ n' \in 0 .. UART_TX_BUF_SIZE
          BY <1>0 DEF TypeOK
      <2>3. fifo' \in 0 .. 3 /\ rx' \in 0 .. RxDepth /\ echo' \in 0 .. 3
          BY DEF TypeOK, IInv
      <2>4. left' \in [Writers -> Nat] /\ pc' \in [Actors -> Points]
          BY <1>0 DEF TypeOK
      <2> QED BY <2>1, <2>2, <2>3, <2>4 DEF TypeOK
  <1>2. Positions'
      BY <1>0 DEF Positions
  <1>3. LockHeld'
      BY <1>0 DEF LockHeld
  <1>4. Racing'
      BY DEF IInv, Racing
  <1>5. Echoing'
      BY DEF IInv, Echoing
  <1>6. SleepsOnFull'
      BY DEF IInv, SleepsOnFull
  <1>7. OutputNotStalled'
      BY DEF IInv, OutputNotStalled
  <1> QED BY <1>1, <1>2, <1>3, <1>4, <1>5, <1>6, <1>7 DEF IInv

\* printf() joins the race when the device is empty.
LEMMA PrintfIInv ==
  ASSUME IInv, PrintfWait \/ PrintfPut
  PROVE  IInv'
  <1> USE UartAssumption DEF Actors, Intr, Printf, Points, device, Goto, PrintfWait, PrintfPut, Transmit
  <1>0. TypeOK /\ Positions /\ LockHeld
      BY DEF IInv
  <1>1. TypeOK'
      <2>1. txirq' \in BOOLEAN
          BY <1>0 DEF TypeOK
      <2>2. lock' \in Writers \cup {Intr, None} /\ n' \in 0 .. UART_TX_BUF_SIZE
          BY <1>0 DEF TypeOK
      <2>3. fifo' \in 0 .. 3 /\ rx' \in 0 .. RxDepth /\ echo' \in 0 .. 3
          BY DEF TypeOK, IInv, Racing, One
      <2>4. left' \in [Writers -> Nat] /\ pc' \in [Actors -> Points]
          BY <1>0 DEF TypeOK
      <2> QED BY <2>1, <2>2, <2>3, <2>4 DEF TypeOK
  <1>2. Positions'
      BY <1>0 DEF TypeOK, Positions
  <1>3. LockHeld'
      BY <1>0 DEF TypeOK, LockHeld
  <1>4. Racing'
      BY DEF IInv, TypeOK, Racing, One
  <1>5. Echoing'
      BY DEF IInv, TypeOK, Echoing
  <1>6. SleepsOnFull'
      BY DEF IInv, TypeOK, SleepsOnFull
  <1>7. OutputNotStalled'
      BY DEF IInv, TypeOK, OutputNotStalled
  <1> QED BY <1>1, <1>2, <1>3, <1>4, <1>5, <1>6, <1>7 DEF IInv

\* So does the echo.
LEMMA EchoIInv ==
  ASSUME IInv, EchoWait \/ EchoPut
  PROVE  IInv'
  <1> USE UartAssumption DEF Actors, Intr, Printf, Points, device, Goto, EchoWait, EchoPut, Transmit
  <1>0. TypeOK /\ Positions /\ LockHeld
      BY DEF IInv
  <1>1. TypeOK'
      <2>1. txirq' \in BOOLEAN
          BY <1>0 DEF TypeOK
      <2>2. lock' \in Writers \cup {Intr, None} /\ n' \in 0 .. UART_TX_BUF_SIZE
          BY <1>0 DEF TypeOK
      <2>3. fifo' \in 0 .. 3 /\ rx' \in 0 .. RxDepth /\ echo' \in 0 .. 3
          BY DEF TypeOK, IInv, Racing, One, Echoing
      <2>4. left' \in [Writers -> Nat] /\ pc' \in [Actors -> Points]
          BY <1>0 DEF TypeOK
      <2> QED BY <2>1, <2>2, <2>3, <2>4 DEF TypeOK
  <1>2. Positions'
      BY <1>0 DEF TypeOK, Positions
  <1>3. LockHeld'
      BY <1>0 DEF TypeOK, LockHeld
  <1>4. Racing'
      BY DEF IInv, TypeOK, Racing, One
  <1>5. Echoing'
      BY DEF IInv, TypeOK, Echoing
  <1>6. SleepsOnFull'
      BY DEF IInv, TypeOK, SleepsOnFull
  <1>7. OutputNotStalled'
      BY DEF IInv, TypeOK, OutputNotStalled
  <1> QED BY <1>1, <1>2, <1>3, <1>4, <1>5, <1>6, <1>7 DEF IInv

\* The handler goes on to uartstart() only when no input is left.
LEMMA UartGetcIInv ==
  ASSUME IInv, NEW k \in Echoes, UartGetc(k)
  PROVE  IInv'
  <1> USE UartAssumption DEF Actors, Intr, Printf, Points, device, Goto, UartGetc, Echoes
  <1>0. TypeOK /\ Positions /\ LockHeld
      BY DEF IInv
  <1>1. TypeOK'
      <2>1. txirq' \in BOOLEAN
          BY <1>0 DEF TypeOK
      <2>2. lock' \in Writers \cup {Intr, None} /\ n' \in 0 .. UART_TX_BUF_SIZE
          BY <1>0 DEF TypeOK
      <2>3. fifo' \in 0 .. 3 /\ rx' \in 0 .. RxDepth /\ echo' \in 0 .. 3
          BY DEF TypeOK, IInv
      <2>4. left' \in [Writers -> Nat] /\ pc' \in [Actors -> Points]
          BY <1>0 DEF TypeOK
      <2> QED BY <2>1, <2>2, <2>3, <2>4 DEF TypeOK
  <1>2. Positions'
      BY <1>0 DEF TypeOK, Positions
  <1>3. LockHeld'
      BY <1>0 DEF TypeOK, LockHeld
  <1>4. Racing'
      BY DEF IInv, TypeOK, Racing
  <1>5. Echoing'
      BY DEF IInv, TypeOK, Echoing
  <1>6. SleepsOnFull'
      BY DEF IInv, TypeOK, SleepsOnFull
  <1>7. OutputNotStalled'
      BY DEF IInv, TypeOK, OutputNotStalled
  <1> QED BY <1>1, <1>2, <1>3, <1>4, <1>5, <1>6, <1>7 DEF IInv

\* The handler takes the free lock.
LEMMA IntrLockIInv ==
  ASSUME IInv, IntrLock
  PROVE  IInv'
  <1> USE UartAssumption DEF Actors, Intr, Printf, Points, device, Goto, IntrLock
  <1>0. TypeOK /\ Positions /\ LockHeld
      BY DEF IInv
  <1>1. TypeOK'
      <2>1. txirq' \in BOOLEAN
          BY <1>0 DEF TypeOK
      <2>2. lock' \in Writers \cup {Intr, None} /\ n' \in 0 .. UART_TX_BUF_SIZE
          BY <1>0 DEF TypeOK
      <2>3. fifo' \in 0 .. 3 /\ rx' \in 0 .. RxDepth /\ echo' \in 0 .. 3
          BY DEF TypeOK, IInv
      <2>4. left' \in [Writers -> Nat] /\ pc' \in [Actors -> Points]
          BY <1>0 DEF TypeOK
      <2> QED BY <2>1, <2>2, <2>3, <2>4 DEF TypeOK
  <1>2. Positions'
      BY <1>0 DEF Positions
  <1>3. LockHeld'
      BY <1>0 DEF TypeOK, LockHeld
  <1>4. Racing'
      BY DEF IInv, Racing
  <1>5. Echoing'
      BY DEF Echoing
  <1>6. SleepsOnFull'
      BY DEF IInv, SleepsOnFull
  <1>7. OutputNotStalled'
      BY DEF OutputNotStalled
  <1> QED BY <1>1, <1>2, <1>3, <1>4, <1>5, <1>6, <1>7 DEF IInv

-----------------------------------------------------------------------------
\* Every step of the specification preserves the invariant.
LEMMA NextIInv == IInv /\ [Next]_vars => IInv'
  <1> SUFFICES ASSUME IInv, [Next]_vars PROVE IInv'
      OBVIOUS
  <1>1. CASE Press \/ Send \/ Claim
      BY <1>1, PressIInv, SendIInv, ClaimIInv
  <1>2. CASE \E a \in Writers \cup {Intr} : UartStart(a) \/ UartThr(a)
      BY <1>2, UartStartIInv, UartThrIInv
  <1>3. CASE IntrLock \/ EchoWait \/ EchoPut \/ PrintfWait \/ PrintfPut
      BY <1>3, IntrLockIInv, EchoIInv, PrintfIInv
  <1>4. CASE \E k \in Echoes : UartGetc(k)
      BY <1>4, UartGetcIInv
  <1>5. CASE \E p \in Writers : ConsoleWrite(p) \/ UartPutc(p) \/ Kill(p)
      BY <1>5, ConsoleWriteIInv, UartPutcIInv, KillIInv
  <1>6. CASE \E p \in Writers, k \in Sizes : StartWrite(p, k)
      BY <1>6, StartWriteIInv
  <1>7. CASE UNCHANGED vars
      BY <1>7 DEF IInv, TypeOK, Positions, LockHeld, Racing, One, Echoing,
         SleepsOnFull, OutputNotStalled, vars, device
  <1> QED
      BY <1>1, <1>2, <1>3, <1>4, <1>5, <1>6, <1>7 DEF Next, UartIntr, Running

\* The invariant holds in every reachable state.
THEOREM IInvHolds == Spec => []IInv
  BY InitIInv, NextIInv, PTL DEF Spec

\* uart_tx_buf is never overrun by uartputc(), and uartputc_sync() racing with
\* uartstart() never puts more than three characters into the device's FIFO.
THEOREM TypeCorrect == Spec => []TypeOK
  <1>1. IInv => TypeOK
      BY DEF IInv
  <1> QED BY <1>1, IInvHolds, PTL

\* A writer asleep in uartputc() always has a full buffer to wait for.
THEOREM NoWakeupLost == Spec => []NoLostWakeup
  <1>1. IInv => NoLostWakeup
      BY DEF IInv, SleepsOnFull, NoLostWakeup
  <1> QED BY <1>1, IInvHolds, PTL

\* Characters in the buffer always have an interrupt to come that will send
\* them, whatever echo and printf() do to the device meanwhile.
THEOREM OutputKeepsGoing == Spec => []OutputNotStalled
  <1>1. IInv => OutputNotStalled
      BY DEF IInv
  <1> QED BY <1>1, IInvHolds, PTL
=============================================================================
