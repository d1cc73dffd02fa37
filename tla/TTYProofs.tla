----------------------------- MODULE TTYProofs -----------------------------
(***************************************************************************)
(* The terminal driver keeps its buffers, its order of characters and its  *)
(* interrupts, for any number of threads and CPUs and any buffer size.     *)
(***************************************************************************)
EXTENDS TTY, TLAPS

USE TTYAssumption

-----------------------------------------------------------------------------
(* The inductive invariant *)

Proc == Thread \cup CPU

\* Where the driver's spinlock is held.
Locked == {"write", "w_start", "k_put", "k_wait", "drain", "take"}

\* Where a writer is inside a call.
InCall == {"w_lock", "w_sleep", "w_start", "write"}

Somewhere(label) == \E t \in Proc : pc[t] = label

\* The spinlock has one holder.
LockInv ==
    /\ \A t, u \in Proc : pc[t] \in Locked /\ pc[u] \in Locked => t = u
    /\ slock <=> \E t \in Proc : pc[t] \in Locked

\* Write interrupts are enabled but in the handler, buffered characters have
\* one coming but where one is about to be caused, and writers sleep only
\* behind buffered characters or a handler.
WriteInv ==
    /\ wirqe <=> ~ Somewhere("drain")
    /\ Somewhere("w_start") => write_count > 0
    /\ write_count > 0 /\ ~ Somewhere("w_start") /\ ~ Somewhere("drain") => busy \/ wirq
    /\ (write_count = 0 \/ Somewhere("w_start")) /\ ~ Somewhere("drain")
          => ~ Somewhere("w_sleep")

\* Readers sleep on an empty buffer or a handler is on its way to wake them.
WakeInv ==
    read_count > 0 /\ Somewhere("r_sleep") =>
        \E c \in CPU : pc[c] \in {"take", "r_wake"}

\* What is in the buffers are characters.
BufInv ==
    /\ \A k \in 1 .. write_count : write_buf[At(write_head, k - 1)] \in Character
    /\ \A k \in 1 .. read_count : read_buf[At(read_head, k - 1)] \in 1 .. MaxInput

\* Calls are copied to their end, short ones at once.
CallInv ==
    \A t \in Writer :
        /\ pc[t] \notin InCall => calls[t] = 0 \/ i[t] = Length[t]
        /\ pc[t] \in InCall => calls[t] > 0
        /\ Length[t] <= BufSize => i[t] \in {0, Length[t]}

\* What is read, buffered and waiting in the terminal is what was typed,
Numbered ==
    /\ read_count <= BufSize
    /\ Len(got) + read_count + Len(input) = typed
    /\ \A k \in 1 .. Len(got) : got[k] = k
    /\ \A k \in 1 .. read_count : read_buf[At(read_head, k - 1)] = Len(got) + k
    /\ \A k \in 1 .. Len(input) : input[k] = Len(got) + read_count + k

\* up to the first overrun, and the terminal has told of what it holds.
InputInv ==
    /\ ~ overrun => Numbered
    /\ input # <<>> => rirq \/ \E c \in CPU : pc[c] = "take"

IInv == TypeOK /\ LockInv /\ WriteInv /\ WakeInv /\ BufInv /\ CallInv /\ InputInv
        /\ OutputInOrder

-----------------------------------------------------------------------------
(* Ring buffers *)

LEMMA AtIndex ==
    ASSUME NEW h \in Index, NEW k \in Nat
    PROVE  At(h, k) \in Index
BY DEF At, Index

LEMMA AtFacts ==
    ASSUME NEW h \in Index, NEW k \in 0 .. BufSize
    PROVE  At(h, k) = IF h + k < BufSize THEN h + k ELSE h + k - BufSize
<1>1. h \in Nat /\ k \in Nat /\ BufSize \in Nat /\ BufSize > 0 /\ h < BufSize /\ k <= BufSize
  BY DEF Index
<1>2. CASE h + k < BufSize
  BY <1>1, <1>2 DEF At
<1>3. CASE h + k >= BufSize
  <2>1. PICK m \in Nat : m = h + k - BufSize /\ m < BufSize
    BY <1>1, <1>3
  <2>2. (m + BufSize) % BufSize = m
    BY <1>1, <2>1
  <2> QED BY <1>1, <1>3, <2>1, <2>2 DEF At
<1> QED BY <1>1, <1>2, <1>3

LEMMA ModUnique ==
    ASSUME NEW b \in Nat, b > 0, NEW x \in Nat, NEW s \in Nat, s < b
    PROVE  (x * b + s) % b = s
<1>1. x * b + s \in Nat
  OBVIOUS
<1>2. PICK y \in Nat : y = x * b + s
  BY <1>1
<1>3. PICK d \in Nat, e \in Nat : y = d * b + e /\ e < b /\ e = y % b
  <2>1. y \div b \in Nat /\ y % b \in Nat /\ y % b < b /\ y = (y \div b) * b + (y % b)
    OBVIOUS
  <2> QED BY <2>1
<1>4. ASSUME NEW u \in Nat, NEW v \in Nat, u < v PROVE u * b + b <= v * b
  <2>1. PICK w \in Nat : v = u + 1 + w
    <3>1. v - u - 1 \in Nat /\ v = u + 1 + (v - u - 1)
      BY <1>4
    <3> QED BY <3>1
  <2>2. v * b = u * b + b + w * b /\ w * b >= 0
    BY <2>1
  <2> QED BY <2>2
<1>5. ~ (x < d)
  <2> SUFFICES ASSUME x < d PROVE FALSE
    OBVIOUS
  <2>1. x * b + b <= d * b
    BY <1>4
  <2>2. PICK xb \in Nat, db \in Nat : xb = x * b /\ db = d * b
    OBVIOUS
  <2> QED BY <1>2, <1>3, <2>1, <2>2
<1>6. ~ (d < x)
  <2> SUFFICES ASSUME d < x PROVE FALSE
    OBVIOUS
  <2>1. d * b + b <= x * b
    BY <1>4
  <2>2. PICK xb \in Nat, db \in Nat : xb = x * b /\ db = d * b
    OBVIOUS
  <2> QED BY <1>2, <1>3, <2>1, <2>2
<1>7. x = d
  BY <1>5, <1>6
<1>8. s = e
  <2>1. PICK xb \in Nat : xb = x * b
    OBVIOUS
  <2> QED BY <1>2, <1>3, <1>7, <2>1
<1> QED BY <1>2, <1>3, <1>8

LEMMA AtShift ==
    ASSUME NEW h \in Index, NEW n \in Nat, NEW m \in Nat
    PROVE  At(At(h, n), m) = At(h, n + m)
<1>1. h \in Nat /\ BufSize \in Nat /\ BufSize > 0
  BY DEF Index
<1>2. PICK q \in Nat, r \in Nat : h + n = q * BufSize + r /\ r < BufSize /\ (h + n) % BufSize = r
  <2>1. (h + n) \div BufSize \in Nat /\ (h + n) % BufSize \in Nat
    BY <1>1
  <2>2. h + n = ((h + n) \div BufSize) * BufSize + ((h + n) % BufSize) /\ (h + n) % BufSize < BufSize
    BY <1>1
  <2> QED BY <2>1, <2>2
<1>3. PICK p \in Nat, s \in Nat : r + m = p * BufSize + s /\ s < BufSize /\ (r + m) % BufSize = s
  <2>1. (r + m) \div BufSize \in Nat /\ (r + m) % BufSize \in Nat
    BY <1>1
  <2>2. r + m = ((r + m) \div BufSize) * BufSize + ((r + m) % BufSize) /\ (r + m) % BufSize < BufSize
    BY <1>1
  <2> QED BY <2>1, <2>2
<1>4. h + (n + m) = (q + p) * BufSize + s
  <2>1. (q + p) * BufSize = q * BufSize + p * BufSize
    BY <1>1
  <2>2. PICK qb \in Nat, pb \in Nat : qb = q * BufSize /\ pb = p * BufSize
    BY <1>1
  <2> QED BY <1>1, <1>2, <1>3, <2>1, <2>2
<1>5. ((q + p) * BufSize + s) % BufSize = s
  <2>1. PICK x \in Nat : x = q + p
    OBVIOUS
  <2> QED BY <1>1, <1>3, <2>1, ModUnique
<1> QED BY <1>2, <1>3, <1>4, <1>5 DEF At

\* tty_write fills the empty buffer.
LEMMA FillFacts ==
    ASSUME IInv, NEW t \in Writer, WriteFill(t)
    PROVE  /\ (pc[t] = "w_lock" /\ ~ slock) \/ pc[t] = "write"
           /\ slock' = TRUE /\ pc' = [pc EXCEPT ![t] = "w_start"]
           /\ write_count = 0 /\ i[t] \in Nat /\ i[t] < Length[t] /\ calls[t] \in 1 .. MaxCalls
           /\ Room(t) \in 1 .. BufSize /\ i[t] + Room(t) <= Length[t]
           /\ Length[t] <= BufSize => Room(t) = Length[t] - i[t]
           /\ write_count' = Room(t) /\ i' = [i EXCEPT ![t] = i[t] + Room(t)]
           /\ write_buf' \in [Index -> Character \cup {NoChar}]
           /\ \A k \in 1 .. Room(t) : /\ Char(t, i[t] + k) \in Character
                                      /\ write_buf'[At(write_head, k - 1)] = Char(t, i[t] + k)
           /\ UNCHANGED <<write_head, read_buf, read_head, read_count, device,
                          calls, typed, got, overrun>>
<1>0. TypeOK /\ CallInv
  BY DEF IInv
<1>1. /\ (pc[t] = "w_lock" /\ ~ slock) \/ pc[t] = "write"
      /\ slock' = TRUE /\ pc' = [pc EXCEPT ![t] = "w_start"]
      /\ i[t] < Length[t] /\ ~ (write_count > 0)
      /\ UNCHANGED <<write_head, read_buf, read_head, read_count, device,
                     calls, typed, got, overrun>>
  BY DEF WriteFill, Copying, MustWait, Goto
<1>2. /\ write_count = 0 /\ i[t] \in Nat /\ Length[t] \in Nat /\ BufSize \in Nat /\ BufSize > 0
      /\ write_head \in Index
  BY <1>0, <1>1 DEF TypeOK
<1>3. calls[t] \in 1 .. MaxCalls
  <2>1. calls[t] > 0 /\ calls[t] \in 0 .. MaxCalls
    BY <1>0, <1>1 DEF CallInv, InCall, TypeOK
  <2> QED BY <2>1
<1>4. /\ Room(t) \in 1 .. BufSize /\ i[t] + Room(t) <= Length[t]
      /\ Length[t] <= BufSize => Room(t) = Length[t] - i[t]
  BY <1>1, <1>2 DEF Room
<1>5. PICK r \in 1 .. BufSize : r = Room(t)
  BY <1>4
<1>6. /\ write_count' = r /\ i' = [i EXCEPT ![t] = i[t] + r]
  BY <1>2, <1>5 DEF WriteFill
<1>7. ASSUME NEW k \in 1 .. r PROVE Char(t, i[t] + k) \in Character
  BY <1>2, <1>3 DEF Char, Character
<1> DEFINE Ks(x) == {k \in 1 .. r : At(write_head, k - 1) = x}
<1>8. write_buf' = [x \in Index |-> IF Ks(x) = {} THEN write_buf[x]
                                    ELSE Char(t, i[t] + CHOOSE k \in Ks(x) : TRUE)]
  <2>1. \A k \in 1 .. r : write_count + k - 1 = k - 1
    BY <1>2
  <2>2. \A x : {k \in 1 .. Room(t) : At(write_head, write_count + k - 1) = x} = Ks(x)
    BY <1>5, <2>1
  <2> QED BY <2>2 DEF WriteFill
<1>9. write_buf' \in [Index -> Character \cup {NoChar}]
  <2>1. ASSUME NEW x \in Index, Ks(x) # {}
        PROVE  Char(t, i[t] + CHOOSE k \in Ks(x) : TRUE) \in Character
    <3>1. (CHOOSE k \in Ks(x) : TRUE) \in Ks(x)
      BY <2>1
    <3>2. (CHOOSE k \in Ks(x) : TRUE) \in 1 .. r
      BY <3>1
    <3> QED BY <1>7, <3>2
  <2>2. write_buf \in [Index -> Character \cup {NoChar}]
    BY <1>0 DEF TypeOK
  <2> HIDE DEF Ks
  <2> QED BY <1>8, <2>1, <2>2
<1>10. ASSUME NEW k \in 1 .. r
       PROVE  write_buf'[At(write_head, k - 1)] = Char(t, i[t] + k)
  <2> DEFINE x == At(write_head, k - 1)
  <2>1. x \in Index
    BY <1>2, AtIndex
  <2>2. k \in Ks(x)
    OBVIOUS
  <2>3. ASSUME NEW m \in Ks(x) PROVE m = k
    <3>1. m \in 1 .. r /\ At(write_head, m - 1) = At(write_head, k - 1)
      OBVIOUS
    <3>2. m - 1 \in 0 .. BufSize /\ k - 1 \in 0 .. BufSize /\ m - 1 < BufSize /\ k - 1 < BufSize
      BY <1>2, <3>1
    <3>3. /\ At(write_head, m - 1) = IF write_head + (m - 1) < BufSize THEN write_head + (m - 1)
                                     ELSE write_head + (m - 1) - BufSize
          /\ At(write_head, k - 1) = IF write_head + (k - 1) < BufSize THEN write_head + (k - 1)
                                     ELSE write_head + (k - 1) - BufSize
      BY <1>2, <3>2, AtFacts
    <3>4. write_head \in Nat /\ m \in Nat /\ k \in Nat
      BY <1>2, <3>1 DEF Index
    <3> QED BY ONLY <1>2, <3>1, <3>2, <3>3, <3>4
  <2>4. (CHOOSE j \in Ks(x) : TRUE) = k
    BY <2>2, <2>3
  <2> HIDE DEF Ks
  <2> QED BY <1>8, <2>1, <2>2, <2>4
<1> QED BY <1>1, <1>2, <1>3, <1>4, <1>5, <1>6, <1>7, <1>9, <1>10

\* The oldest character of a buffer that is not empty.
LEMMA OldestFacts ==
    ASSUME IInv, write_count > 0, OutputOldest
    PROVE  /\ write_buf[write_head] \in Character /\ write_buf[write_head] = write_buf[At(write_head, 0)]
           /\ out' = Append(out, write_buf[write_head]) /\ out' \in Seq(Character)
           /\ busy' = TRUE
           /\ write_head' \in Index /\ write_count' \in 0 .. BufSize
           /\ write_count' = write_count - 1
           /\ \A k \in 1 .. write_count' :
                 At(write_head', k - 1) = At(write_head, k)
<1>0. TypeOK /\ BufInv
  BY DEF IInv
<1>1. /\ write_count \in Nat /\ write_count <= BufSize /\ BufSize \in Nat /\ write_head \in Index
      /\ write_head \in Nat /\ write_head < BufSize /\ out \in Seq(Character)
  BY <1>0 DEF TypeOK, Index
<1>2. write_head' = At(write_head, 1) /\ write_count' = write_count - 1 /\ busy' = TRUE
      /\ out' = Append(out, write_buf[write_head])
  BY DEF OutputOldest
<1>3. At(write_head, 0) = write_head
  BY <1>1, AtFacts
<1>4. write_buf[write_head] \in Character
  <2>1. 1 \in 1 .. write_count /\ 1 - 1 = 0
    BY <1>1
  <2> QED BY <1>0, <1>3, <2>1 DEF BufInv
<1>5. write_head' \in Index
  BY <1>1, <1>2, AtIndex
<1>6. ASSUME NEW k \in 1 .. write_count' PROVE At(write_head', k - 1) = At(write_head, k)
  <2>1. k \in Nat /\ k >= 1 /\ k < BufSize
    BY <1>1, <1>2
  <2>2. /\ At(write_head, 1) = IF write_head + 1 < BufSize THEN write_head + 1
                               ELSE write_head + 1 - BufSize
        /\ At(write_head, k) = IF write_head + k < BufSize THEN write_head + k
                               ELSE write_head + k - BufSize
    BY <1>1, <2>1, AtFacts
  <2>3. PICK h \in Index : h = write_head'
    BY <1>5
  <2>4. At(h, k - 1) = IF h + (k - 1) < BufSize THEN h + (k - 1) ELSE h + (k - 1) - BufSize
    BY <1>1, <2>1, AtFacts
  <2> QED BY <1>1, <1>2, <2>1, <2>2, <2>3, <2>4
<1> QED BY <1>1, <1>2, <1>3, <1>4, <1>5, <1>6

\* tty_read takes the n oldest characters.
LEMMA ReadFacts ==
    ASSUME IInv, NEW t \in Reader, ReadReturn(t)
    PROVE  \E n \in 1 .. read_count :
              /\ Contents(read_buf, read_head, n) \in Seq(1 .. MaxInput)
              /\ Len(Contents(read_buf, read_head, n)) = n
              /\ \A k \in 1 .. n :
                    Contents(read_buf, read_head, n)[k] = read_buf[At(read_head, k - 1)]
              /\ got' = got \o Contents(read_buf, read_head, n) /\ got' \in Seq(1 .. MaxInput)
              /\ read_head' \in Index /\ read_count' \in 0 .. (BufSize + 1)
              /\ read_count' = read_count - n
              /\ \A k \in 1 .. read_count' : At(read_head', k - 1) = At(read_head, n + k - 1)
<1>0. TypeOK /\ BufInv
  BY DEF IInv
<1>1. /\ read_count \in Nat /\ read_count <= BufSize + 1 /\ BufSize \in Nat /\ read_head \in Index
      /\ read_count > 0 /\ got \in Seq(1 .. MaxInput)
  BY <1>0 DEF TypeOK, ReadReturn
<1>2. PICK n \in 1 .. read_count : n = IF read_count < ReadLen THEN read_count ELSE ReadLen
  BY <1>1
<1>3. /\ got' = got \o Contents(read_buf, read_head, n)
      /\ read_head' = At(read_head, n) /\ read_count' = read_count - n
  BY <1>2 DEF ReadReturn
<1>4. \A k \in 1 .. n : read_buf[At(read_head, k - 1)] \in 1 .. MaxInput
  BY <1>0, <1>1, <1>2 DEF BufInv
<1>5. PICK f : f = Contents(read_buf, read_head, n)
  OBVIOUS
<1>6. f = [k \in 1 .. n |-> read_buf[At(read_head, k - 1)]]
  BY <1>5 DEF Contents
<1>7. f \in Seq(1 .. MaxInput) /\ Len(f) = n /\ \A k \in 1 .. n : f[k] = read_buf[At(read_head, k - 1)]
  <2>1. n \in Nat
    BY <1>1, <1>2
  <2> QED BY <1>4, <1>6, <2>1
<1>8. got' \in Seq(1 .. MaxInput)
  BY <1>1, <1>3, <1>5, <1>7
<1>9. read_head' \in Index /\ read_count' \in 0 .. (BufSize + 1)
  BY <1>1, <1>2, <1>3, AtIndex
<1>10. ASSUME NEW k \in 1 .. read_count' PROVE At(read_head', k - 1) = At(read_head, n + k - 1)
  <2>1. n \in Nat /\ k - 1 \in Nat /\ n + (k - 1) = n + k - 1
    BY <1>1, <1>2, <1>3
  <2>2. At(At(read_head, n), k - 1) = At(read_head, n + (k - 1))
    BY <1>1, <2>1, AtShift
  <2> QED BY <1>3, <2>1, <2>2
<1> QED BY <1>3, <1>5, <1>7, <1>8, <1>9, <1>10

-----------------------------------------------------------------------------
(* Every step preserves the invariant *)

LEMMA TypeStep == IInv /\ [Next]_vars => TypeOK'
<1> SUFFICES ASSUME IInv, [Next]_vars PROVE TypeOK'
  OBVIOUS
<1>0. /\ TypeOK /\ LockInv /\ WriteInv /\ WakeInv /\ BufInv /\ CallInv /\ InputInv
      /\ OutputInOrder
  BY DEF IInv
<1> USE <1>0 DEF TypeOK, Thread, Labels, bufs, device
<1>1. CASE UNCHANGED vars
  BY <1>1 DEF vars
<1>2. ASSUME Finish PROVE TypeOK'
  BY <1>2 DEF Finish
<1>3. ASSUME Type PROVE TypeOK'
  BY <1>3 DEF Type
<1>4. ASSUME NEW t \in Writer, WriteCall(t) PROVE TypeOK'
  BY <1>4 DEF WriteCall, Goto
<1>5. ASSUME NEW t \in Writer, WriteSleep(t) PROVE TypeOK'
  BY <1>5 DEF WriteSleep, Copying, MustWait, Release, Goto
<1>6. ASSUME NEW t \in Writer, WriteFill(t) PROVE TypeOK'
  <2>1. /\ slock' = TRUE /\ pc' = [pc EXCEPT ![t] = "w_start"]
        /\ write_count' = Room(t) /\ i' = [i EXCEPT ![t] = i[t] + Room(t)]
        /\ Room(t) \in 1 .. BufSize /\ i[t] + Room(t) <= Length[t]
        /\ write_buf' \in [Index -> Character \cup {NoChar}]
        /\ UNCHANGED <<write_head, read_buf, read_head, read_count, device,
                       calls, typed, got, overrun>>
    BY <1>6, FillFacts
  <2>2. write_count' \in 0 .. BufSize /\ i' \in [Writer -> Nat]
        /\ \A u \in Writer : i'[u] <= Length[u]
    BY <2>1
  <2> QED BY <2>1, <2>2
<1>7. ASSUME NEW t \in Writer, WriteStart(t) PROVE TypeOK'
  <2>1. write_count > 0
    BY <1>7 DEF WriteInv, Somewhere, Proc, WriteStart
  <2>2. /\ write_head' \in Index /\ write_count' \in 0 .. BufSize /\ out' \in Seq(Character)
        /\ busy' \in BOOLEAN
    <3>1. CASE busy
      BY <1>7, <3>1 DEF WriteStart, StartOutput
    <3>2. CASE ~ busy
      BY <1>7, <2>1, <3>2, OldestFacts DEF WriteStart, StartOutput
    <3> QED BY <3>1, <3>2
  <2> QED BY <1>7, <2>2 DEF WriteStart, Goto
<1>8. ASSUME NEW t \in Writer, WriteReturn(t) PROVE TypeOK'
  BY <1>8 DEF WriteReturn, Release, Goto
<1>9. ASSUME NEW t \in Reader, ReadCall(t) PROVE TypeOK'
  BY <1>9 DEF ReadCall, Goto
<1>10. ASSUME NEW t \in Reader, ReadSleep(t) PROVE TypeOK'
  BY <1>10 DEF ReadSleep, Goto
<1>11. ASSUME NEW t \in Reader, ReadReturn(t) PROVE TypeOK'
  <2>1. read_head' \in Index /\ read_count' \in 0 .. (BufSize + 1) /\ got' \in Seq(1 .. MaxInput)
    BY <1>11, ReadFacts
  <2> QED BY <1>11, <2>1 DEF ReadReturn, Goto
<1>12. ASSUME NEW t \in Printer, Kprintf(t) PROVE TypeOK'
  BY <1>12 DEF Kprintf, Acquire, Goto
<1>13. ASSUME NEW t \in Printer, KprintfPut(t) PROVE TypeOK'
  BY <1>13 DEF KprintfPut, Goto
<1>14. ASSUME NEW t \in Printer, KprintfReturn(t) PROVE TypeOK'
  BY <1>14 DEF KprintfReturn, Release, Goto
<1>15. ASSUME NEW c \in CPU, Interrupt(c) PROVE TypeOK'
  BY <1>15 DEF Interrupt, Goto
<1>16. ASSUME NEW c \in CPU, Wirq(c) PROVE TypeOK'
  BY <1>16 DEF Wirq, Acquire, Goto
<1>17. ASSUME NEW c \in CPU, Drain(c) PROVE TypeOK'
  <2>1. /\ write_head' \in Index /\ write_count' \in 0 .. BufSize /\ out' \in Seq(Character)
        /\ busy' = TRUE
    BY <1>17, OldestFacts DEF Drain
  <2> QED BY <1>17, <2>1 DEF Drain
<1>18. ASSUME NEW c \in CPU, DrainEnd(c) PROVE TypeOK'
  BY <1>18 DEF DrainEnd, WakeAll, Emptied, Release
<1>19. ASSUME NEW c \in CPU, RirqCheck(c) PROVE TypeOK'
  BY <1>19 DEF RirqCheck, Goto
<1>20. ASSUME NEW c \in CPU, Rirq(c) PROVE TypeOK'
  BY <1>20 DEF Rirq, Acquire, Goto
<1>21. ASSUME NEW c \in CPU, Take(c) PROVE TypeOK'
  <2>1. /\ input' = Tail(input) /\ input' \in Seq(1 .. MaxInput) /\ Head(input) \in 1 .. MaxInput
    BY <1>21 DEF Take
  <2>2. read_buf' \in [Index -> 0 .. MaxInput] /\ read_count' \in 0 .. (BufSize + 1)
    <3>1. CASE read_count > BufSize
      BY <1>21, <3>1 DEF Take
    <3>2. CASE ~ (read_count > BufSize)
      <4>1. At(read_head, read_count) \in Index
        BY AtIndex
      <4>2. /\ read_buf' = [read_buf EXCEPT ![At(read_head, read_count)] = Head(input)]
            /\ read_count' = read_count + 1
        BY <1>21, <3>2 DEF Take
      <4> QED BY <2>1, <3>2, <4>1, <4>2, SMTT(30)
    <3> QED BY <3>1, <3>2
  <2>3. overrun' \in BOOLEAN
    BY <1>21 DEF Take
  <2> QED BY <1>21, <2>1, <2>2, <2>3 DEF Take
<1>22. ASSUME NEW c \in CPU, TakeEnd(c) PROVE TypeOK'
  BY <1>22 DEF TakeEnd, Release, Goto
<1>23. ASSUME NEW c \in CPU, WakeReaders(c) PROVE TypeOK'
  BY <1>23 DEF WakeReaders, WakeAll
<1> QED BY <1>1, <1>2, <1>3, <1>4, <1>5, <1>6, <1>7, <1>8, <1>9, <1>10, <1>11, <1>12,
         <1>13, <1>14, <1>15, <1>16, <1>17, <1>18, <1>19, <1>20, <1>21, <1>22, <1>23 DEF Next
\* The spinlock of the driver excludes.
LEMMA LockStep == IInv /\ [Next]_vars => LockInv'
<1> SUFFICES ASSUME IInv, [Next]_vars PROVE LockInv'
  OBVIOUS
<1>0. /\ TypeOK /\ LockInv /\ WriteInv /\ WakeInv /\ BufInv /\ CallInv /\ InputInv
      /\ OutputInOrder
  BY DEF IInv
<1> USE <1>0 DEF LockInv, Locked, TypeOK, Thread, Proc, bufs, device
<1>1. CASE UNCHANGED vars
  BY <1>1 DEF vars
<1>2. ASSUME Finish PROVE LockInv'
  BY <1>2 DEF Finish
<1>3. ASSUME Type PROVE LockInv'
  BY <1>3 DEF Type
<1>4. ASSUME NEW t \in Writer, WriteCall(t) PROVE LockInv'
  BY <1>4 DEF WriteCall, Goto
<1>5. ASSUME NEW t \in Writer, WriteSleep(t) PROVE LockInv'
  BY <1>5 DEF WriteSleep, Copying, MustWait, Release, Goto
<1>6. ASSUME NEW t \in Writer, WriteFill(t) PROVE LockInv'
  <2>1. /\ (pc[t] = "w_lock" /\ ~ slock) \/ pc[t] = "write"
        /\ slock' = TRUE /\ pc' = [pc EXCEPT ![t] = "w_start"]
    BY <1>6, FillFacts
  <2> QED BY <2>1
<1>7. ASSUME NEW t \in Writer, WriteStart(t) PROVE LockInv'
  BY <1>7 DEF WriteStart, StartOutput, Goto
<1>8. ASSUME NEW t \in Writer, WriteReturn(t) PROVE LockInv'
  BY <1>8 DEF WriteReturn, Release, Goto
<1>9. ASSUME NEW t \in Reader, ReadCall(t) PROVE LockInv'
  BY <1>9 DEF ReadCall, Goto
<1>10. ASSUME NEW t \in Reader, ReadSleep(t) PROVE LockInv'
  BY <1>10 DEF ReadSleep, Goto
<1>11. ASSUME NEW t \in Reader, ReadReturn(t) PROVE LockInv'
  BY <1>11 DEF ReadReturn, Goto
<1>12. ASSUME NEW t \in Printer, Kprintf(t) PROVE LockInv'
  BY <1>12 DEF Kprintf, Acquire, Goto
<1>13. ASSUME NEW t \in Printer, KprintfPut(t) PROVE LockInv'
  BY <1>13 DEF KprintfPut, Goto
<1>14. ASSUME NEW t \in Printer, KprintfReturn(t) PROVE LockInv'
  BY <1>14 DEF KprintfReturn, Release, Goto
<1>15. ASSUME NEW c \in CPU, Interrupt(c) PROVE LockInv'
  BY <1>15 DEF Interrupt, Goto
<1>16. ASSUME NEW c \in CPU, Wirq(c) PROVE LockInv'
  BY <1>16 DEF Wirq, Acquire, Goto
<1>17. ASSUME NEW c \in CPU, Drain(c) PROVE LockInv'
  BY <1>17 DEF Drain
<1>18. ASSUME NEW c \in CPU, DrainEnd(c) PROVE LockInv'
  BY <1>18 DEF DrainEnd, WakeAll, Emptied, Release
<1>19. ASSUME NEW c \in CPU, RirqCheck(c) PROVE LockInv'
  BY <1>19 DEF RirqCheck, Goto
<1>20. ASSUME NEW c \in CPU, Rirq(c) PROVE LockInv'
  BY <1>20 DEF Rirq, Acquire, Goto
<1>21. ASSUME NEW c \in CPU, Take(c) PROVE LockInv'
  BY <1>21 DEF Take
<1>22. ASSUME NEW c \in CPU, TakeEnd(c) PROVE LockInv'
  BY <1>22 DEF TakeEnd, Release, Goto
<1>23. ASSUME NEW c \in CPU, WakeReaders(c) PROVE LockInv'
  BY <1>23 DEF WakeReaders, WakeAll
<1> QED BY <1>1, <1>2, <1>3, <1>4, <1>5, <1>6, <1>7, <1>8, <1>9, <1>10, <1>11, <1>12,
         <1>13, <1>14, <1>15, <1>16, <1>17, <1>18, <1>19, <1>20, <1>21, <1>22, <1>23 DEF Next

\* Calls are copied to their end.
LEMMA CallStep == IInv /\ [Next]_vars => CallInv'
<1> SUFFICES ASSUME IInv, [Next]_vars PROVE CallInv'
  OBVIOUS
<1>0. /\ TypeOK /\ LockInv /\ WriteInv /\ WakeInv /\ BufInv /\ CallInv /\ InputInv
      /\ OutputInOrder
  BY DEF IInv
<1> USE <1>0 DEF CallInv, InCall, TypeOK, Thread, Proc, bufs, device
<1>1. CASE UNCHANGED vars
  BY <1>1 DEF vars
<1>2. ASSUME Finish PROVE CallInv'
  BY <1>2 DEF Finish
<1>3. ASSUME Type PROVE CallInv'
  BY <1>3 DEF Type
<1>4. ASSUME NEW t \in Writer, WriteCall(t) PROVE CallInv'
  BY <1>4 DEF WriteCall, Goto
<1>5. ASSUME NEW t \in Writer, WriteSleep(t) PROVE CallInv'
  BY <1>5 DEF WriteSleep, Copying, MustWait, Release, Goto
<1>6. ASSUME NEW t \in Writer, WriteFill(t) PROVE CallInv'
  <2>1. /\ (pc[t] = "w_lock" /\ ~ slock) \/ pc[t] = "write"
        /\ pc' = [pc EXCEPT ![t] = "w_start"]
        /\ i[t] \in Nat /\ i[t] < Length[t] /\ Room(t) \in 1 .. BufSize
        /\ i[t] + Room(t) <= Length[t] /\ (Length[t] <= BufSize => Room(t) = Length[t] - i[t])
        /\ i' = [i EXCEPT ![t] = i[t] + Room(t)] /\ calls' = calls
    BY <1>6, FillFacts
  <2> QED BY <2>1, SMTT(30)
<1>7. ASSUME NEW t \in Writer, WriteStart(t) PROVE CallInv'
  BY <1>7 DEF WriteStart, StartOutput, Goto
<1>8. ASSUME NEW t \in Writer, WriteReturn(t) PROVE CallInv'
  BY <1>8 DEF WriteReturn, Release, Goto
<1>9. ASSUME NEW t \in Reader, ReadCall(t) PROVE CallInv'
  BY <1>9 DEF ReadCall, Goto
<1>10. ASSUME NEW t \in Reader, ReadSleep(t) PROVE CallInv'
  BY <1>10 DEF ReadSleep, Goto
<1>11. ASSUME NEW t \in Reader, ReadReturn(t) PROVE CallInv'
  BY <1>11 DEF ReadReturn, Goto
<1>12. ASSUME NEW t \in Printer, Kprintf(t) PROVE CallInv'
  BY <1>12 DEF Kprintf, Acquire, Goto
<1>13. ASSUME NEW t \in Printer, KprintfPut(t) PROVE CallInv'
  BY <1>13 DEF KprintfPut, Goto
<1>14. ASSUME NEW t \in Printer, KprintfReturn(t) PROVE CallInv'
  BY <1>14 DEF KprintfReturn, Release, Goto
<1>15. ASSUME NEW c \in CPU, Interrupt(c) PROVE CallInv'
  BY <1>15 DEF Interrupt, Goto
<1>16. ASSUME NEW c \in CPU, Wirq(c) PROVE CallInv'
  BY <1>16 DEF Wirq, Acquire, Goto
<1>17. ASSUME NEW c \in CPU, Drain(c) PROVE CallInv'
  BY <1>17 DEF Drain
<1>18. ASSUME NEW c \in CPU, DrainEnd(c) PROVE CallInv'
  BY <1>18 DEF DrainEnd, WakeAll, Emptied, Release
<1>19. ASSUME NEW c \in CPU, RirqCheck(c) PROVE CallInv'
  BY <1>19 DEF RirqCheck, Goto
<1>20. ASSUME NEW c \in CPU, Rirq(c) PROVE CallInv'
  BY <1>20 DEF Rirq, Acquire, Goto
<1>21. ASSUME NEW c \in CPU, Take(c) PROVE CallInv'
  BY <1>21 DEF Take
<1>22. ASSUME NEW c \in CPU, TakeEnd(c) PROVE CallInv'
  BY <1>22 DEF TakeEnd, Release, Goto
<1>23. ASSUME NEW c \in CPU, WakeReaders(c) PROVE CallInv'
  BY <1>23 DEF WakeReaders, WakeAll
<1> QED BY <1>1, <1>2, <1>3, <1>4, <1>5, <1>6, <1>7, <1>8, <1>9, <1>10, <1>11, <1>12,
         <1>13, <1>14, <1>15, <1>16, <1>17, <1>18, <1>19, <1>20, <1>21, <1>22, <1>23 DEF Next

\* An interrupt is coming for the characters in the write buffer.
LEMMA WriteStep == IInv /\ [Next]_vars => WriteInv'
<1> SUFFICES ASSUME IInv, [Next]_vars PROVE WriteInv'
  OBVIOUS
<1>0. /\ TypeOK /\ LockInv /\ WriteInv /\ WakeInv /\ BufInv /\ CallInv /\ InputInv
      /\ OutputInOrder
  BY DEF IInv
<1> USE <1>0 DEF WriteInv, Somewhere, LockInv, Locked, TypeOK, Thread, Proc, bufs, device
<1>1. CASE UNCHANGED vars
  BY <1>1 DEF vars
<1>2. ASSUME Finish PROVE WriteInv'
  BY <1>2 DEF Finish
<1>3. ASSUME Type PROVE WriteInv'
  BY <1>3 DEF Type
<1>4. ASSUME NEW t \in Writer, WriteCall(t) PROVE WriteInv'
  BY <1>4 DEF WriteCall, Goto
<1>5. ASSUME NEW t \in Writer, WriteSleep(t) PROVE WriteInv'
  BY <1>5 DEF WriteSleep, Copying, MustWait, Release, Goto
<1>6. ASSUME NEW t \in Writer, WriteFill(t) PROVE WriteInv'
  <2>1. /\ (pc[t] = "w_lock" /\ ~ slock) \/ pc[t] = "write"
        /\ pc' = [pc EXCEPT ![t] = "w_start"]
        /\ write_count = 0 /\ Room(t) \in 1 .. BufSize /\ write_count' = Room(t)
        /\ UNCHANGED device
    BY <1>6, FillFacts
  <2> QED BY <2>1
<1>7. ASSUME NEW t \in Writer, WriteStart(t) PROVE WriteInv'
  <2>1. write_count > 0
    BY <1>7 DEF WriteStart
  <2>2. /\ busy' = TRUE /\ UNCHANGED <<wirq, wirqe>> /\ pc' = [pc EXCEPT ![t] = "write"]
    BY <1>7 DEF WriteStart, StartOutput, OutputOldest, Goto
  <2> QED BY <1>7, <2>2 DEF WriteStart
<1>8. ASSUME NEW t \in Writer, WriteReturn(t) PROVE WriteInv'
  BY <1>8 DEF WriteReturn, Release, Goto
<1>9. ASSUME NEW t \in Reader, ReadCall(t) PROVE WriteInv'
  BY <1>9 DEF ReadCall, Goto
<1>10. ASSUME NEW t \in Reader, ReadSleep(t) PROVE WriteInv'
  BY <1>10 DEF ReadSleep, Goto
<1>11. ASSUME NEW t \in Reader, ReadReturn(t) PROVE WriteInv'
  BY <1>11 DEF ReadReturn, Goto
<1>12. ASSUME NEW t \in Printer, Kprintf(t) PROVE WriteInv'
  BY <1>12 DEF Kprintf, Acquire, Goto
<1>13. ASSUME NEW t \in Printer, KprintfPut(t) PROVE WriteInv'
  BY <1>13 DEF KprintfPut, Goto
<1>14. ASSUME NEW t \in Printer, KprintfReturn(t) PROVE WriteInv'
  BY <1>14 DEF KprintfReturn, Release, Goto
<1>15. ASSUME NEW c \in CPU, Interrupt(c) PROVE WriteInv'
  BY <1>15 DEF Interrupt, Goto
<1>16. ASSUME NEW c \in CPU, Wirq(c) PROVE WriteInv'
  BY <1>16 DEF Wirq, Acquire, Goto
<1>17. ASSUME NEW c \in CPU, Drain(c) PROVE WriteInv'
  BY <1>17 DEF Drain, OutputOldest
<1>18. ASSUME NEW c \in CPU, DrainEnd(c) PROVE WriteInv'
  <2>1. /\ wirqe' = TRUE /\ UNCHANGED <<busy, wirq, write_count>>
        /\ pc[c] = "drain" /\ (busy \/ write_count = 0)
    BY <1>18 DEF DrainEnd
  <2>2. \A u \in Proc : u # c => pc[u] # "drain" /\ pc[u] # "w_start"
    BY <2>1
  <2>3. CASE write_count = 0
    <3>1. pc' = [WakeAll("w_sleep", "w_lock") EXCEPT ![c] = "r_check"]
      BY <1>18, <2>3 DEF DrainEnd, Emptied
    <3>2. \A u \in Proc : pc'[u] = IF u = c THEN "r_check"
                                  ELSE IF pc[u] = "w_sleep" THEN "w_lock" ELSE pc[u]
      BY <3>1 DEF WakeAll
    <3>3. \A u \in Proc : pc'[u] \notin {"drain", "w_start", "w_sleep"}
      BY <2>2, <3>2
    <3> QED BY <2>1, <2>3, <3>3
  <2>4. CASE write_count # 0
    <3>1. pc' = [pc EXCEPT ![c] = "r_check"]
      BY <1>18, <2>4 DEF DrainEnd, Emptied
    <3> QED BY <2>1, <2>2, <2>4, <3>1
  <2> QED BY <2>3, <2>4
<1>19. ASSUME NEW c \in CPU, RirqCheck(c) PROVE WriteInv'
  BY <1>19 DEF RirqCheck, Goto
<1>20. ASSUME NEW c \in CPU, Rirq(c) PROVE WriteInv'
  BY <1>20 DEF Rirq, Acquire, Goto
<1>21. ASSUME NEW c \in CPU, Take(c) PROVE WriteInv'
  BY <1>21 DEF Take
<1>22. ASSUME NEW c \in CPU, TakeEnd(c) PROVE WriteInv'
  BY <1>22 DEF TakeEnd, Release, Goto
<1>23. ASSUME NEW c \in CPU, WakeReaders(c) PROVE WriteInv'
  BY <1>23 DEF WakeReaders, WakeAll
<1> QED BY <1>1, <1>2, <1>3, <1>4, <1>5, <1>6, <1>7, <1>8, <1>9, <1>10, <1>11, <1>12,
         <1>13, <1>14, <1>15, <1>16, <1>17, <1>18, <1>19, <1>20, <1>21, <1>22, <1>23 DEF Next

\* Sleeping readers have a handler coming.
LEMMA WakeStep == IInv /\ [Next]_vars => WakeInv'
<1> SUFFICES ASSUME IInv, [Next]_vars PROVE WakeInv'
  OBVIOUS
<1>0. /\ TypeOK /\ LockInv /\ WriteInv /\ WakeInv /\ BufInv /\ CallInv /\ InputInv
      /\ OutputInOrder
  BY DEF IInv
<1> USE <1>0 DEF WakeInv, Somewhere, TypeOK, Thread, Proc, bufs, device
<1>1. CASE UNCHANGED vars
  BY <1>1 DEF vars
<1>2. ASSUME Finish PROVE WakeInv'
  BY <1>2 DEF Finish
<1>3. ASSUME Type PROVE WakeInv'
  BY <1>3 DEF Type
<1>4. ASSUME NEW t \in Writer, WriteCall(t) PROVE WakeInv'
  BY <1>4 DEF WriteCall, Goto
<1>5. ASSUME NEW t \in Writer, WriteSleep(t) PROVE WakeInv'
  BY <1>5 DEF WriteSleep, Copying, MustWait, Release, Goto
<1>6. ASSUME NEW t \in Writer, WriteFill(t) PROVE WakeInv'
  <2>1. /\ (pc[t] = "w_lock" /\ ~ slock) \/ pc[t] = "write"
        /\ pc' = [pc EXCEPT ![t] = "w_start"] /\ UNCHANGED read_count
    BY <1>6, FillFacts
  <2> QED BY <2>1
<1>7. ASSUME NEW t \in Writer, WriteStart(t) PROVE WakeInv'
  BY <1>7 DEF WriteStart, StartOutput, Goto
<1>8. ASSUME NEW t \in Writer, WriteReturn(t) PROVE WakeInv'
  BY <1>8 DEF WriteReturn, Release, Goto
<1>9. ASSUME NEW t \in Reader, ReadCall(t) PROVE WakeInv'
  BY <1>9 DEF ReadCall, Goto
<1>10. ASSUME NEW t \in Reader, ReadSleep(t) PROVE WakeInv'
  BY <1>10 DEF ReadSleep, Goto
<1>11. ASSUME NEW t \in Reader, ReadReturn(t) PROVE WakeInv'
  BY <1>11 DEF ReadReturn, Goto
<1>12. ASSUME NEW t \in Printer, Kprintf(t) PROVE WakeInv'
  BY <1>12 DEF Kprintf, Acquire, Goto
<1>13. ASSUME NEW t \in Printer, KprintfPut(t) PROVE WakeInv'
  BY <1>13 DEF KprintfPut, Goto
<1>14. ASSUME NEW t \in Printer, KprintfReturn(t) PROVE WakeInv'
  BY <1>14 DEF KprintfReturn, Release, Goto
<1>15. ASSUME NEW c \in CPU, Interrupt(c) PROVE WakeInv'
  BY <1>15 DEF Interrupt, Goto
<1>16. ASSUME NEW c \in CPU, Wirq(c) PROVE WakeInv'
  BY <1>16 DEF Wirq, Acquire, Goto
<1>17. ASSUME NEW c \in CPU, Drain(c) PROVE WakeInv'
  BY <1>17 DEF Drain
<1>18. ASSUME NEW c \in CPU, DrainEnd(c) PROVE WakeInv'
  BY <1>18 DEF DrainEnd, WakeAll, Emptied, Release
<1>19. ASSUME NEW c \in CPU, RirqCheck(c) PROVE WakeInv'
  BY <1>19 DEF RirqCheck, Goto
<1>20. ASSUME NEW c \in CPU, Rirq(c) PROVE WakeInv'
  BY <1>20 DEF Rirq, Acquire, Goto
<1>21. ASSUME NEW c \in CPU, Take(c) PROVE WakeInv'
  BY <1>21 DEF Take
<1>22. ASSUME NEW c \in CPU, TakeEnd(c) PROVE WakeInv'
  BY <1>22 DEF TakeEnd, Release, Goto
<1>23. ASSUME NEW c \in CPU, WakeReaders(c) PROVE WakeInv'
  BY <1>23 DEF WakeReaders, WakeAll
<1> QED BY <1>1, <1>2, <1>3, <1>4, <1>5, <1>6, <1>7, <1>8, <1>9, <1>10, <1>11, <1>12,
         <1>13, <1>14, <1>15, <1>16, <1>17, <1>18, <1>19, <1>20, <1>21, <1>22, <1>23 DEF Next

\* The buffers hold characters.
LEMMA BufStep == IInv /\ [Next]_vars => BufInv'
<1> SUFFICES ASSUME IInv, [Next]_vars PROVE BufInv'
  OBVIOUS
<1>0. /\ TypeOK /\ LockInv /\ WriteInv /\ WakeInv /\ BufInv /\ CallInv /\ InputInv
      /\ OutputInOrder
  BY DEF IInv
<1> USE <1>0 DEF BufInv, TypeOK, Thread, Proc, bufs, device
<1>1. CASE UNCHANGED vars
  BY <1>1 DEF vars
<1>2. ASSUME Finish PROVE BufInv'
  BY <1>2 DEF Finish
<1>3. ASSUME Type PROVE BufInv'
  BY <1>3 DEF Type
<1>4. ASSUME NEW t \in Writer, WriteCall(t) PROVE BufInv'
  BY <1>4 DEF WriteCall, Goto
<1>5. ASSUME NEW t \in Writer, WriteSleep(t) PROVE BufInv'
  BY <1>5 DEF WriteSleep, Copying, MustWait, Release, Goto
<1>6. ASSUME NEW t \in Writer, WriteFill(t) PROVE BufInv'
  <2>1. /\ write_count' = Room(t) /\ UNCHANGED <<write_head, read_buf, read_head, read_count>>
        /\ \A k \in 1 .. Room(t) : /\ Char(t, i[t] + k) \in Character
                                   /\ write_buf'[At(write_head, k - 1)] = Char(t, i[t] + k)
    BY <1>6, FillFacts
  <2> QED BY <2>1
<1>7. ASSUME NEW t \in Writer, WriteStart(t) PROVE BufInv'
  <2>0. write_count > 0
    BY <1>7 DEF WriteStart, WriteInv, Somewhere
  <2>1. CASE busy
    BY <1>7, <2>1 DEF WriteStart, StartOutput
  <2>2. CASE ~ busy
    <3>1. /\ write_count' = write_count - 1 /\ UNCHANGED <<write_buf, read_buf, read_head, read_count>>
          /\ \A k \in 1 .. write_count' : At(write_head', k - 1) = At(write_head, k)
      BY <1>7, <2>0, <2>2, OldestFacts DEF WriteStart, StartOutput
    <3>2. \A k \in 1 .. write_count' : k + 1 \in 1 .. write_count /\ (k + 1) - 1 = k
      BY <2>0, <3>1, SMTT(30)
    <3> QED BY <3>1, <3>2, ZenonT(30)
  <2> QED BY <2>1, <2>2
<1>8. ASSUME NEW t \in Writer, WriteReturn(t) PROVE BufInv'
  BY <1>8 DEF WriteReturn, Release, Goto
<1>9. ASSUME NEW t \in Reader, ReadCall(t) PROVE BufInv'
  BY <1>9 DEF ReadCall, Goto
<1>10. ASSUME NEW t \in Reader, ReadSleep(t) PROVE BufInv'
  BY <1>10 DEF ReadSleep, Goto
<1>11. ASSUME NEW t \in Reader, ReadReturn(t) PROVE BufInv'
  <2>1. PICK n \in 1 .. read_count :
           /\ read_count' = read_count - n
           /\ \A k \in 1 .. read_count' : At(read_head', k - 1) = At(read_head, n + k - 1)
    BY <1>11, ReadFacts
  <2>2. \A k \in 1 .. read_count' : n + k \in 1 .. read_count
    BY <2>1
  <2>3. ASSUME NEW k \in 1 .. read_count' PROVE read_buf[At(read_head', k - 1)] \in 1 .. MaxInput
    <3>1. n + k \in 1 .. read_count /\ At(read_head', k - 1) = At(read_head, n + k - 1)
      BY <2>1, <2>2
    <3>2. PICK j \in 1 .. read_count : j = n + k
      BY <3>1
    <3>3. read_buf[At(read_head, j - 1)] \in 1 .. MaxInput
      OBVIOUS
    <3> QED BY <3>1, <3>2, <3>3
  <2> QED BY <1>11, <2>3 DEF ReadReturn
<1>12. ASSUME NEW t \in Printer, Kprintf(t) PROVE BufInv'
  BY <1>12 DEF Kprintf, Acquire, Goto
<1>13. ASSUME NEW t \in Printer, KprintfPut(t) PROVE BufInv'
  BY <1>13 DEF KprintfPut, Goto
<1>14. ASSUME NEW t \in Printer, KprintfReturn(t) PROVE BufInv'
  BY <1>14 DEF KprintfReturn, Release, Goto
<1>15. ASSUME NEW c \in CPU, Interrupt(c) PROVE BufInv'
  BY <1>15 DEF Interrupt, Goto
<1>16. ASSUME NEW c \in CPU, Wirq(c) PROVE BufInv'
  BY <1>16 DEF Wirq, Acquire, Goto
<1>17. ASSUME NEW c \in CPU, Drain(c) PROVE BufInv'
  <2>1. /\ write_count' = write_count - 1 /\ UNCHANGED <<write_buf, read_buf, read_head, read_count>>
        /\ \A k \in 1 .. write_count' : At(write_head', k - 1) = At(write_head, k)
    BY <1>17, OldestFacts DEF Drain
  <2>2. \A k \in 1 .. write_count' : k + 1 \in 1 .. write_count /\ (k + 1) - 1 = k
    BY <2>1
  <2> QED BY <2>1, <2>2, ZenonT(30)
<1>18. ASSUME NEW c \in CPU, DrainEnd(c) PROVE BufInv'
  BY <1>18 DEF DrainEnd, WakeAll, Emptied, Release
<1>19. ASSUME NEW c \in CPU, RirqCheck(c) PROVE BufInv'
  BY <1>19 DEF RirqCheck, Goto
<1>20. ASSUME NEW c \in CPU, Rirq(c) PROVE BufInv'
  BY <1>20 DEF Rirq, Acquire, Goto
<1>21. ASSUME NEW c \in CPU, Take(c) PROVE BufInv'
  <2>1. Head(input) \in 1 .. MaxInput
    BY <1>21 DEF Take
  <2>2. CASE read_count > BufSize
    BY <1>21, <2>2 DEF Take
  <2>3. CASE ~ (read_count > BufSize)
    <3>1. /\ read_buf' = [read_buf EXCEPT ![At(read_head, read_count)] = Head(input)]
          /\ read_count' = read_count + 1 /\ UNCHANGED <<read_head, write_buf, write_head, write_count>>
      BY <1>21, <2>3 DEF Take
    <3>2. At(read_head, read_count) \in Index
      BY AtIndex
    <3>3. ASSUME NEW k \in 1 .. read_count' PROVE read_buf'[At(read_head, k - 1)] \in 1 .. MaxInput
      <4>1. At(read_head, k - 1) \in Index
        BY <3>1, AtIndex
      <4>2. CASE k = read_count + 1
        <5>1. k - 1 = read_count
          BY <4>2
        <5> QED BY <2>1, <3>1, <3>2, <5>1
      <4>3. CASE k # read_count + 1
        <5>1. k \in 1 .. read_count
          BY <3>1, <4>3
        <5>2. read_buf[At(read_head, k - 1)] \in 1 .. MaxInput
          BY <5>1
        <5> QED BY <2>1, <3>1, <4>1, <5>2
      <4> QED BY <4>2, <4>3
    <3> QED BY <3>1, <3>3
  <2> QED BY <2>2, <2>3
<1>22. ASSUME NEW c \in CPU, TakeEnd(c) PROVE BufInv'
  BY <1>22 DEF TakeEnd, Release, Goto
<1>23. ASSUME NEW c \in CPU, WakeReaders(c) PROVE BufInv'
  BY <1>23 DEF WakeReaders, WakeAll
<1> QED BY <1>1, <1>2, <1>3, <1>4, <1>5, <1>6, <1>7, <1>8, <1>9, <1>10, <1>11, <1>12,
         <1>13, <1>14, <1>15, <1>16, <1>17, <1>18, <1>19, <1>20, <1>21, <1>22, <1>23 DEF Next

LEMMA InputTypes ==
    ASSUME TypeOK
    PROVE  /\ read_count \in Nat /\ read_head \in Index /\ BufSize \in Nat /\ typed \in Nat
           /\ got \in Seq(1 .. MaxInput) /\ input \in Seq(1 .. MaxInput)
           /\ Len(got) \in Nat /\ Len(input) \in Nat
           /\ read_buf \in [Index -> 0 .. MaxInput]
BY DEF TypeOK

LEMMA TypeNumbered ==
    ASSUME IInv, Type, Numbered
    PROVE  Numbered'
<1>0. /\ read_count \in Nat /\ typed \in Nat /\ Len(got) \in Nat /\ Len(input) \in Nat
      /\ input \in Seq(1 .. MaxInput) /\ typed + 1 \in 1 .. MaxInput
  BY DEF IInv, TypeOK, Type
<1>1. /\ UNCHANGED <<read_buf, read_head, read_count, got>>
      /\ input' = Append(input, typed + 1) /\ typed' = typed + 1
  BY DEF Type, bufs
<1>2. /\ Len(input') = Len(input) + 1 /\ input'[Len(input) + 1] = typed + 1
      /\ \A k \in 1 .. Len(input) : input'[k] = input[k]
  BY <1>0, <1>1
<1>3. ASSUME NEW k \in 1 .. Len(input') PROVE input'[k] = Len(got) + read_count + k
  <2>1. CASE k = Len(input) + 1
    BY <1>0, <1>2, <2>1 DEF Numbered
  <2>2. CASE k # Len(input) + 1
    BY <1>0, <1>2, <2>2, SMTT(30) DEF Numbered
  <2> QED BY <2>1, <2>2
<1> QED BY <1>0, <1>1, <1>2, <1>3 DEF Numbered

LEMMA ReadNumbered ==
    ASSUME IInv, NEW t \in Reader, ReadReturn(t), Numbered
    PROVE  Numbered'
<1>0. /\ read_count \in Nat /\ Len(got) \in Nat /\ Len(input) \in Nat /\ BufSize \in Nat
      /\ got \in Seq(1 .. MaxInput)
  BY InputTypes DEF IInv
<1>1. UNCHANGED <<read_buf, input, typed>>
  BY DEF ReadReturn, device
<1>2. PICK n \in 1 .. read_count, f \in Seq(1 .. MaxInput) :
         /\ f = Contents(read_buf, read_head, n) /\ Len(f) = n
         /\ \A k \in 1 .. n : f[k] = read_buf[At(read_head, k - 1)]
         /\ got' = got \o f /\ read_count' = read_count - n
         /\ \A k \in 1 .. read_count' : At(read_head', k - 1) = At(read_head, n + k - 1)
  BY ReadFacts
<1>n. n \in Nat /\ n <= read_count /\ \A k \in 1 .. n : k \in 1 .. read_count
  BY <1>0
<1>3. /\ n \in Nat /\ n <= read_count /\ Len(got') = Len(got) + n
      /\ \A k \in 1 .. Len(got) : got'[k] = got[k]
      /\ \A k \in 1 .. n : got'[Len(got) + k] = f[k]
  <2>1. PICK g \in Seq(1 .. MaxInput) : g = got
    BY <1>0
  <2>2. /\ Len(g \o f) = Len(g) + Len(f)
        /\ \A k \in 1 .. Len(g) : (g \o f)[k] = g[k]
        /\ \A k \in 1 .. Len(f) : (g \o f)[Len(g) + k] = f[k]
    OBVIOUS
  <2> QED BY <1>2, <1>n, <2>1, <2>2
<1>4. ASSUME NEW k \in 1 .. n PROVE f[k] = Len(got) + k
  <2>1. k \in 1 .. read_count
    BY <1>n
  <2> QED BY <1>2, <2>1 DEF Numbered
<1>5. ASSUME NEW k \in 1 .. Len(got') PROVE got'[k] = k
  <2>1. CASE k <= Len(got)
    <3>1. k \in 1 .. Len(got) /\ got[k] = k
      BY <1>0, <1>3, <2>1 DEF Numbered
    <3> QED BY <1>3, <3>1
  <2>2. CASE k > Len(got)
    <3>1. PICK j \in 1 .. n : k = Len(got) + j
      <4>1. k - Len(got) \in 1 .. n /\ k = Len(got) + (k - Len(got))
        BY <1>0, <1>3, <2>2
      <4> QED BY <4>1
    <3> QED BY <1>3, <1>4, <3>1
  <2> QED BY <1>0, <1>3, <2>1, <2>2
<1>6. ASSUME NEW k \in 1 .. read_count' PROVE read_buf'[At(read_head', k - 1)] = Len(got') + k
  <2>1. PICK j \in 1 .. read_count : j = n + k /\ j - 1 = n + k - 1
    BY <1>0, <1>2, <1>3
  <2>2. read_buf[At(read_head, j - 1)] = Len(got) + j
    BY DEF Numbered
  <2>3. At(read_head', k - 1) = At(read_head, j - 1)
    BY <1>2, <2>1
  <2> QED BY <1>0, <1>1, <1>3, <2>1, <2>2, <2>3
<1>7. /\ read_count' <= BufSize /\ Len(got') + read_count' + Len(input') = typed'
      /\ \A k \in 1 .. Len(input') : input'[k] = Len(got') + read_count' + k
  BY <1>0, <1>1, <1>2, <1>3 DEF Numbered
<1> QED BY <1>5, <1>6, <1>7 DEF Numbered

LEMMA TakeNumbered ==
    ASSUME IInv, NEW c \in CPU, Take(c), Numbered, read_count < BufSize
    PROVE  Numbered'
<1>0. /\ read_count \in Nat /\ Len(got) \in Nat /\ Len(input) \in Nat /\ BufSize \in Nat
      /\ input \in Seq(1 .. MaxInput) /\ read_head \in Index
      /\ read_buf \in [Index -> 0 .. MaxInput]
  BY InputTypes DEF IInv
<1>1. /\ UNCHANGED <<read_head, typed, got>> /\ input # <<>> /\ input' = Tail(input)
      /\ read_buf' = [read_buf EXCEPT ![At(read_head, read_count)] = Head(input)]
      /\ read_count' = read_count + 1
  BY <1>0 DEF Take
<1>2. /\ Len(input) >= 1 /\ Len(input') = Len(input) - 1 /\ Head(input) = input[1]
      /\ \A k \in 1 .. (Len(input) - 1) : input'[k] = input[k + 1]
  BY <1>0, <1>1
<1>3. Head(input) = Len(got) + read_count + 1
  BY <1>0, <1>2 DEF Numbered
<1>4. ASSUME NEW k \in 1 .. read_count' PROVE read_buf'[At(read_head, k - 1)] = Len(got) + k
  <2>1. At(read_head, k - 1) \in Index /\ At(read_head, read_count) \in Index
    <3>1. k - 1 \in Nat
      BY <1>0, <1>1
    <3> QED BY <1>0, <3>1, AtIndex
  <2>2. CASE k = read_count + 1
    <3>1. k - 1 = read_count
      BY <1>0, <2>2
    <3> QED BY <1>0, <1>1, <1>3, <2>1, <2>2, <3>1
  <2>3. CASE k # read_count + 1
    <3>1. k \in 1 .. read_count
      BY <1>0, <1>1, <2>3
    <3>2. read_buf[At(read_head, k - 1)] = Len(got) + k
      BY <3>1 DEF Numbered
    <3>3. k - 1 \in 0 .. BufSize /\ read_count \in 0 .. BufSize /\ read_head \in Nat
      BY <1>0, <3>1 DEF Index
    <3>4. /\ At(read_head, k - 1) = IF read_head + (k - 1) < BufSize THEN read_head + (k - 1)
                                   ELSE read_head + (k - 1) - BufSize
          /\ At(read_head, read_count) = IF read_head + read_count < BufSize
                                          THEN read_head + read_count
                                          ELSE read_head + read_count - BufSize
      BY <1>0, <3>3, AtFacts
    <3>5. At(read_head, k - 1) # At(read_head, read_count)
      BY ONLY <1>0, <3>1, <3>3, <3>4, read_count < BufSize
    <3> QED BY <1>0, <1>1, <2>1, <3>2, <3>5
  <2> QED BY <2>2, <2>3
<1>5. ASSUME NEW k \in 1 .. Len(input') PROVE input'[k] = Len(got) + read_count' + k
  <2>1. k + 1 \in 1 .. Len(input) /\ input'[k] = input[k + 1]
    BY <1>0, <1>2
  <2>2. input[k + 1] = Len(got) + read_count + (k + 1)
    BY <2>1 DEF Numbered
  <2> QED BY <1>0, <1>1, <2>1, <2>2
<1>6. Len(got) + read_count' + Len(input') = typed /\ read_count' <= BufSize
  BY <1>0, <1>1, <1>2 DEF Numbered
<1> QED BY <1>1, <1>4, <1>5, <1>6 DEF Numbered

\* Typed characters stay in order.
LEMMA InputStep == IInv /\ [Next]_vars => InputInv'
<1> SUFFICES ASSUME IInv, [Next]_vars PROVE InputInv'
  OBVIOUS
<1>0. /\ TypeOK /\ LockInv /\ WriteInv /\ WakeInv /\ BufInv /\ CallInv /\ InputInv
      /\ OutputInOrder
  BY DEF IInv
<1> USE <1>0 DEF InputInv, TypeOK, Thread, Proc, bufs, device
<1>1. CASE UNCHANGED vars
  BY <1>1 DEF vars, Numbered
<1>2. ASSUME Finish PROVE InputInv'
  BY <1>2 DEF Finish, Numbered
<1>3. ASSUME Type PROVE InputInv'
  <2>1. UNCHANGED <<pc, overrun>> /\ rirq' = TRUE
    BY <1>3 DEF Type, Numbered
  <2>2. ~ overrun' => Numbered'
    BY <1>3, <2>1, TypeNumbered
  <2> QED BY <2>1, <2>2
<1>4. ASSUME NEW t \in Writer, WriteCall(t) PROVE InputInv'
  BY <1>4 DEF WriteCall, Goto, Numbered
<1>5. ASSUME NEW t \in Writer, WriteSleep(t) PROVE InputInv'
  BY <1>5 DEF WriteSleep, Copying, MustWait, Release, Goto, Numbered
<1>6. ASSUME NEW t \in Writer, WriteFill(t) PROVE InputInv'
  <2>1. /\ (pc[t] = "w_lock" /\ ~ slock) \/ pc[t] = "write"
        /\ pc' = [pc EXCEPT ![t] = "w_start"]
        /\ UNCHANGED <<read_buf, read_head, read_count, input, rirq, typed, got, overrun>>
    BY <1>6, FillFacts
  <2> QED BY <2>1 DEF Numbered
<1>7. ASSUME NEW t \in Writer, WriteStart(t) PROVE InputInv'
  BY <1>7 DEF WriteStart, StartOutput, Goto, Numbered
<1>8. ASSUME NEW t \in Writer, WriteReturn(t) PROVE InputInv'
  BY <1>8 DEF WriteReturn, Release, Goto, Numbered
<1>9. ASSUME NEW t \in Reader, ReadCall(t) PROVE InputInv'
  BY <1>9 DEF ReadCall, Goto, Numbered
<1>10. ASSUME NEW t \in Reader, ReadSleep(t) PROVE InputInv'
  BY <1>10 DEF ReadSleep, Goto, Numbered
<1>11. ASSUME NEW t \in Reader, ReadReturn(t) PROVE InputInv'
  <2>1. /\ UNCHANGED <<input, rirq, overrun>>
        /\ pc[t] = "r_lock" /\ pc' = [pc EXCEPT ![t] = "idle"]
    BY <1>11 DEF ReadReturn, Goto
  <2>2. ~ overrun' => Numbered'
    BY <1>11, <2>1, ReadNumbered
  <2> QED BY <2>1, <2>2
<1>12. ASSUME NEW t \in Printer, Kprintf(t) PROVE InputInv'
  BY <1>12 DEF Kprintf, Acquire, Goto, Numbered
<1>13. ASSUME NEW t \in Printer, KprintfPut(t) PROVE InputInv'
  BY <1>13 DEF KprintfPut, Goto, Numbered
<1>14. ASSUME NEW t \in Printer, KprintfReturn(t) PROVE InputInv'
  BY <1>14 DEF KprintfReturn, Release, Goto, Numbered
<1>15. ASSUME NEW c \in CPU, Interrupt(c) PROVE InputInv'
  BY <1>15 DEF Interrupt, Goto, Numbered
<1>16. ASSUME NEW c \in CPU, Wirq(c) PROVE InputInv'
  BY <1>16 DEF Wirq, Acquire, Goto, Numbered
<1>17. ASSUME NEW c \in CPU, Drain(c) PROVE InputInv'
  BY <1>17 DEF Drain, Numbered
<1>18. ASSUME NEW c \in CPU, DrainEnd(c) PROVE InputInv'
  BY <1>18 DEF DrainEnd, WakeAll, Emptied, Release, Numbered
<1>19. ASSUME NEW c \in CPU, RirqCheck(c) PROVE InputInv'
  BY <1>19 DEF RirqCheck, Goto, Numbered
<1>20. ASSUME NEW c \in CPU, Rirq(c) PROVE InputInv'
  BY <1>20 DEF Rirq, Acquire, Goto, Numbered
<1>21. ASSUME NEW c \in CPU, Take(c) PROVE InputInv'
  <2>1. /\ UNCHANGED pc /\ pc[c] = "take"
        /\ overrun' = (overrun \/ read_count >= BufSize)
    BY <1>21 DEF Take, Numbered
  <2>2. ~ overrun' => Numbered'
    <3> SUFFICES ASSUME ~ overrun' PROVE Numbered'
      OBVIOUS
    <3>0. ~ overrun /\ ~ (read_count >= BufSize)
      BY ONLY <2>1, ~ overrun', Zenon
    <3>1. ~ overrun /\ read_count < BufSize
      BY <3>0
    <3>2. Numbered
      BY <3>1
    <3> QED BY <1>21, <3>1, <3>2, TakeNumbered
  <2> QED BY <2>1, <2>2
<1>22. ASSUME NEW c \in CPU, TakeEnd(c) PROVE InputInv'
  BY <1>22 DEF TakeEnd, Release, Goto, Numbered
<1>23. ASSUME NEW c \in CPU, WakeReaders(c) PROVE InputInv'
  BY <1>23 DEF WakeReaders, WakeAll, Numbered
<1> QED BY <1>1, <1>2, <1>3, <1>4, <1>5, <1>6, <1>7, <1>8, <1>9, <1>10, <1>11, <1>12,
         <1>13, <1>14, <1>15, <1>16, <1>17, <1>18, <1>19, <1>20, <1>21, <1>22, <1>23 DEF Next

-----------------------------------------------------------------------------
(* The stream of characters: what is out and what is buffered *)

\* Sequence s is o followed by the n characters at h of ring buffer b.
Follows(s, o, b, h, n) ==
    /\ s \in Seq(Character) /\ Len(s) = Len(o) + n
    /\ \A x \in 1 .. Len(o) : s[x] = o[x]
    /\ \A k \in 1 .. n : s[Len(o) + k] = b[At(h, k - 1)]

LEMMA FollowsFacts ==
    ASSUME NEW o \in Seq(Character), NEW n \in Nat, NEW b, NEW h,
           \A k \in 1 .. n : b[At(h, k - 1)] \in Character
    PROVE  /\ o \o Contents(b, h, n) \in Seq(Character)
           /\ Follows(o \o Contents(b, h, n), o, b, h, n)
<1>1. PICK f : f = Contents(b, h, n)
  OBVIOUS
<1>2. f = [k \in 1 .. n |-> b[At(h, k - 1)]]
  BY <1>1 DEF Contents
<1>3. f \in Seq(Character) /\ Len(f) = n /\ \A k \in 1 .. n : f[k] = b[At(h, k - 1)]
  BY <1>2
<1>4. PICK g \in Seq(Character) : g = f
  BY <1>3
<1>5. /\ Len(o \o g) = Len(o) + Len(g) /\ o \o g \in Seq(Character)
      /\ \A k \in 1 .. Len(o) : (o \o g)[k] = o[k]
      /\ \A k \in 1 .. Len(g) : (o \o g)[Len(o) + k] = g[k]
  OBVIOUS
<1> QED BY <1>1, <1>3, <1>4, <1>5 DEF Follows

LEMMA StreamFacts ==
    ASSUME TypeOK, BufInv
    PROVE  /\ Stream \in Seq(Character)
           /\ Follows(Stream, out, write_buf, write_head, write_count)
           /\ out \in Seq(Character) /\ Len(out) \in Nat /\ write_count \in Nat
<1>1. /\ out \in Seq(Character) /\ write_count \in Nat
      /\ \A k \in 1 .. write_count : write_buf[At(write_head, k - 1)] \in Character
  BY DEF TypeOK, BufInv
<1>2. Stream = out \o Contents(write_buf, write_head, write_count)
  BY DEF Stream
<1>3. /\ out \o Contents(write_buf, write_head, write_count) \in Seq(Character)
      /\ Follows(out \o Contents(write_buf, write_head, write_count),
                 out, write_buf, write_head, write_count)
  BY ONLY <1>1, FollowsFacts
<1> QED BY <1>1, <1>2, <1>3

LEMMA StreamFactsNext ==
    ASSUME TypeOK', BufInv'
    PROVE  /\ Stream' \in Seq(Character)
           /\ Follows(Stream', out', write_buf', write_head', write_count')
<1>1. out' \in Seq(Character) /\ write_count' \in Nat
  BY DEF TypeOK
<1> QED BY <1>1, FollowsFacts DEF BufInv, Stream

\* Giving the oldest character to the terminal leaves the stream as it is.
LEMMA StreamOldest ==
    ASSUME IInv, TypeOK', BufInv', write_count > 0, OutputOldest, UNCHANGED write_buf
    PROVE  Stream' = Stream
<1>1. /\ out' = Append(out, write_buf[write_head]) /\ write_count' = write_count - 1
      /\ write_buf[write_head] = write_buf[At(write_head, 0)]
      /\ write_buf[write_head] \in Character
      /\ \A k \in 1 .. write_count' : At(write_head', k - 1) = At(write_head, k)
  BY OldestFacts
<1>2. PICK s \in Seq(Character) : s = Stream
  BY StreamFacts DEF IInv
<1>3. PICK r \in Seq(Character) : r = Stream'
  BY StreamFactsNext
<1>4. /\ Len(s) = Len(out) + write_count /\ Len(out) \in Nat /\ write_count \in Nat
      /\ \A x \in 1 .. Len(out) : s[x] = out[x]
      /\ \A k \in 1 .. write_count : s[Len(out) + k] = write_buf[At(write_head, k - 1)]
      /\ out \in Seq(Character)
  BY <1>2, StreamFacts DEF Follows, IInv
<1>5. /\ Len(r) = Len(out') + write_count'
      /\ \A x \in 1 .. Len(out') : r[x] = out'[x]
      /\ \A k \in 1 .. write_count' : r[Len(out') + k] = write_buf[At(write_head', k - 1)]
  BY <1>3, StreamFactsNext DEF Follows
<1>6. /\ Len(out') = Len(out) + 1 /\ out'[Len(out) + 1] = write_buf[write_head]
      /\ \A x \in 1 .. Len(out) : out'[x] = out[x]
  BY <1>1, <1>4
<1>7. Len(r) = Len(s) /\ Len(s) \in Nat
  BY <1>1, <1>4, <1>5, <1>6
<1>8. ASSUME NEW x \in 1 .. Len(s) PROVE r[x] = s[x]
  <2>1. CASE x <= Len(out)
    <3>1. x \in 1 .. Len(out) /\ x \in 1 .. Len(out')
      BY <1>4, <1>6, <1>7, <2>1
    <3> QED BY <1>4, <1>5, <1>6, <3>1
  <2>2. CASE x = Len(out) + 1
    <3>1. x \in 1 .. Len(out') /\ 1 \in 1 .. write_count /\ 1 - 1 = 0
      BY <1>4, <1>6, <1>7, <2>2
    <3>2. s[Len(out) + 1] = write_buf[At(write_head, 1 - 1)]
      BY <1>4, <3>1
    <3> QED BY <1>1, <1>5, <1>6, <2>2, <3>1, <3>2
  <2>3. CASE x > Len(out) + 1
    <3>1. PICK k \in 1 .. write_count' : x = Len(out') + k
      <4>1. x - Len(out') \in 1 .. write_count' /\ x = Len(out') + (x - Len(out'))
        BY <1>1, <1>4, <1>6, <1>7, <2>3
      <4> QED BY <4>1
    <3>2. r[x] = write_buf[At(write_head, k)]
      BY <1>1, <1>5, <3>1
    <3>3. PICK j \in 1 .. write_count : j = k + 1 /\ j - 1 = k /\ x = Len(out) + j
      BY <1>1, <1>4, <1>6, <3>1
    <3>4. s[Len(out) + j] = write_buf[At(write_head, j - 1)]
      BY <1>4
    <3> QED BY <3>2, <3>3, <3>4
  <2> QED BY <1>4, <1>7, <2>1, <2>2, <2>3
<1>9. r = s
  BY <1>7, <1>8
<1> QED BY <1>2, <1>3, <1>9

\* A writer adds the next characters of its call to the stream.
LEMMA StreamFill ==
    ASSUME IInv, TypeOK', BufInv', NEW t \in Writer, WriteFill(t)
    PROVE  /\ Len(Stream') = Len(Stream) + Room(t) /\ Len(Stream) \in Nat
           /\ \A x \in 1 .. Len(Stream) : Stream'[x] = Stream[x]
           /\ \A k \in 1 .. Room(t) : Stream'[Len(Stream) + k] = Char(t, i[t] + k)
<1>1. /\ write_count = 0 /\ Room(t) \in 1 .. BufSize /\ write_count' = Room(t)
      /\ \A k \in 1 .. Room(t) : write_buf'[At(write_head, k - 1)] = Char(t, i[t] + k)
      /\ UNCHANGED <<write_head, out>>
  BY FillFacts DEF device
<1>2. PICK s \in Seq(Character) : s = Stream
  BY StreamFacts DEF IInv
<1>3. PICK r \in Seq(Character) : r = Stream'
  BY StreamFactsNext
<1>4. /\ Len(s) = Len(out) + write_count /\ Len(out) \in Nat /\ write_count \in Nat
      /\ \A x \in 1 .. Len(out) : s[x] = out[x]
  BY <1>2, StreamFacts DEF Follows, IInv
<1>5. /\ Len(r) = Len(out) + write_count'
      /\ \A x \in 1 .. Len(out) : r[x] = out[x]
      /\ \A k \in 1 .. write_count' : r[Len(out) + k] = write_buf'[At(write_head, k - 1)]
  BY <1>1, <1>3, StreamFactsNext DEF Follows
<1>6. Len(s) = Len(out)
  BY <1>1, <1>4
<1>7. /\ Len(r) = Len(s) + Room(t) /\ Len(s) \in Nat
      /\ \A x \in 1 .. Len(s) : r[x] = s[x]
      /\ \A k \in 1 .. Room(t) : r[Len(s) + k] = Char(t, i[t] + k)
  BY <1>1, <1>4, <1>5, <1>6
<1> QED BY <1>2, <1>3, <1>7

\* Steps that add nothing to the stream.
LEMMA SameOutput ==
    ASSUME OutputInOrder, Stream' = Stream,
           \A t \in Writer : \A n, k : Taken(t, n, k)' <=> Taken(t, n, k)
    PROVE  OutputInOrder'
<1>1. NothingLost'
  <2> SUFFICES ASSUME NEW t \in Writer, NEW n, NEW k, Taken(t, n, k)'
               PROVE  \E x \in 1 .. Len(Stream) : Stream[x] = [who |-> t, call |-> n, k |-> k]
    BY DEF NothingLost
  <2>1. Taken(t, n, k)
    OBVIOUS
  <2>2. n \in 1 .. calls[t] /\ k \in 1 .. Length[t]
    BY <2>1 DEF Taken
  <2> QED BY <2>1, <2>2 DEF OutputInOrder, NothingLost
<1>2. NothingAdded'
  BY DEF OutputInOrder, NothingAdded
<1>3. NothingReordered' /\ CallsUnbroken'
  BY DEF OutputInOrder, NothingReordered, CallsUnbroken
<1> QED BY <1>1, <1>2, <1>3 DEF OutputInOrder

\* A new call: the call before it is complete.
LEMMA CallOutput ==
    ASSUME IInv, NEW t \in Writer, WriteCall(t)
    PROVE  OutputInOrder'
<1>0. TypeOK /\ CallInv /\ OutputInOrder
  BY DEF IInv
<1>1. /\ pc[t] = "idle" /\ calls' = [calls EXCEPT ![t] = @ + 1] /\ i' = [i EXCEPT ![t] = 0]
      /\ UNCHANGED <<out, write_buf, write_head, write_count>>
  BY DEF WriteCall, bufs, device
<1>2. Stream' = Stream
  BY <1>1 DEF Stream, Contents
<1>3. /\ calls[t] \in Nat /\ calls'[t] = calls[t] + 1 /\ i'[t] = 0 /\ Length[t] \in Nat
      /\ calls[t] = 0 \/ i[t] = Length[t]
      /\ \A u \in Writer : u # t => calls'[u] = calls[u] /\ i'[u] = i[u]
  <2>1. calls \in [Writer \cup Printer -> 0 .. MaxCalls] /\ i \in [Writer -> Nat]
    BY <1>0 DEF TypeOK
  <2>2. calls[t] = 0 \/ i[t] = Length[t]
    BY <1>0, <1>1 DEF CallInv, InCall
  <2>3. calls[t] \in Nat /\ Length[t] \in Nat
    BY <2>1
  <2>4. \A u \in Writer : calls'[u] = IF u = t THEN calls[t] + 1 ELSE calls[u]
    BY <1>1, <2>1
  <2>5. \A u \in Writer : i'[u] = IF u = t THEN 0 ELSE i[u]
    BY <1>1, <2>1
  <2> QED BY <2>2, <2>3, <2>4, <2>5
<1>4. ASSUME NEW u \in Writer, NEW n, NEW k PROVE Taken(u, n, k)' <=> Taken(u, n, k)
  <2>1. CASE u # t
    BY <1>3, <2>1 DEF Taken
  <2>2. CASE u = t
    BY <1>3, <2>2 DEF Taken
  <2> QED BY <2>1, <2>2
<1> QED BY <1>0, <1>2, <1>4, SameOutput

\* The next characters of a call.
LEMMA FillOutput ==
    ASSUME IInv, TypeOK', BufInv', NEW t \in Writer, WriteFill(t)
    PROVE  OutputInOrder'
<1>0. OutputInOrder /\ CallInv
  BY DEF IInv
<1>1. PICK s \in Seq(Character) : s = Stream
  BY StreamFacts DEF IInv
<1>2. PICK r \in Seq(Character) : r = Stream'
  BY StreamFactsNext
<1>3. PICK a \in Nat, m \in Nat, c \in Nat :
         /\ a = i[t] /\ m = Room(t) /\ c = calls[t] /\ c >= 1 /\ m >= 1 /\ a + m <= Length[t]
         /\ i' = [i EXCEPT ![t] = a + m] /\ calls' = calls
         /\ Length[t] <= BufSize => a = 0
  <2>1. /\ i[t] \in Nat /\ Room(t) \in 1 .. BufSize /\ calls[t] \in 1 .. MaxCalls
        /\ i[t] < Length[t] /\ i[t] + Room(t) <= Length[t]
        /\ i' = [i EXCEPT ![t] = i[t] + Room(t)] /\ calls' = calls
    BY FillFacts
  <2>2. Length[t] <= BufSize => i[t] = 0
    BY <1>0, <2>1 DEF CallInv
  <2>3. Room(t) \in Nat /\ Room(t) >= 1 /\ calls[t] \in Nat /\ calls[t] >= 1
    BY <2>1
  <2> QED BY <2>1, <2>2, <2>3
<1>4. PICK n \in Nat : n = Len(s)
  OBVIOUS
<1>5. /\ Len(r) = n + m
      /\ \A x \in 1 .. n : r[x] = s[x]
      /\ \A k \in 1 .. m : r[n + k] = [who |-> t, call |-> c, k |-> a + k]
  BY <1>1, <1>2, <1>3, <1>4, StreamFill DEF Char
<1>6. ASSUME NEW x \in 1 .. (n + m), x > n
      PROVE  r[x].who = t /\ r[x].call = c /\ r[x].k = a + (x - n) /\ x - n \in 1 .. m
  <2>1. x - n \in 1 .. m /\ x = n + (x - n)
    BY <1>6
  <2>2. r[n + (x - n)] = [who |-> t, call |-> c, k |-> a + (x - n)]
    BY <1>5, <2>1
  <2> QED BY <2>1, <2>2
<1>7. /\ \A u \in Writer : u # t => \A d, k : Taken(u, d, k)' <=> Taken(u, d, k)
      /\ \A d, k : Taken(t, d, k) <=> d \in 1 .. c /\ k \in 1 .. Length[t] /\ (d = c => k <= a)
      /\ \A d, k : Taken(t, d, k)' <=> d \in 1 .. c /\ k \in 1 .. Length[t] /\ (d = c => k <= a + m)
  <2>1. /\ i'[t] = a + m /\ \A u \in Writer : u # t => i'[u] = i[u]
    BY <1>3 DEF IInv, TypeOK
  <2> QED BY <1>3, <2>1 DEF Taken
<1>8. Length[t] \in Nat
  OBVIOUS
<1>9. /\ \A x \in 1 .. n : s[x].who \in Writer /\ Taken(s[x].who, s[x].call, s[x].k)
      /\ \A x \in 1 .. n : s[x].call \in Nat /\ s[x].k \in Nat
  <2>1. \A x \in 1 .. n : s[x].who \in Writer /\ Taken(s[x].who, s[x].call, s[x].k)
    BY <1>0, <1>1, <1>4 DEF OutputInOrder, NothingAdded
  <2>2. ASSUME NEW x \in 1 .. n PROVE s[x].call \in Nat /\ s[x].k \in Nat
    <3>1. s[x] \in Character
      BY <1>4
    <3>2. s[x].call \in 1 .. MaxCalls /\ s[x].k \in Nat \ {0}
      BY <3>1 DEF Character
    <3> QED BY <3>2
  <2> QED BY <2>1, <2>2
\* Every old character of this call comes before the new ones.
<1>10. ASSUME NEW x \in 1 .. n, s[x].who = t
       PROVE  s[x].call < c \/ (s[x].call = c /\ s[x].k <= a)
  BY <1>7, <1>9, <1>10
<1>11. NothingLost'
  <2> SUFFICES ASSUME NEW u \in Writer, NEW d, NEW k, Taken(u, d, k)'
               PROVE  \E x \in 1 .. (n + m) : r[x] = [who |-> u, call |-> d, k |-> k]
    <3>1. Len(Stream') = n + m
      BY <1>2, <1>5
    <3> QED BY <1>2, <3>1, ZenonT(30) DEF NothingLost
  <2>1. CASE Taken(u, d, k)
    <3>1. d \in 1 .. calls[u] /\ k \in 1 .. Length[u]
      BY <2>1 DEF Taken
    <3>2. PICK x \in 1 .. n : s[x] = [who |-> u, call |-> d, k |-> k]
      BY <1>0, <1>1, <1>4, <2>1, <3>1 DEF OutputInOrder, NothingLost
    <3>3. x \in 1 .. (n + m) /\ r[x] = s[x]
      BY <1>5
    <3> QED BY <3>2, <3>3
  <2>2. CASE ~ Taken(u, d, k)
    <3>1. u = t /\ d = c /\ k \in Nat /\ k > a /\ k <= a + m
      BY <1>7, <1>8, <2>2
    <3>2. PICK j \in 1 .. m : k = a + j
      <4>1. k - a \in 1 .. m /\ k = a + (k - a)
        BY <3>1
      <4> QED BY <4>1
    <3>3. r[n + j] = [who |-> u, call |-> d, k |-> k]
      BY <1>5, <3>1, <3>2
    <3>4. n + j \in 1 .. (n + m)
      OBVIOUS
    <3> QED BY <3>3, <3>4
  <2> QED BY <2>1, <2>2
<1>12. NothingAdded'
  <2> SUFFICES ASSUME NEW x \in 1 .. (n + m)
               PROVE  r[x].who \in Writer /\ Taken(r[x].who, r[x].call, r[x].k)'
    BY <1>2, <1>5 DEF NothingAdded, Taken
  <2>1. CASE x <= n
    <3>1. x \in 1 .. n /\ r[x] = s[x]
      BY <1>5, <2>1
    <3>2. s[x].who # t => Taken(s[x].who, s[x].call, s[x].k)'
      BY <1>7, <1>9, <3>1
    <3>3. s[x].who = t => Taken(s[x].who, s[x].call, s[x].k)'
      BY <1>7, <1>8, <1>9, <3>1
    <3> QED BY <1>9, <3>1, <3>2, <3>3
  <2>2. CASE x > n
    <3>1. r[x].who = t /\ r[x].call = c /\ r[x].k = a + (x - n)
      BY <1>6, <2>2
    <3>2. x - n \in 1 .. m
      BY <1>6, <2>2
    <3>3. c \in 1 .. c /\ a + (x - n) \in 1 .. Length[t] /\ a + (x - n) <= a + m
      <4>1. PICK j \in 1 .. m : j = x - n
        BY <3>2
      <4>2. PICK l \in Nat : l = Length[t]
        BY <1>8
      <4>3. a + m <= l /\ c >= 1
        BY <1>3, <4>2
      <4>4. c \in 1 .. c /\ a + j \in 1 .. l /\ a + j <= a + m
        BY ONLY <4>3, a \in Nat, m \in Nat, c \in Nat, l \in Nat, j \in 1 .. m
      <4> QED BY <4>1, <4>2, <4>4
    <3>4. Taken(t, c, a + (x - n))'
      BY <1>7, <3>3
    <3> QED BY <3>1, <3>4
  <2> QED BY <2>1, <2>2
<1>13. NothingReordered'
  <2> SUFFICES ASSUME NEW x \in 1 .. (n + m), NEW y \in 1 .. (n + m), x < y, r[x].who = r[y].who
               PROVE  \/ r[x].call < r[y].call
                      \/ r[x].call = r[y].call /\ r[x].k < r[y].k
    BY <1>2, <1>5 DEF NothingReordered
  <2>1. CASE y <= n
    <3>1. x \in 1 .. n /\ y \in 1 .. n /\ r[x] = s[x] /\ r[y] = s[y]
      BY <1>5, <2>1
    <3> QED BY <1>0, <1>1, <1>4, <3>1, SMTT(30) DEF OutputInOrder, NothingReordered
  <2>2. CASE y > n
    <3>1. r[y].who = t /\ r[y].call = c /\ r[y].k = a + (y - n)
      BY <1>6, <2>2
    <3>2. CASE x <= n
      <4>1. x \in 1 .. n /\ r[x] = s[x] /\ s[x].who = t
        BY <1>5, <3>1, <3>2
      <4>2. s[x].call < c \/ (s[x].call = c /\ s[x].k <= a)
        BY <1>10, <4>1
      <4>3. s[x].k \in Nat
        BY <1>9, <4>1
      <4> QED BY <2>2, <3>1, <4>1, <4>2, <4>3
    <3>3. CASE x > n
      <4>1. r[x].call = c /\ r[x].k = a + (x - n)
        BY <1>6, <3>3
      <4> QED BY <3>1, <4>1
    <3> QED BY <3>2, <3>3
  <2> QED BY <2>1, <2>2
<1>14. CallsUnbroken'
  <2> SUFFICES ASSUME NEW x \in 1 .. (n + m), NEW z \in 1 .. (n + m), NEW y \in x .. z,
                      r[x].who = r[z].who, r[x].call = r[z].call, Length[r[x].who] <= BufSize
               PROVE  r[y].who = r[x].who /\ r[y].call = r[x].call
    BY <1>2, <1>5 DEF CallsUnbroken
  <2>0. y \in 1 .. (n + m)
    OBVIOUS
  <2>1. CASE z <= n
    <3>1. /\ x \in 1 .. n /\ y \in 1 .. n /\ z \in 1 .. n
          /\ r[x] = s[x] /\ r[y] = s[y] /\ r[z] = s[z]
      BY <1>5, <2>0, <2>1
    <3> QED BY <1>0, <1>1, <1>4, <3>1 DEF OutputInOrder, CallsUnbroken
  <2>2. CASE z > n
    <3>1. r[z].who = t /\ r[z].call = c
      BY <1>6, <2>2
    <3>2. x > n
      <4> SUFFICES ASSUME x <= n PROVE FALSE
        OBVIOUS
      <4>1. x \in 1 .. n /\ r[x] = s[x] /\ s[x].who = t /\ s[x].call = c
        BY <1>5, <3>1
      <4>2. a = 0 /\ Taken(t, c, s[x].k)
        BY <1>3, <1>9, <4>1
      <4> QED BY <1>7, <1>8, <4>2
    <3>3. y > n
      BY <3>2
    <3> QED BY <1>6, <2>0, <3>1, <3>3
  <2> QED BY <2>1, <2>2
<1> QED BY <1>11, <1>12, <1>13, <1>14 DEF OutputInOrder

\* Steps that leave output and calls of writers alone.
LEMMA QuietOutput ==
    ASSUME OutputInOrder, UNCHANGED <<out, write_buf, write_head, write_count, i>>,
           \A t \in Writer : calls'[t] = calls[t]
    PROVE  OutputInOrder'
<1>1. Stream' = Stream
  BY DEF Stream, Contents
<1>2. \A t \in Writer : \A n, k : Taken(t, n, k)' <=> Taken(t, n, k)
  BY DEF Taken
<1> QED BY <1>1, <1>2, SameOutput

\* Output stays complete and in order.
LEMMA OutputStep == IInv /\ [Next]_vars => OutputInOrder'
<1> SUFFICES ASSUME IInv, [Next]_vars PROVE OutputInOrder'
  OBVIOUS
<1>0. /\ TypeOK /\ LockInv /\ WriteInv /\ WakeInv /\ BufInv /\ CallInv /\ InputInv
      /\ OutputInOrder
  BY DEF IInv
<1>t. TypeOK' /\ BufInv'
  BY TypeStep, BufStep
<1>1. CASE UNCHANGED vars
  BY <1>0, <1>1, QuietOutput DEF vars, bufs, device
<1>2. ASSUME Finish PROVE OutputInOrder'
  BY <1>2, <1>0, QuietOutput DEF Finish, bufs, device
<1>3. ASSUME Type PROVE OutputInOrder'
  BY <1>3, <1>0, QuietOutput DEF Type, bufs, device
<1>4. ASSUME NEW t \in Writer, WriteCall(t) PROVE OutputInOrder'
  BY <1>4, CallOutput
<1>5. ASSUME NEW t \in Writer, WriteSleep(t) PROVE OutputInOrder'
  BY <1>5, <1>0, QuietOutput DEF WriteSleep, Copying, MustWait, Release, Goto, bufs, device
<1>6. ASSUME NEW t \in Writer, WriteFill(t) PROVE OutputInOrder'
  BY <1>6, <1>t, FillOutput
<1>7. ASSUME NEW t \in Writer, WriteStart(t) PROVE OutputInOrder'
  <2>1. write_count > 0 /\ UNCHANGED <<write_buf, i, calls>>
    BY <1>7, <1>0 DEF WriteStart, WriteInv, Somewhere, Proc, Thread
  <2>2. CASE busy
    BY <1>7, <1>0, <2>1, <2>2, QuietOutput DEF WriteStart, StartOutput
  <2>3. CASE ~ busy
    <3>1. Stream' = Stream
      BY <1>7, <1>t, <2>1, <2>3, StreamOldest DEF WriteStart, StartOutput
    <3>2. \A u \in Writer : \A n, k : Taken(u, n, k)' <=> Taken(u, n, k)
      BY <2>1 DEF Taken
    <3> QED BY <1>0, <3>1, <3>2, SameOutput
  <2> QED BY <2>2, <2>3
<1>8. ASSUME NEW t \in Writer, WriteReturn(t) PROVE OutputInOrder'
  BY <1>8, <1>0, QuietOutput DEF WriteReturn, Release, Goto, bufs, device
<1>9. ASSUME NEW t \in Reader, ReadCall(t) PROVE OutputInOrder'
  BY <1>9, <1>0, QuietOutput DEF ReadCall, Goto, bufs, device
<1>10. ASSUME NEW t \in Reader, ReadSleep(t) PROVE OutputInOrder'
  BY <1>10, <1>0, QuietOutput DEF ReadSleep, Goto, bufs, device
<1>11. ASSUME NEW t \in Reader, ReadReturn(t) PROVE OutputInOrder'
  BY <1>11, <1>0, QuietOutput DEF ReadReturn, Goto, bufs, device
<1>12. ASSUME NEW t \in Printer, Kprintf(t) PROVE OutputInOrder'
  <2>1. /\ UNCHANGED <<out, write_buf, write_head, write_count, i>>
        /\ calls' = [calls EXCEPT ![t] = @ + 1]
    BY <1>12 DEF Kprintf, bufs, device
  <2>2. \A u \in Writer : calls'[u] = calls[u]
    BY <1>0, <2>1 DEF TypeOK
  <2> QED BY <1>0, <2>1, <2>2, QuietOutput
<1>13. ASSUME NEW t \in Printer, KprintfPut(t) PROVE OutputInOrder'
  BY <1>13, <1>0, QuietOutput DEF KprintfPut, Goto, bufs, device
<1>14. ASSUME NEW t \in Printer, KprintfReturn(t) PROVE OutputInOrder'
  BY <1>14, <1>0, QuietOutput DEF KprintfReturn, Release, Goto, bufs, device
<1>15. ASSUME NEW c \in CPU, Interrupt(c) PROVE OutputInOrder'
  BY <1>15, <1>0, QuietOutput DEF Interrupt, Goto, bufs, device
<1>16. ASSUME NEW c \in CPU, Wirq(c) PROVE OutputInOrder'
  BY <1>16, <1>0, QuietOutput DEF Wirq, Acquire, Goto, bufs, device
<1>17. ASSUME NEW c \in CPU, Drain(c) PROVE OutputInOrder'
  <2>1. write_count > 0 /\ OutputOldest /\ UNCHANGED <<write_buf, i, calls>>
    BY <1>17 DEF Drain
  <2>2. Stream' = Stream
    BY <1>t, <2>1, StreamOldest
  <2>3. \A u \in Writer : \A n, k : Taken(u, n, k)' <=> Taken(u, n, k)
    BY <2>1 DEF Taken
  <2> QED BY <1>0, <2>2, <2>3, SameOutput
<1>18. ASSUME NEW c \in CPU, DrainEnd(c) PROVE OutputInOrder'
  BY <1>18, <1>0, QuietOutput DEF DrainEnd, WakeAll, Emptied, Release, bufs, device
<1>19. ASSUME NEW c \in CPU, RirqCheck(c) PROVE OutputInOrder'
  BY <1>19, <1>0, QuietOutput DEF RirqCheck, Goto, bufs, device
<1>20. ASSUME NEW c \in CPU, Rirq(c) PROVE OutputInOrder'
  BY <1>20, <1>0, QuietOutput DEF Rirq, Acquire, Goto, bufs, device
<1>21. ASSUME NEW c \in CPU, Take(c) PROVE OutputInOrder'
  BY <1>21, <1>0, QuietOutput DEF Take, bufs, device
<1>22. ASSUME NEW c \in CPU, TakeEnd(c) PROVE OutputInOrder'
  BY <1>22, <1>0, QuietOutput DEF TakeEnd, Release, Goto, bufs, device
<1>23. ASSUME NEW c \in CPU, WakeReaders(c) PROVE OutputInOrder'
  BY <1>23, <1>0, QuietOutput DEF WakeReaders, WakeAll, bufs, device
<1> QED BY <1>1, <1>2, <1>3, <1>4, <1>5, <1>6, <1>7, <1>8, <1>9, <1>10, <1>11, <1>12,
         <1>13, <1>14, <1>15, <1>16, <1>17, <1>18, <1>19, <1>20, <1>21, <1>22, <1>23 DEF Next

LEMMA InitInv == Init => IInv
<1> SUFFICES ASSUME Init PROVE IInv
  OBVIOUS
<1>p. pc \in [Proc -> {"idle", "none"}]
  <2>1. PICK users \in Together :
          pc = [t \in Thread \cup CPU |-> IF t \in users \cup CPU THEN "idle" ELSE "none"]
    BY DEF Init
  <2> QED BY <2>1 DEF Proc
<1>q. /\ slock = FALSE /\ wirqe = TRUE /\ busy = FALSE /\ wirq = FALSE
      /\ rirq = FALSE /\ overrun = FALSE
      /\ write_count = 0 /\ read_count = 0
  BY DEF Init
<1>1. TypeOK
  <2>1. write_buf \in [Index -> Character \cup {NoChar}]
    BY DEF Init
  <2>2. write_head \in Index /\ read_head \in Index /\ read_buf \in [Index -> 0 .. MaxInput]
    BY DEF Init, Index
  <2>3. write_count \in 0 .. BufSize /\ read_count \in 0 .. (BufSize + 1) /\ typed \in 0 .. MaxInput
    BY DEF Init
  <2>4. {busy, wirq, wirqe, rirq, overrun} \subseteq BOOLEAN /\ slock \in BOOLEAN
    BY <1>q
  <2>5. out \in Seq(Character) /\ input \in Seq(1 .. MaxInput) /\ got \in Seq(1 .. MaxInput)
    BY DEF Init
  <2>6. pc \in [Thread \cup CPU -> Labels]
    BY <1>p DEF Proc, Labels
  <2>7. i \in [Writer -> Nat] /\ \A t \in Writer : i[t] <= Length[t]
    BY DEF Init
  <2>8. calls \in [Writer \cup Printer -> 0 .. MaxCalls]
    BY DEF Init
  <2> QED BY <2>1, <2>2, <2>3, <2>4, <2>5, <2>6, <2>7, <2>8 DEF TypeOK
<1>r. \A t \in Proc : pc[t] \notin Locked \cup {"w_sleep", "r_sleep"}
  BY <1>p DEF Locked
<1>2. LockInv /\ WriteInv /\ WakeInv /\ BufInv /\ CallInv
  <2>1. LockInv
    BY <1>q, <1>r DEF LockInv
  <2>2. WriteInv /\ WakeInv
    <3>1. ~ Somewhere("drain") /\ ~ Somewhere("w_start") /\ ~ Somewhere("w_sleep")
      BY <1>r DEF Somewhere, Locked
    <3> QED BY <1>q, <3>1 DEF WriteInv, WakeInv
  <2>3. BufInv
    BY <1>q DEF BufInv
  <2>4. CallInv
    <3>1. \A t \in Writer : calls[t] = 0 /\ i[t] = 0
      BY DEF Init
    <3>2. \A t \in Writer : pc[t] \notin InCall
      BY <1>p DEF Proc, Thread, InCall
    <3> QED BY <3>1, <3>2 DEF CallInv
  <2> QED BY <2>1, <2>2, <2>3, <2>4
<1>3. InputInv
  BY DEF Init, InputInv, Numbered
<1>4. OutputInOrder
  <2>1. Len(Stream) = 0
    BY DEF Init, Stream, Contents
  <2>2. \A t \in Writer : calls[t] = 0
    BY DEF Init
  <2> QED BY <2>1, <2>2 DEF OutputInOrder, NothingLost, NothingAdded, NothingReordered,
                            CallsUnbroken, Taken
<1> QED BY <1>1, <1>2, <1>3, <1>4 DEF IInv

LEMMA Invariant == Spec => []IInv
<1>1. IInv /\ [Next]_vars => IInv'
  <2> SUFFICES ASSUME IInv, [Next]_vars PROVE IInv'
    OBVIOUS
  <2> QED BY TypeStep, LockStep, WriteStep, WakeStep, BufStep, CallStep, InputStep, OutputStep
          DEF IInv
<1> QED BY <1>1, InitInv, PTL DEF Spec

-----------------------------------------------------------------------------
(* Theorems *)

\* Every variable keeps its type; the read count exceeds the buffer by at most
\* one, as tty_interrupt_handle allows, and readers get typed characters only.
THEOREM TypeCorrect == Spec => []TypeOK
<1>1. IInv => TypeOK
  BY DEF IInv
<1> QED BY <1>1, Invariant, PTL

\* What tty_write is given goes out once and in order, with calls that fit the
\* buffer unbroken, and tty_read returns what was typed in order, for any
\* buffer size, calls of any length and any number of writers and CPUs.
THEOREM OrderCorrect == Spec => []InOrder
<1> SUFFICES IInv => InOrder
  BY Invariant, PTL
<1> SUFFICES ASSUME IInv PROVE InOrder
  OBVIOUS
<1>1. OutputInOrder /\ InputInv /\ TypeOK /\ BufInv
  BY DEF IInv
<1>2. ASSUME ~ overrun
      PROVE  got \o Contents(read_buf, read_head, read_count) \o input = [n \in 1 .. typed |-> n]
  <2>1. /\ read_count \in Nat /\ typed \in Nat /\ got \in Seq(Nat) /\ input \in Seq(Nat)
    BY <1>1, InputTypes
  <2>2. PICK f : f = Contents(read_buf, read_head, read_count)
    OBVIOUS
  <2>3. f = [k \in 1 .. read_count |-> read_buf[At(read_head, k - 1)]]
    BY <2>2 DEF Contents
  <2>4. f \in Seq(Nat) /\ Len(f) = read_count /\ \A k \in 1 .. read_count : f[k] = Len(got) + k
    <3>1. \A k \in 1 .. read_count : read_buf[At(read_head, k - 1)] = Len(got) + k
      BY <1>1, <1>2 DEF InputInv, Numbered
    <3>2. \A k \in 1 .. read_count : Len(got) + k \in Nat
      BY <2>1
    <3> QED BY <2>1, <2>3, <3>1, <3>2
  <2>5. PICK g \in Seq(Nat), h \in Seq(Nat), w \in Seq(Nat) : g = got /\ h = f /\ w = input
    BY <2>1, <2>4
  <2>6. /\ Len(g) + Len(h) + Len(w) = typed
        /\ \A k \in 1 .. Len(g) : g[k] = k
        /\ \A k \in 1 .. Len(h) : h[k] = Len(g) + k
        /\ \A k \in 1 .. Len(w) : w[k] = Len(g) + Len(h) + k
    BY <1>1, <1>2, <2>4, <2>5 DEF InputInv, Numbered
  <2>7. g \o h \o w = [n \in 1 .. typed |-> n]
    <3>1. g \o h \in Seq(Nat) /\ Len(g \o h) = Len(g) + Len(h)
          /\ \A k \in 1 .. (Len(g) + Len(h)) : (g \o h)[k] = k
      <4>1. g \o h \in Seq(Nat) /\ Len(g \o h) = Len(g) + Len(h)
            /\ (\A k \in 1 .. Len(g) : (g \o h)[k] = g[k])
            /\ \A k \in 1 .. Len(h) : (g \o h)[Len(g) + k] = h[k]
        OBVIOUS
      <4>2. ASSUME NEW k \in 1 .. (Len(g) + Len(h)) PROVE (g \o h)[k] = k
        <5>0. Len(g) \in Nat /\ Len(h) \in Nat
          OBVIOUS
        <5>1. CASE k <= Len(g)
          BY <2>6, <4>1, <5>0, <5>1
        <5>2. CASE k > Len(g)
          <6>1. PICK j \in 1 .. Len(h) : k = Len(g) + j
            <7>1. k - Len(g) \in 1 .. Len(h)
              BY <5>0, <5>2
            <7>2. PICK j : j = k - Len(g)
              OBVIOUS
            <7>3. k = Len(g) + j
              BY <5>0, <7>2
            <7> QED BY <7>1, <7>2, <7>3
          <6> QED BY <2>6, <4>1, <5>0, <6>1
        <5> QED BY <5>0, <5>1, <5>2
      <4> QED BY <4>1, <4>2
    <3>2. g \o h \o w \in Seq(Nat) /\ Len(g \o h \o w) = typed
          /\ \A k \in 1 .. typed : (g \o h \o w)[k] = k
      BY <2>6, <3>1, SMTT(30)
    <3>3. PICK q \in Seq(Nat) : q = g \o h \o w
      BY <3>2
    <3>4. q = [k \in 1 .. Len(q) |-> q[k]]
      OBVIOUS
    <3>5. Len(q) = typed /\ \A k \in 1 .. typed : q[k] = k
      BY <3>2, <3>3
    <3> QED BY <3>3, <3>4, <3>5
  <2> QED BY <2>2, <2>5, <2>7
<1>3. ReadInOrder
  BY <1>1, <1>2 DEF ReadInOrder, InputInv
<1> QED BY <1>1, <1>3 DEF InOrder

\* While the spinlock is free an interrupt is coming for buffered output, and
\* threads sleep only if a handler still has to wake them.
THEOREM InterruptCorrect == Spec => []InterruptWillCome
<1>1. IInv => InterruptWillCome
  <2> SUFFICES ASSUME IInv, ~ slock PROVE InterruptWillCome
    BY DEF InterruptWillCome
  <2>1. \A t \in Proc : pc[t] \notin Locked
    BY DEF IInv, LockInv
  <2>2. ~ Somewhere("drain") /\ ~ Somewhere("w_start") /\ \A c \in CPU : pc[c] # "take"
    BY <2>1 DEF Locked, Somewhere, Proc
  <2>3. write_count > 0 => wirqe /\ (busy \/ wirq)
    BY <2>2 DEF IInv, WriteInv
  <2>4. write_count = 0 => \A t \in Writer : pc[t] # "w_sleep"
    BY <2>2 DEF IInv, WriteInv, Somewhere, Proc, Thread
  <2>5. read_count > 0 => \/ \A t \in Reader : pc[t] # "r_sleep"
                          \/ \E c \in CPU : pc[c] = "r_wake"
    BY <2>2 DEF IInv, WakeInv, Somewhere, Proc, Thread
  <2> QED BY <2>3, <2>4, <2>5 DEF InterruptWillCome
<1> QED BY <1>1, Invariant, PTL

=============================================================================
