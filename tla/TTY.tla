-------------------------------- MODULE TTY --------------------------------
(***************************************************************************)
(* The interrupt driven terminal driver, drivers/tty.c, with the polling   *)
(* output of kprintf on the same terminal and under the same spinlock.     *)
(*                                                                         *)
(* The terminal works while the driver holds the spinlock, so a section    *)
(* under the spinlock is cut into steps where the code looks at the status *)
(* port or writes to the terminal.  The sleep queue is used as             *)
(* SleepQueueSpec promises; a woken thread waits for the spinlock again.   *)
(***************************************************************************)
EXTENDS Integers, Sequences, FiniteSets

CONSTANTS
    Writer,     \* threads in tty_write
    Reader,     \* threads in tty_read
    Printer,    \* threads in kprintf
    Together,   \* the sets of threads that use the terminal at the same time
    CPU,        \* where tty_interrupt_handle runs
    BufSize,    \* TTY_BUF_SIZE
    Length,     \* how many characters each writer writes per call
    ReadLen,    \* how many characters readers ask for
    MaxCalls,   \* bound: calls of each writer and printer
    MaxInput    \* bound: characters typed

ASSUME TTYAssumption ==
    /\ Together \subseteq SUBSET (Writer \cup Reader \cup Printer)
    /\ BufSize \in Nat \ {0} /\ ReadLen \in Nat \ {0}
    /\ MaxCalls \in Nat /\ MaxInput \in Nat
    /\ Length \in [Writer -> Nat \ {0}]
    /\ Writer \cap Printer = {}

Thread == Writer \cup Reader \cup Printer
Index  == 0 .. (BufSize - 1)
NoChar == [who |-> "none", call |-> 0, k |-> 0]

VARIABLES
    slock,                               \* the driver's spinlock is taken
    write_buf, write_head, write_count,  \* ring buffer of output
    read_buf, read_head, read_count,     \* ring buffer of input
    busy,      \* WBUSY: the terminal works on a character
    wirq,      \* WIRQ: a character was finished since the last reset
    wirqe,     \* write interrupts are enabled
    rirq,      \* RIRQ: a character was typed since the last reset
    input,     \* characters RAVAIL tells of
    out,       \* characters the driver gave to the terminal
    pc,        \* where each thread and handler is
    i,         \* how much of its call each writer has copied
    calls,     \* calls each writer and printer has made
    typed,     \* characters typed so far
    got,       \* history: characters tty_read returned, in order
    overrun    \* history: more than BufSize characters were unread

bufs   == <<write_buf, write_head, write_count, read_buf, read_head, read_count>>
device == <<busy, wirq, wirqe, rirq, input, out>>
vars   == <<slock, bufs, device, pc, i, calls, typed, got, overrun>>

\* tty_init.  Write interrupts are enabled from the start: the driver enables
\* them only in its handler.
Init ==
    /\ slock = FALSE
    /\ write_buf = [k \in Index |-> NoChar] /\ write_head = 0 /\ write_count = 0
    /\ read_buf = [k \in Index |-> 0] /\ read_head = 0 /\ read_count = 0
    /\ busy = FALSE /\ wirq = FALSE /\ wirqe = TRUE /\ rirq = FALSE
    /\ input = <<>> /\ out = <<>>
    /\ \E users \in Together :
          pc = [t \in Thread \cup CPU |-> IF t \in users \cup CPU THEN "idle" ELSE "none"]
    /\ i = [t \in Writer |-> 0]
    /\ calls = [t \in Writer \cup Printer |-> 0]
    /\ typed = 0 /\ got = <<>> /\ overrun = FALSE

Goto(t, label) == pc' = [pc EXCEPT ![t] = label]

\* spinlock_acquire and spinlock_release.
Acquire == ~ slock /\ slock' = TRUE
Release == slock' = FALSE

-----------------------------------------------------------------------------
(* The terminal *)

\* It has finished with a character.
Finish ==
    /\ busy
    /\ busy' = FALSE /\ wirq' = TRUE
    /\ UNCHANGED <<slock, bufs, wirqe, rirq, input, out, pc, i, calls, typed, got, overrun>>

\* Somebody types a character for the readers.
Type ==
    /\ typed < MaxInput /\ \E t \in Reader : pc[t] # "none"
    /\ typed' = typed + 1
    /\ input' = Append(input, typed + 1)
    /\ rirq' = TRUE
    /\ UNCHANGED <<slock, bufs, busy, wirq, wirqe, out, pc, i, calls, got, overrun>>

-----------------------------------------------------------------------------
(* Ring buffers *)

At(head, k) == (head + k) % BufSize

Contents(buf, head, count) == [k \in 1 .. count |-> buf[At(head, k - 1)]]

\* The oldest character of the write buffer goes to the terminal.
OutputOldest ==
    /\ out' = Append(out, write_buf[write_head])
    /\ busy' = TRUE
    /\ write_head' = At(write_head, 1)
    /\ write_count' = write_count - 1

-----------------------------------------------------------------------------
(* tty_write *)

WriteCall(t) ==
    /\ pc[t] = "idle" /\ calls[t] < MaxCalls
    /\ calls' = [calls EXCEPT ![t] = @ + 1]
    /\ i' = [i EXCEPT ![t] = 0]
    /\ Goto(t, "w_lock")
    /\ UNCHANGED <<slock, bufs, device, typed, got, overrun>>

\* The thread has the spinlock, or takes it now, and has characters to copy.
Copying(t) ==
    /\ (pc[t] = "w_lock" /\ ~ slock) \/ pc[t] = "write"
    /\ i[t] < Length[t]

\* Fault: a writer only waits while there is no room.
MustWait_ForRoom == write_count >= BufSize

MustWait == write_count > 0

\* sleepq_add, spinlock_release, thread_switch.
WriteSleep(t) ==
    /\ Copying(t) /\ MustWait
    /\ Release
    /\ Goto(t, "w_sleep")
    /\ UNCHANGED <<bufs, device, i, calls, typed, got, overrun>>

\* The k-th character of the current call of t.
Char(t, k) == [who |-> t, call |-> calls[t], k |-> k]

\* Fault: the buffer is filled one past its end.
Room_OffByOne(t) == IF Length[t] - i[t] <= BufSize + 1 - write_count
                    THEN Length[t] - i[t] ELSE BufSize + 1 - write_count

\* How many characters fit.
Room(t) == IF Length[t] - i[t] <= BufSize - write_count
           THEN Length[t] - i[t] ELSE BufSize - write_count

WriteFill(t) ==
    /\ Copying(t) /\ ~ MustWait
    /\ slock' = TRUE
    /\ write_buf' = [x \in Index |->
          LET ks == {k \in 1 .. Room(t) : At(write_head, write_count + k - 1) = x}
          IN  IF ks = {} THEN write_buf[x] ELSE Char(t, i[t] + CHOOSE k \in ks : TRUE)]
    /\ write_count' = write_count + Room(t)
    /\ i' = [i EXCEPT ![t] = @ + Room(t)]
    /\ Goto(t, "w_start")
    /\ UNCHANGED <<write_head, read_buf, read_head, read_count, device,
                   calls, typed, got, overrun>>

\* Fault: the terminal is left alone.
StartOutput_Never == UNCHANGED <<write_head, write_count, out, busy>>

\* A terminal that is not busy is given a character to make it interrupt.
StartOutput == IF busy THEN UNCHANGED <<write_head, write_count, out, busy>>
               ELSE OutputOldest

WriteStart(t) ==
    /\ pc[t] = "w_start"
    /\ StartOutput
    /\ Goto(t, "write")
    /\ UNCHANGED <<slock, write_buf, read_buf, read_head, read_count, wirq, wirqe,
                   rirq, input, i, calls, typed, got, overrun>>

WriteReturn(t) ==
    /\ pc[t] = "write" /\ i[t] = Length[t]
    /\ Release
    /\ Goto(t, "idle")
    /\ UNCHANGED <<bufs, device, i, calls, typed, got, overrun>>

-----------------------------------------------------------------------------
(* tty_read *)

ReadCall(t) ==
    /\ pc[t] = "idle"
    /\ Goto(t, "r_lock")
    /\ UNCHANGED <<slock, bufs, device, i, calls, typed, got, overrun>>

ReadSleep(t) ==
    /\ pc[t] = "r_lock" /\ ~ slock /\ read_count = 0
    /\ Goto(t, "r_sleep")
    /\ UNCHANGED <<slock, bufs, device, i, calls, typed, got, overrun>>

ReadReturn(t) ==
    /\ pc[t] = "r_lock" /\ ~ slock /\ read_count > 0
    /\ LET n == IF read_count < ReadLen THEN read_count ELSE ReadLen
       IN  /\ got' = got \o Contents(read_buf, read_head, n)
           /\ read_head' = At(read_head, n)
           /\ read_count' = read_count - n
    /\ Goto(t, "idle")
    /\ UNCHANGED <<slock, write_buf, write_head, write_count, read_buf, device, i, calls,
                   typed, overrun>>

-----------------------------------------------------------------------------
(* kprintf, one character of it: polltty_putchar under kprintf_slock *)

Kprintf(t) ==
    /\ pc[t] = "idle" /\ calls[t] < MaxCalls
    /\ Acquire
    /\ calls' = [calls EXCEPT ![t] = @ + 1]
    /\ Goto(t, "k_put")
    /\ UNCHANGED <<bufs, device, i, typed, got, overrun>>

KprintfPut(t) ==
    /\ pc[t] = "k_put" /\ ~ busy
    /\ busy' = TRUE
    /\ Goto(t, "k_wait")
    /\ UNCHANGED <<slock, bufs, wirq, wirqe, rirq, input, out, i, calls, typed, got, overrun>>

KprintfReturn(t) ==
    /\ pc[t] = "k_wait" /\ ~ busy
    /\ Release
    /\ Goto(t, "idle")
    /\ UNCHANGED <<bufs, device, i, calls, typed, got, overrun>>

-----------------------------------------------------------------------------
(* tty_interrupt_handle *)

\* sleepq_wake_all on the buffer threads at `label' sleep on.
WakeAll(label, next) ==
    [t \in Thread \cup CPU |-> IF pc[t] = label THEN next ELSE pc[t]]

\* The terminal interrupts and its status is read.
Interrupt(c) ==
    /\ pc[c] = "idle" /\ ((wirq /\ wirqe) \/ rirq)
    /\ Goto(c, IF wirq THEN "wirq" ELSE "r_check")
    /\ UNCHANGED <<slock, bufs, device, i, calls, typed, got, overrun>>

\* Write interrupts are disabled and reset.
Wirq(c) ==
    /\ pc[c] = "wirq"
    /\ Acquire
    /\ wirqe' = FALSE /\ wirq' = FALSE
    /\ Goto(c, "drain")
    /\ UNCHANGED <<bufs, busy, rirq, input, out, i, calls, typed, got, overrun>>

Drain(c) ==
    /\ pc[c] = "drain" /\ ~ busy /\ write_count > 0
    /\ wirq' = FALSE
    /\ OutputOldest
    /\ UNCHANGED <<slock, write_buf, read_buf, read_head, read_count, wirqe, rirq,
                   input, pc, i, calls, typed, got, overrun>>

\* Fault: sleeping writers are not woken.
Emptied_Never == FALSE

Emptied == write_count = 0

DrainEnd(c) ==
    /\ pc[c] = "drain" /\ (busy \/ write_count = 0)
    /\ wirqe' = TRUE
    /\ pc' = [(IF Emptied THEN WakeAll("w_sleep", "w_lock") ELSE pc)
                EXCEPT ![c] = "r_check"]
    /\ Release
    /\ UNCHANGED <<bufs, busy, wirq, rirq, input, out, i, calls, typed, got, overrun>>

RirqCheck(c) ==
    /\ pc[c] = "r_check"
    /\ Goto(c, IF rirq THEN "rirq" ELSE "idle")
    /\ UNCHANGED <<slock, bufs, device, i, calls, typed, got, overrun>>

Rirq(c) ==
    /\ pc[c] = "rirq"
    /\ Acquire
    /\ rirq' = FALSE
    /\ Goto(c, "take")
    /\ UNCHANGED <<bufs, busy, wirq, wirqe, input, out, i, calls, typed, got, overrun>>

\* The character is dropped when more than BufSize are unread.
Take(c) ==
    /\ pc[c] = "take" /\ input # <<>>
    /\ input' = Tail(input)
    /\ IF read_count > BufSize THEN UNCHANGED <<read_buf, read_count>>
       ELSE /\ read_buf' = [read_buf EXCEPT ![At(read_head, read_count)] = Head(input)]
            /\ read_count' = read_count + 1
    /\ overrun' = (overrun \/ read_count >= BufSize)
    /\ UNCHANGED <<slock, write_buf, write_head, write_count, read_head, busy, wirq,
                   wirqe, rirq, out, pc, i, calls, typed, got>>

TakeEnd(c) ==
    /\ pc[c] = "take" /\ input = <<>>
    /\ Release
    /\ Goto(c, "r_wake")
    /\ UNCHANGED <<bufs, device, i, calls, typed, got, overrun>>

\* The spinlock is released before the readers are woken.
WakeReaders(c) ==
    /\ pc[c] = "r_wake"
    /\ pc' = [WakeAll("r_sleep", "r_lock") EXCEPT ![c] = "idle"]
    /\ UNCHANGED <<slock, bufs, device, i, calls, typed, got, overrun>>

-----------------------------------------------------------------------------
Next ==
    \/ Finish \/ Type
    \/ \E t \in Writer : \/ WriteCall(t) \/ WriteSleep(t)
                         \/ WriteFill(t) \/ WriteStart(t) \/ WriteReturn(t)
    \/ \E t \in Reader : ReadCall(t) \/ ReadSleep(t) \/ ReadReturn(t)
    \/ \E t \in Printer : Kprintf(t) \/ KprintfPut(t) \/ KprintfReturn(t)
    \/ \E c \in CPU : \/ Interrupt(c) \/ Wirq(c) \/ Drain(c) \/ DrainEnd(c)
                      \/ RirqCheck(c) \/ Rirq(c) \/ Take(c) \/ TakeEnd(c) \/ WakeReaders(c)

Spec == Init /\ [][Next]_vars

\* The terminal finishes with every character, some CPU takes its interrupts,
\* threads and handlers go on, and who spins for the spinlock gets it some
\* time though others take it again and again.
Fairness ==
    /\ WF_vars(Finish) /\ WF_vars(\E c \in CPU : Interrupt(c))
    /\ \A t \in Writer : /\ SF_vars(WriteSleep(t) \/ WriteFill(t))
                         /\ WF_vars(WriteStart(t) \/ WriteReturn(t))
    /\ \A t \in Reader : SF_vars(ReadSleep(t) \/ ReadReturn(t))
    /\ \A t \in Printer : WF_vars(KprintfPut(t) \/ KprintfReturn(t))
    /\ \A c \in CPU : SF_vars(\/ Wirq(c) \/ Drain(c) \/ DrainEnd(c) \/ RirqCheck(c)
                               \/ Rirq(c) \/ Take(c) \/ TakeEnd(c) \/ WakeReaders(c))

FairSpec == Spec /\ Fairness

-----------------------------------------------------------------------------
(* What is checked *)

Labels == {"none", "idle", "w_lock", "write", "w_start", "w_sleep", "r_lock", "r_sleep",
           "k_put", "k_wait", "wirq", "drain", "r_check", "rirq", "take", "r_wake"}

\* The characters writers give to the driver.
Character == [who : Writer, call : 1 .. MaxCalls, k : Nat \ {0}]

\* Every variable has its type.  The count of unread characters can exceed the
\* buffer by one.
TypeOK ==
    /\ slock \in BOOLEAN
    /\ write_buf \in [Index -> Character \cup {NoChar}]
    /\ write_head \in Index /\ write_count \in 0 .. BufSize
    /\ read_buf \in [Index -> 0 .. MaxInput]
    /\ read_head \in Index /\ read_count \in 0 .. (BufSize + 1)
    /\ {busy, wirq, wirqe, rirq, overrun} \subseteq BOOLEAN
    /\ out \in Seq(Character)
    /\ typed \in 0 .. MaxInput
    /\ input \in Seq(1 .. MaxInput) /\ got \in Seq(1 .. MaxInput)
    /\ pc \in [Thread \cup CPU -> Labels]
    /\ i \in [Writer -> Nat] /\ \A t \in Writer : i[t] <= Length[t]
    /\ calls \in [Writer \cup Printer -> 0 .. MaxCalls]

\* What writers have given to the driver, in the order it goes out.
Stream == out \o Contents(write_buf, write_head, write_count)

\* The driver has taken the k-th character of the n-th call of writer t.
Taken(t, n, k) ==
    /\ n \in 1 .. calls[t] /\ k \in 1 .. Length[t]
    /\ n = calls[t] => k <= i[t]

\* Every character given to tty_write goes out, ...
NothingLost ==
    \A t \in Writer : \A n \in 1 .. calls[t] : \A k \in 1 .. Length[t] :
        Taken(t, n, k) =>
            \E x \in 1 .. Len(Stream) : Stream[x] = [who |-> t, call |-> n, k |-> k]

\* ... nothing else does, ...
NothingAdded ==
    \A x \in 1 .. Len(Stream) :
        Stream[x].who \in Writer /\ Taken(Stream[x].who, Stream[x].call, Stream[x].k)

\* ... once and in order, ...
NothingReordered ==
    \A x, y \in 1 .. Len(Stream) :
        x < y /\ Stream[x].who = Stream[y].who =>
            \/ Stream[x].call < Stream[y].call
            \/ Stream[x].call = Stream[y].call /\ Stream[x].k < Stream[y].k

\* ... and nothing of another call comes between the characters of one call
\* that fits the buffer.
CallsUnbroken ==
    \A x, z \in 1 .. Len(Stream) : \A y \in x .. z :
        /\ Stream[x].who = Stream[z].who /\ Stream[x].call = Stream[z].call
        /\ Length[Stream[x].who] <= BufSize
        => Stream[y].who = Stream[x].who /\ Stream[y].call = Stream[x].call

\* What tty_write is given goes out once and in order, however writers,
\* handlers on several CPUs and kprintf interleave.
OutputInOrder == NothingLost /\ NothingAdded /\ NothingReordered /\ CallsUnbroken

\* "If the device is busy, interrupt will appear by itself": while the spinlock
\* is free, characters in the write buffer have an interrupt coming, and
\* threads sleep on a buffer only if a handler still has to wake them.
InterruptWillCome ==
    ~ slock =>
        /\ write_count > 0 => wirqe /\ (busy \/ wirq)
        /\ write_count = 0 => \A t \in Writer : pc[t] # "w_sleep"
        /\ read_count > 0 => \/ \A t \in Reader : pc[t] # "r_sleep"
                             \/ \E c \in CPU : pc[c] = "r_wake"

\* Readers get what was typed, each character once and in order, as long as
\* no more than BufSize characters were unread; nothing typed is left in the
\* terminal without an interrupt that fetches it.
ReadInOrder ==
    /\ ~ overrun => got \o Contents(read_buf, read_head, read_count) \o input
                        = [n \in 1 .. typed |-> n]
    /\ input # <<>> => rirq \/ \E c \in CPU : pc[c] = "take"

\* Both directions keep the order of the characters.
InOrder == OutputInOrder /\ ReadInOrder

\* tty_write returns and what was written reaches the terminal; tty_read
\* returns once there is something to read that no other reader takes.
CallsReturn ==
    /\ \A t \in Writer : pc[t] = "w_lock" ~> pc[t] = "idle" /\ write_count = 0
    /\ \A t \in Reader : pc[t] = "r_sleep" /\ read_count > 0 ~>
                         pc[t] = "idle" \/ read_count = 0
=============================================================================
