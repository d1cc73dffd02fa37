------------------------------ MODULE Network ------------------------------
(***************************************************************************)
(* Frames, sockets and POP: net/network.c, net/socket.c and net/pop.c.     *)
(*                                                                         *)
(* Threads open and close sockets, send and receive; a receive thread      *)
(* takes frames from the interface; the service thread takes frames from   *)
(* the queue to the sockets.  open_sockets_sem and pop_queue_sem are kept  *)
(* only inside one step each, and so is pop_send_buffer_sem: a sender that  *)
(* keeps it waits for nothing that another sender could give.               *)
(* A frame is a page of the page pool with the destination port of its     *)
(* header; payload, sender and source port go where the header goes and    *)
(* are left out.                                                           *)
(***************************************************************************)
EXTENDS Integers, Sequences, FiniteSets

CONSTANTS
    Thread,       \* threads that use sockets
    MaxSockets,   \* CONFIG_MAX_OPEN_SOCKETS
    QueueSize,    \* CONFIG_POP_QUEUE_SIZE
    Port,         \* port numbers, from 1
    NumPages,     \* pages of the pool for frames, beside the one of the receive thread
    Protocol,     \* protocols of the sockets that are opened, POP or SOP
    MaxSignals,   \* bound: so many pending wake-ups of the service thread, or more
    Private       \* TRUE: a socket is used by the thread that opened it only

None == 0
Page   == 1 .. NumPages
Socket == 1 .. MaxSockets
Slot   == 1 .. QueueSize

ASSUME NetworkAssumption ==
    /\ MaxSockets \in Nat /\ QueueSize \in Nat \ {0} /\ MaxSignals \in Nat \ {0}
    /\ Port \subseteq Nat \ {0}
    /\ NumPages \in Nat /\ Private \in BOOLEAN
    /\ Protocol \subseteq {"POP", "SOP"} /\ None \notin Thread

VARIABLES
    open_sockets,      \* protocol, port and waiting receiver (rbuf) of each socket
    receive_complete,  \* value of each socket's semaphore
    pop_queue,         \* frame, socket, timestamp and busy of each slot
    service_sem,       \* value of pop_service_thread_sem
    free,              \* pages free in the pool
    header,            \* dest_port in the header of the frame in each page
    service,           \* the service thread: where it is, slot and f
    pc, arg,           \* where each thread is; the socket it receives from
    fatal,             \* "page" or "null" once a page was freed that was not the
                       \* frame's, or a closed socket's pointers were followed
    owner,             \* history: the thread that opened each socket
    origin,            \* history: header of the frame that was put into each slot
    filled,            \* history: threads in socket_recvfrom whose buffer was filled
    rebound            \* history: slots with a frame whose socket's row was opened again

threads == <<pc, arg>>
history == <<owner, origin, filled, rebound>>
vars == <<open_sockets, receive_complete, pop_queue, service_sem,
          free, header, service, threads, fatal, history>>

ClosedSocket == [protocol |-> "none", port |-> 0, rbuf |-> None]
NoHeader == 0
Scanning == [pc |-> "scan", slot |-> None, f |-> None]
Lowest(S) == CHOOSE x \in S : \A y \in S : x <= y

EmptyQueue == [i \in Slot |-> [frame |-> None, socket |-> None, timestamp |-> i, busy |-> FALSE]]

\* network_init starts socket_init, protocols_init and the receive thread.
Init ==
    /\ open_sockets = [s \in Socket |-> ClosedSocket]
    /\ receive_complete = [s \in Socket |-> 0]
    /\ pop_queue = EmptyQueue
    /\ service_sem = 0
    /\ free = Page
    /\ header = [p \in Page |-> NoHeader]
    /\ service = Scanning
    /\ pc = [t \in Thread |-> "idle"]
    /\ arg = [t \in Thread |-> None]
    /\ owner = [s \in Socket |-> None]
    /\ origin = [i \in Slot |-> NoHeader]
    /\ filled = {} /\ rebound = {} /\ fatal = "no"

\* Where a thread, and the service thread, goes on, unless the kernel has stopped.
At(t, label) == fatal = "no" /\ pc[t] = label
ServiceAt(label) == fatal = "no" /\ service.pc = label
Goto(t, label) == pc' = [pc EXCEPT ![t] = label]
Return(t) == Goto(t, "idle") /\ arg' = [arg EXCEPT ![t] = None]

\* The model ends.  A NULL pointer is an exception that stops the kernel.  A
\* page that is freed and is free already fails the assertion of
\* pagepool_free_phys_page, which stops the kernel as well; one that has a new
\* frame in it is given out twice from now on, and what then becomes of its
\* contents is not modelled.
Halt(how) ==
    /\ fatal' = how
    /\ UNCHANGED <<open_sockets, receive_complete, pop_queue, service_sem,
                   free, header, service, threads, history>>

\* semaphore_V(pop_service_thread_sem)
Signal == service_sem' = IF service_sem < MaxSignals THEN service_sem + 1 ELSE service_sem

-----------------------------------------------------------------------------
(* Sockets *)

PortTaken(port) == \E s \in Socket : /\ open_sockets[s].protocol # "none"
                                     /\ open_sockets[s].port = port

\* Port 0 asks for the first free port.
PortFor(port) == IF port = 0 THEN Lowest({p \in Port : ~PortTaken(p)}) ELSE port

\* Restriction: programs do not share sockets.
MayUse(t, s) == Private => owner[s] = t

SocketOpen(t, protocol, port) ==
    LET empty == {s \in Socket : open_sockets[s].protocol = "none"}
        s == Lowest(empty)
    IN  /\ At(t, "idle") /\ empty # {}
        /\ IF port = 0 THEN \E p \in Port : ~PortTaken(p) ELSE ~PortTaken(port)
        /\ open_sockets' = [open_sockets EXCEPT ![s] =
                              [protocol |-> protocol, port |-> PortFor(port), rbuf |-> None]]
        /\ receive_complete' = [receive_complete EXCEPT ![s] = 0]
        /\ owner' = [owner EXCEPT ![s] = t]
        /\ rebound' = rebound \cup {i \in Slot : pop_queue[i].frame # None
                                               /\ pop_queue[i].socket = s}
        /\ UNCHANGED <<pop_queue, service_sem, free, header, service,
                       threads, fatal, origin, filled>>

\* A thread that waits at the socket sleeps already, and nobody will wake it
\* there, or has yet to read the pointer to the semaphore.
SocketClose(t, s) ==
    /\ At(t, "idle") /\ open_sockets[s].protocol # "none" /\ MayUse(t, s)
    /\ open_sockets' = [open_sockets EXCEPT ![s] = ClosedSocket]
    /\ receive_complete' = [receive_complete EXCEPT ![s] = 0]
    /\ \E asleep \in SUBSET {u \in Thread : pc[u] = "wait" /\ arg[u] = s} :
          pc' = [u \in Thread |-> IF u \in asleep THEN "lost" ELSE pc[u]]
    /\ owner' = [owner EXCEPT ![s] = None]
    /\ UNCHANGED <<pop_queue, service_sem, free, header, service,
                   arg, fatal, origin, filled, rebound>>

-----------------------------------------------------------------------------
(* The POP queue *)

FreeSlots == {i \in Slot : pop_queue[i].frame = None}

\* Fault: the busy flag is not looked at.
NotBusy_Fault == Slot

\* The slots pop_push_frame may take from the frame in it.
NotBusy == {i \in Slot : ~pop_queue[i].busy}

Oldest == CHOOSE i \in NotBusy : \A j \in NotBusy : pop_queue[i].timestamp <= pop_queue[j].timestamp

\* Slots whose frame the service thread has given back and not cleared yet.
Dangling == IF service.pc \in {"wake", "clear"} THEN {service.slot} ELSE {}

\* Page p, freed as the frame of slot i, is free already or another frame's.
Misfreed(p, i) == p \in free \/ \E j \in Slot \ (Dangling \cup {i}) : pop_queue[j].frame = p

\* Fault: the page does not become free.
Release_Fault(p) == free' = free /\ header' = [header EXCEPT ![p] = NoHeader]

\* network_free_frame; a page that is free may be overwritten.
Release(p) == free' = free \cup {p} /\ header' = [header EXCEPT ![p] = NoHeader]

\* pop_push_frame of the frame for dport in page p.  Timestamps are ranks: the
\* youngest slot has rank QueueSize.  When the queue is full, the oldest frame has to be
\* old enough, which it may or may not be.
Accept(p, dport, i) ==
    LET old == pop_queue[i].frame
    IN  /\ \/ FreeSlots # {} /\ i = Lowest(FreeSlots)
           \/ FreeSlots = {} /\ NotBusy # {} /\ i = Oldest
        /\ IF old # None /\ Misfreed(old, i) THEN Halt("page")
           ELSE /\ free' = (free \ {p}) \cup ({old} \ {None})
                /\ header' = [q \in Page |-> IF q = p THEN dport
                                             ELSE IF q = old THEN NoHeader ELSE header[q]]
                /\ origin' = [origin EXCEPT ![i] = dport]
                /\ rebound' = rebound \ {i}
                /\ pop_queue' = [j \in Slot |->
                      IF j = i
                      THEN [frame |-> p, socket |-> None, timestamp |-> QueueSize, busy |-> FALSE]
                      ELSE [pop_queue[j] EXCEPT !.timestamp =
                               IF @ > pop_queue[i].timestamp THEN @ - 1 ELSE @]]
                /\ Signal /\ UNCHANGED fatal

\* network_receive_frame: POP is the only protocol with a handler.
ReceiveFrame(p, dport) == \E i \in Slot : Accept(p, dport, i)

-----------------------------------------------------------------------------
(* Sending, and network_receive_thread *)

\* network_send takes a page and fills the frame, which for the loopback
\* address goes up to POP.  A frame that is not accepted, and one for another
\* address once it went out through every interface, gives its page back:
\* nothing has changed.
NetworkSend(dport) == free # {} /\ ReceiveFrame(Lowest(free), dport)

\* socket_sendto on a POP socket.
SendTo(t, s, dport) ==
    /\ At(t, "idle")
    /\ open_sockets[s].protocol = "POP" /\ MayUse(t, s)
    /\ NetworkSend(dport)
    /\ UNCHANGED <<open_sockets, receive_complete, service, threads, owner, filled>>

\* gnd->recv puts a frame for some port into the thread's page, and it is
\* pushed.  The thread always has a page beside the ones modelled: an accepted
\* frame takes it, and the thread takes a free one, which is the same as if it
\* had pushed the free one.  With an unknown protocol, or when the frame is not
\* accepted, it uses its page again.
ReceiveThread(dport) ==
    /\ fatal = "no" /\ free # {} /\ ReceiveFrame(Lowest(free), dport)
    /\ UNCHANGED <<open_sockets, receive_complete, service, threads, owner, filled>>

-----------------------------------------------------------------------------
(* Receiving *)

\* socket_recvfrom: only one thread receives from a socket at a time.
MayReceive(s) == open_sockets[s].protocol = "POP" /\ open_sockets[s].rbuf = None

RecvBegin(t, s) ==
    /\ At(t, "idle") /\ MayReceive(s) /\ MayUse(t, s)
    /\ open_sockets' = [open_sockets EXCEPT ![s].rbuf = t]
    /\ arg' = [arg EXCEPT ![t] = s]
    /\ Goto(t, "signal")
    /\ UNCHANGED <<receive_complete, pop_queue, service_sem, free, header, service,
                   fatal, history>>

\* Fault: the service thread is not woken for frames that came before the call.
RecvSignal_Fault(t) ==
    /\ At(t, "signal")
    /\ Goto(t, "wait")
    /\ UNCHANGED <<open_sockets, receive_complete, pop_queue, service_sem, free,
                   header, service, arg, fatal, history>>

RecvSignal(t) ==
    /\ At(t, "signal") /\ Signal
    /\ Goto(t, "wait")
    /\ UNCHANGED <<open_sockets, receive_complete, pop_queue, free, header, service,
                   arg, fatal, history>>

\* semaphore_P(receive_complete) of an open socket.
RecvReturn(t) ==
    /\ At(t, "wait") /\ receive_complete[arg[t]] > 0
    /\ receive_complete' = [receive_complete EXCEPT ![arg[t]] = @ - 1]
    /\ filled' = filled \ {t}
    /\ Return(t)
    /\ UNCHANGED <<open_sockets, pop_queue, service_sem, free, header, service,
                   fatal, owner, origin, rebound>>

\* semaphore_P(receive_complete) where the socket has been closed.
RecvNull(t) == At(t, "wait") /\ open_sockets[arg[t]].protocol = "none" /\ Halt("null")

\* The semaphore that a thread was left on is created again, for anyone, and
\* the thread is woken by a signal that was meant for its new users: those of
\* another socket, or others.
StrayReturn(t) ==
    /\ At(t, "lost")
    /\ \/ UNCHANGED receive_complete
       \/ \E s \in Socket : /\ receive_complete[s] > 0
                             /\ receive_complete' = [receive_complete EXCEPT ![s] = @ - 1]
    /\ filled' = filled \ {t}
    /\ Return(t)
    /\ UNCHANGED <<open_sockets, pop_queue, service_sem, free, header, service,
                   fatal, owner, origin, rebound>>

-----------------------------------------------------------------------------
(* pop_service_thread *)

\* Fault: the port is not compared.
SocketsFor_Fault(port) == {s \in Socket : open_sockets[s].protocol = "POP"}

\* The sockets that listen at a port.
SocketsFor(port) == {s \in Socket : /\ open_sockets[s].protocol = "POP"
                                    /\ open_sockets[s].port = port}

\* The socket a queued frame is bound to, now that the slot is looked at.
Bound(i) ==
    LET q == pop_queue[i]
        found == SocketsFor(header[q.frame])
    IN  IF q.socket = None /\ found # {} THEN Lowest(found) ELSE q.socket

Unwanted(i) == pop_queue[i].frame # None /\
               (Bound(i) = None \/ open_sockets[Bound(i)].protocol # "POP")
Expected(i) == pop_queue[i].frame # None /\ ~Unwanted(i) /\ open_sockets[Bound(i)].rbuf # None

\* One pass over the queue under both locks: the first slot whose frame nobody
\* wants or somebody waits for ends it.
Scan ==
    LET stops == {i \in Slot : Unwanted(i) \/ Expected(i)}
        slot  == Lowest(stops)
        seen(i) == pop_queue[i].frame # None /\ (stops = {} \/ i <= slot)
    IN  /\ ServiceAt("scan")
        /\ pop_queue' = [i \in Slot |->
              [pop_queue[i] EXCEPT !.socket = IF seen(i) THEN Bound(i) ELSE @,
                                   !.busy = @ \/ (stops # {} /\ i = slot /\ Expected(i))]]
        /\ service' = IF stops = {} THEN [service EXCEPT !.pc = "sleep"]
                      ELSE [pc |-> IF Unwanted(slot) THEN "discard" ELSE "copy",
                            slot |-> slot, f |-> pop_queue[slot].frame]
        /\ UNCHANGED <<open_sockets, receive_complete, service_sem, free, header,
                       threads, fatal, history>>

ServiceStep(from, to) == ServiceAt(from) /\ service' = [service EXCEPT !.pc = to]

\* MaxSignals pending wake-ups stand for that many or more.
Sleep ==
    /\ ServiceStep("sleep", "scan") /\ service_sem > 0
    /\ \/ service_sem' = service_sem - 1
       \/ service_sem = MaxSignals /\ UNCHANGED service_sem
    /\ UNCHANGED <<open_sockets, receive_complete, pop_queue, free, header,
                   threads, fatal, history>>

\* No lock is held from here on.  network_free_frame(f), whoever may have taken
\* the frame out of the slot since the scan.
GiveBack(from, to) ==
    /\ ServiceAt(from)
    /\ IF Misfreed(service.f, service.slot) THEN Halt("page")
       ELSE /\ ServiceStep(from, to)
            /\ Release(service.f)
            /\ UNCHANGED <<open_sockets, receive_complete, pop_queue, service_sem,
                           threads, fatal, history>>

Discard == GiveBack("discard", "clear")

\* The payload, the sender and its port go to the buffers of the receiver; a
\* socket that was closed since the scan has none.
CopyTo(buffer) ==
    LET s == pop_queue[service.slot].socket
        receiver == open_sockets[s].rbuf
    IN  /\ ServiceAt("copy")
        /\ IF receiver = None THEN Halt("null")
           ELSE /\ ServiceStep("copy", "free")
                /\ filled' = filled \cup {receiver}
                /\ origin' = [origin EXCEPT ![service.slot] = NoHeader]
                /\ open_sockets' = [open_sockets EXCEPT ![s].rbuf = buffer]
                /\ UNCHANGED <<receive_complete, pop_queue, service_sem, free, header,
                               threads, fatal, owner, rebound>>

\* Fault: the buffer stays in the socket.
Copy_Fault == CopyTo(open_sockets[pop_queue[service.slot].socket].rbuf)

\* The receiver's buffer is taken out of the socket.
Copy == CopyTo(None)

FreeFrame == GiveBack("free", "wake")

Wake ==
    LET s == pop_queue[service.slot].socket
    IN  /\ ServiceAt("wake")
        /\ IF open_sockets[s].protocol = "none" THEN Halt("null")
           ELSE /\ ServiceStep("wake", "clear")
                /\ receive_complete' = [receive_complete EXCEPT ![s] = @ + 1]
                /\ UNCHANGED <<open_sockets, pop_queue, service_sem, free, header,
                               threads, fatal, history>>

\* The slot is free; what is left in its other fields is never read.
Clear ==
    /\ ServiceAt("clear") /\ service' = Scanning
    /\ pop_queue' = [pop_queue EXCEPT ![service.slot].frame = None,
                                      ![service.slot].socket = None,
                                      ![service.slot].busy = FALSE]
    /\ origin' = [origin EXCEPT ![service.slot] = NoHeader]
    /\ rebound' = rebound \ {service.slot}
    /\ UNCHANGED <<open_sockets, receive_complete, service_sem, free, header,
                   threads, fatal, owner, filled>>

-----------------------------------------------------------------------------
\* Inside socket_recvfrom.
Receive(t) == RecvSignal(t) \/ RecvReturn(t) \/ RecvNull(t)

User(t) ==
    \/ Receive(t) \/ StrayReturn(t)
    \/ \E s \in Socket : \/ RecvBegin(t, s) \/ SocketClose(t, s)
                        \/ \E dport \in Port : SendTo(t, s, dport)
    \/ \E protocol \in Protocol, port \in {0} \cup Port : SocketOpen(t, protocol, port)

Service == Scan \/ Sleep \/ Discard \/ Copy \/ FreeFrame \/ Wake \/ Clear

Next ==
    \/ Service
    \/ \E dport \in Port : ReceiveThread(dport)
    \/ \E t \in Thread : User(t)

\* The scheduler runs every ready thread again and again: the service thread,
\* and threads inside socket_recvfrom, go on.
Fairness == WF_vars(Service) /\ \A t \in Thread : WF_vars(Receive(t))

Spec == Init /\ [][Next]_vars /\ Fairness

-----------------------------------------------------------------------------
(* Properties *)

\* Every variable has its type.
TypeOK ==
    /\ open_sockets \in [Socket -> [protocol : Protocol \cup {"none"}, port : Port \cup {0},
                                    rbuf : Thread \cup {None}]]
    /\ receive_complete \in [Socket -> Nat]
    /\ Private => \A s \in Socket : receive_complete[s] <= 1
    /\ pop_queue \in [Slot -> [frame : Page \cup {None}, socket : Socket \cup {None},
                               timestamp : Slot, busy : BOOLEAN]]
    /\ service_sem \in 0 .. MaxSignals
    /\ free \subseteq Page /\ header \in [Page -> Port \cup {NoHeader}]
    /\ service \in [pc : {"scan", "sleep", "discard", "copy", "free", "wake", "clear"},
                    slot : Slot \cup {None}, f : Page \cup {None}]
    /\ pc \in [Thread -> {"idle", "signal", "wait", "lost"}]
    /\ arg \in [Thread -> Socket \cup {None}]
    /\ owner \in [Socket -> Thread \cup {None}] /\ fatal \in {"no", "page", "null"}
    /\ origin \in [Slot -> Port \cup {NoHeader}]
    /\ filled \subseteq Thread /\ rebound \subseteq Slot

\* Every page for frames is either free or in one slot of the queue, whoever
\* evicts, discards or delivers: no frame is lost or freed while it is queued.
\* So a page more than the queue has slots is enough for
\* network_receive_thread always to find the next one, as it asserts.  The
\* assertion of pagepool_free_phys_page, 'Check that the page was reserved',
\* fails in one case only: pop_push_frame evicts a frame while the service
\* thread discards it, without a busy mark (pop.c:439).  Never is it a frame
\* that is being delivered, nor one of another slot.
FramesInOnePlace ==
    LET queued == {i \in Slot \ Dangling : pop_queue[i].frame # None}
        pages  == {pop_queue[i].frame : i \in queued}
    IN  /\ Cardinality(pages) = Cardinality(queued)
        /\ pages \cap free = {} /\ pages \cup free = Page
        /\ NumPages > QueueSize => free # {}
        /\ fatal = "page" => /\ service.pc \in {"discard", "clear"}
                             /\ ~pop_queue[service.slot].busy

\* What the service thread copies to a waiting receiver is the frame that was
\* put into the slot and was not delivered before, the receiver still waits,
\* although the thread has no lock any more, and its socket has the port the
\* frame was sent to, unless the row of the socket was closed and opened again
\* since the frame was bound to it.
DeliveredRight ==
    service.pc = "copy" =>
        LET q == pop_queue[service.slot]
        IN  /\ q.frame = service.f
            /\ origin[service.slot] = header[service.f] /\ header[service.f] # NoHeader
            /\ open_sockets[q.socket].rbuf # None
            /\ service.slot \notin rebound => open_sockets[q.socket].port = header[service.f]

\* socket_recvfrom returns to a thread only after its own buffer was filled,
\* where sockets are private: 'no one can foul up the FIFO in
\* open_sockets[s].receive_complete'.  Of two threads that receive from one
\* socket, the second may take the wake-up of the first.
OwnFrameOnly == [][\A t \in Thread : (pc[t] = "wait" /\ pc'[t] = "idle") => t \in filled]_vars

\* No two open sockets have a port in common, and a thread waits in
\* socket_recvfrom for a socket that will be signalled: the socket is open, and
\* either still has the thread's buffer, or the buffer was filled and the thread
\* is signalled or going to be.  So nobody follows the pointers of a socket that
\* is closed, and nobody is signalled without a frame.
SocketsSound ==
    /\ \A s, r \in Socket : (s # r /\ open_sockets[s].protocol # "none"
                             /\ open_sockets[r].protocol # "none")
                               => open_sockets[s].port # open_sockets[r].port
    /\ \A t \in Thread : pc[t] # "idle" =>
          LET s == arg[t]
          IN  /\ open_sockets[s].protocol = "POP"
              /\ \/ open_sockets[s].rbuf = t
                 \/ receive_complete[s] = 1 /\ t \in filled
                 \/ /\ service.pc \in {"free", "wake"} /\ pop_queue[service.slot].socket = s
                    /\ t \in filled
    /\ fatal # "null"

\* Frames and sockets stay consistent, whoever evicts, delivers, opens or closes.
Safety == FramesInOnePlace /\ SocketsSound

\* A thread that waits while a frame for its port is queued, not bound to the
\* row of another socket, gets a frame, or the frame is evicted: no wake-up of
\* the service thread is lost.  The one way it can wait forever is that frames
\* keep coming for the slots before it, which the service thread looks at first.
ReceiverServed ==
    \A t \in Thread, i \in Slot :
        LET q == pop_queue[i]
            due == /\ fatal = "no" /\ pc[t] = "wait" /\ q.frame # None
                   /\ header[q.frame] = open_sockets[arg[t]].port
                   /\ q.socket \in {None, arg[t]}
            before == service.slot \in 1 .. i - 1
        IN  (due ~> ~due) \/ []<>before
=============================================================================
