---------------------------- MODULE NetworkProofs ----------------------------
(***************************************************************************)
(* Network satisfies its type invariant, keeps every frame in one place    *)
(* (a page is freed twice around a discard only), and, where programs do   *)
(* not share sockets, keeps sockets consistent and delivers right, for any *)
(* number of threads, sockets, slots of the queue, ports and pages.        *)
(***************************************************************************)
EXTENDS Network, TLAPS, FiniteSetTheorems, WellFoundedInduction

USE NetworkAssumption

-----------------------------------------------------------------------------
(* The inductive invariant *)

\* The slots with a frame in them that is not freed yet.
Queued == {i \in Slot \ Dangling : pop_queue[i].frame # None}

\* A frame is in one slot or free, and every page is one or the other.
PagesOnce ==
    /\ \A i \in Queued : pop_queue[i].frame \notin free
    /\ \A i, j \in Queued : pop_queue[i].frame = pop_queue[j].frame => i = j
    /\ \A p \in Page : p \in free \/ \E i \in Queued : pop_queue[i].frame = p

\* From the end of its scan the service thread works on a slot.  One that it
\* delivers is busy, has the frame that was seen there and is bound to a socket;
\* one that it discards has the frame again when it is freed.  No other slot is
\* busy.
SlotKept ==
    /\ service.pc \notin {"scan", "sleep"} => service.slot \in Slot /\ service.f \in Page
    /\ service.pc \in {"copy", "free", "wake", "clear"} =>
          pop_queue[service.slot].frame = service.f
    /\ service.pc \in {"copy", "free", "wake"} =>
          /\ pop_queue[service.slot].busy
          /\ pop_queue[service.slot].socket \in Socket
    /\ \A i \in Slot : pop_queue[i].busy =>
          service.pc \in {"copy", "free", "wake", "clear"} /\ service.slot = i

\* The header of a queued frame has the port it was sent to, and a socket it
\* is bound to that port, unless the socket was closed.
HeadersKept ==
    \A i \in Queued :
        LET q == pop_queue[i]
        IN  /\ header[q.frame] \in Port
            /\ ~ (service.pc = "free" /\ service.slot = i) => origin[i] = header[q.frame]
            /\ q.socket # None /\ i \notin rebound =>
                  \/ open_sockets[q.socket].protocol = "none"
                  \/ /\ open_sockets[q.socket].protocol = "POP"
                     /\ open_sockets[q.socket].port = header[q.frame]

PortsDistinct ==
    \A s, r \in Socket : (s # r /\ open_sockets[s].protocol # "none"
                          /\ open_sockets[r].protocol # "none")
                            => open_sockets[s].port # open_sockets[r].port

\* A thread receives from a socket in socket_recvfrom only.
ArgSound == \A t \in Thread : pc[t] = "idle" <=> arg[t] = None

\* The service thread has filled the buffer of the receiver at s and not yet
\* signalled it.
Serving(s) ==
    service.pc \in {"free", "wake"} /\ pop_queue[service.slot].socket = s

\* A socket has a receiver, its owner, or none.  While it has one, exactly one
\* of three is the case: the receiver's buffer is in the socket, the service
\* thread has filled it, or the receiver has been signalled.
ReceiversSound ==
    /\ \A t \in Thread : arg[t] # None =>
          /\ owner[arg[t]] = t /\ open_sockets[arg[t]].protocol = "POP"
          /\ \/ open_sockets[arg[t]].rbuf = t
             \/ (receive_complete[arg[t]] = 1 \/ Serving(arg[t])) /\ t \in filled
    /\ \A s \in Socket :
          /\ open_sockets[s].rbuf # None =>
                arg[open_sockets[s].rbuf] = s /\ receive_complete[s] = 0 /\ ~ Serving(s)
          /\ receive_complete[s] > 0 => ~ Serving(s) /\ \E t \in Thread : arg[t] = s
          /\ Serving(s) => \E t \in Thread : arg[t] = s
    /\ service.pc = "copy" => open_sockets[pop_queue[service.slot].socket].rbuf # None

\* No thread is left on the semaphore of a closed socket.
NoneLost == \A t \in Thread : pc[t] # "lost"

\* A page is freed twice only around a discard, and where sockets are not
\* shared nobody follows the pointers of a closed one.
FatalSound ==
    /\ fatal = "page" => /\ service.pc \in {"discard", "clear"}
                         /\ ~ pop_queue[service.slot].busy
    /\ Private => fatal # "null"

IInv ==
    /\ TypeOK /\ PagesOnce /\ SlotKept /\ HeadersKept /\ PortsDistinct /\ ArgSound /\ FatalSound
    /\ Private => ReceiversSound /\ NoneLost

-----------------------------------------------------------------------------
(* Choices *)

\* A set of natural numbers has a least one.
LEMMA LeastExists ==
    ASSUME NEW S \in SUBSET Nat, S # {}
    PROVE  \E k \in S : \A j \in S : k <= j
<1>1. PICK k \in S : \A j \in S : ~ (<<j, k>> \in OpToRel(<, Nat))
  BY NatLessThanWellFounded, WFMin, Zenon
<1>2. \A j \in S : ~ (j < k)
  BY <1>1 DEF OpToRel
<1> QED BY <1>2

LEMMA LowestFacts ==
    ASSUME NEW S \in SUBSET Nat, S # {}
    PROVE  Lowest(S) \in S /\ \A j \in S : Lowest(S) <= j
BY LeastExists DEF Lowest

\* pop_push_frame evicts from a slot that is not busy.
LEMMA OldestFacts ==
    ASSUME TypeOK, NotBusy # {}
    PROVE  Oldest \in NotBusy
<1> DEFINE stamps == {pop_queue[i].timestamp : i \in NotBusy}
<1>1. stamps \in SUBSET Nat /\ stamps # {}
  <2>1. \A i \in NotBusy : pop_queue[i].timestamp \in Nat
    BY DEF TypeOK, NotBusy, Slot
  <2> QED BY <2>1
<1>2. PICK k \in stamps : \A j \in stamps : k <= j
  BY <1>1, LeastExists
<1>3. \E i \in NotBusy : \A j \in NotBusy : pop_queue[i].timestamp <= pop_queue[j].timestamp
  BY <1>2
<1> QED BY <1>3 DEF Oldest

LEMMA NoneFacts == None \notin Page /\ None \notin Socket /\ None \notin Slot /\ NoHeader \notin Port
BY DEF None, Page, Socket, Slot, NoHeader

-----------------------------------------------------------------------------
(* Steps *)

\* A step that ends the model leaves everything as it was.
Halted ==
    /\ fatal' \in {"page", "null"}
    /\ fatal' = "page" => /\ service.pc \in {"discard", "clear"}
                          /\ ~ pop_queue[service.slot].busy
    /\ Private => fatal' # "null"
    /\ UNCHANGED <<open_sockets, receive_complete, pop_queue, service_sem,
                   free, header, service, threads, history>>

\* The slot of an accepted frame was free, or its frame is evicted; the service
\* thread does not work on it, unless to discard the frame.
Push(p, dport, i) ==
    /\ service.pc \notin {"scan", "sleep", "discard"} => i # service.slot
    /\ ~ pop_queue[i].busy
    /\ \/ pop_queue[i].frame = None /\ free' = free \ {p}
       \/ i \in Queued /\ free' = (free \ {p}) \cup {pop_queue[i].frame}
    /\ header' = [q \in Page |-> IF q = p THEN dport
                                 ELSE IF q = pop_queue[i].frame THEN NoHeader ELSE header[q]]
    /\ origin' = [origin EXCEPT ![i] = dport]
    /\ rebound' = rebound \ {i}
    /\ pop_queue' = [j \in Slot |->
          IF j = i THEN [frame |-> p, socket |-> None, timestamp |-> QueueSize, busy |-> FALSE]
          ELSE [pop_queue[j] EXCEPT !.timestamp = IF @ > pop_queue[i].timestamp THEN @ - 1 ELSE @]]
    /\ Signal
    /\ UNCHANGED <<open_sockets, receive_complete, service, threads, fatal, owner, filled>>

\* The service thread gives back the frame that it saw, which is still in its slot.
GivesBack(from, to) ==
    /\ service.pc = from /\ service' = [service EXCEPT !.pc = to]
    /\ pop_queue[service.slot].frame = service.f
    /\ Release(service.f)
    /\ UNCHANGED <<open_sockets, receive_complete, pop_queue, service_sem, threads, fatal, history>>

DiscardStep == GivesBack("discard", "clear")
FreeStep == GivesBack("free", "wake")

\* The service thread fills the buffer of a receiver, and wakes it.
CopyStep ==
    LET s == pop_queue[service.slot].socket
    IN  /\ service.pc = "copy" /\ service' = [service EXCEPT !.pc = "free"]
        /\ open_sockets[s].rbuf # None
        /\ filled' = filled \cup {open_sockets[s].rbuf}
        /\ origin' = [origin EXCEPT ![service.slot] = NoHeader]
        /\ open_sockets' = [open_sockets EXCEPT ![s].rbuf = None]
        /\ UNCHANGED <<receive_complete, pop_queue, service_sem, free, header,
                       threads, fatal, owner, rebound>>

WakeStep ==
    LET s == pop_queue[service.slot].socket
    IN  /\ service.pc = "wake" /\ service' = [service EXCEPT !.pc = "clear"]
        /\ receive_complete' = [receive_complete EXCEPT ![s] = @ + 1]
        /\ UNCHANGED <<open_sockets, pop_queue, service_sem, free, header,
                       threads, fatal, history>>

\* A frame that is queued is freed as the frame of its slot only.
LEMMA QueuedNotMisfreed ==
    ASSUME IInv, NEW i \in Queued
    PROVE  ~ Misfreed(pop_queue[i].frame, i)
<1>1. PagesOnce /\ TypeOK
  BY DEF IInv
<1>2. pop_queue[i].frame \notin free
  BY <1>1 DEF PagesOnce
<1>3. ASSUME NEW j \in Slot \ (Dangling \cup {i}), pop_queue[j].frame = pop_queue[i].frame
      PROVE  FALSE
  <2>1. j \in Queued
    BY <1>3 DEF Queued
  <2> QED BY <1>1, <1>3, <2>1 DEF PagesOnce
<1> QED BY <1>2, <1>3 DEF Misfreed

\* A page that is in no slot but i, and not free, is in slot i.
LEMMA NotMisfreed ==
    ASSUME IInv, NEW p \in Page, NEW i \in Slot, ~ Misfreed(p, i)
    PROVE  i \in Queued /\ pop_queue[i].frame = p
<1>1. PagesOnce
  BY DEF IInv
<1>2. PICK j \in Queued : pop_queue[j].frame = p
  BY <1>1 DEF PagesOnce, Misfreed
<1>3. j = i
  BY <1>2 DEF Misfreed, Queued
<1> QED BY <1>2, <1>3

LEMMA AcceptIsPush ==
    ASSUME IInv, NEW dport \in Port, free # {}, ReceiveFrame(Lowest(free), dport),
           UNCHANGED <<open_sockets, receive_complete, service, threads, owner, filled>>
    PROVE  Halted \/ \E p \in free, i \in Slot : Push(p, dport, i)
<1>0. TypeOK /\ SlotKept
  BY DEF IInv
<1>1. PICK p \in free : p = Lowest(free)
  <2>1. free \in SUBSET Nat
    BY <1>0 DEF TypeOK, Page
  <2> QED BY <2>1, LowestFacts
<1>2. PICK i \in Slot : Accept(p, dport, i)
  BY <1>1 DEF ReceiveFrame
<1>3. \/ pop_queue[i].frame = None
      \/ pop_queue[i].frame \in Page /\ ~ pop_queue[i].busy
  <2>1. CASE FreeSlots # {} /\ i = Lowest(FreeSlots)
    <3>1. FreeSlots \in SUBSET Nat
      BY DEF FreeSlots, Slot
    <3> QED BY <2>1, <3>1, LowestFacts DEF FreeSlots
  <2>2. CASE FreeSlots = {} /\ NotBusy # {} /\ i = Oldest
    BY <1>0, <2>2, OldestFacts DEF NotBusy, FreeSlots, TypeOK
  <2> QED BY <1>2, <2>1, <2>2 DEF Accept
<1>4. CASE pop_queue[i].frame = None
  <2>1. /\ service.pc \in {"copy", "free", "wake", "clear"} => i # service.slot
        /\ ~ pop_queue[i].busy
    BY <1>0, <1>4, NoneFacts DEF SlotKept
  <2>2. service.pc \notin {"scan", "sleep", "discard"} => i # service.slot
    BY <1>0, <2>1 DEF TypeOK
  <2>3. ({pop_queue[i].frame} \ {None}) = {}
    BY <1>4
  <2> QED BY <1>2, <1>4, <2>1, <2>2, <2>3 DEF Accept, Push
<1>5. CASE pop_queue[i].frame # None /\ Misfreed(pop_queue[i].frame, i)
  <2>1. i \notin Queued
    BY <1>5, QueuedNotMisfreed
  <2>2. service.pc \in {"wake", "clear"} /\ i = service.slot
    BY <1>5, <2>1 DEF Queued, Dangling
  <2>3. service.pc = "clear" /\ ~ pop_queue[i].busy
    BY <1>0, <1>3, <1>5, <2>2 DEF SlotKept
  <2> QED BY <1>2, <1>5, <2>2, <2>3 DEF Accept, Halt, Halted
<1>6. CASE pop_queue[i].frame # None /\ ~ Misfreed(pop_queue[i].frame, i)
  <2>1. i \in Queued
    BY <1>3, <1>6, NotMisfreed
  <2>2. service.pc \notin {"scan", "sleep", "discard"} => i # service.slot
    BY <1>0, <1>3, <1>6, <2>1 DEF TypeOK, SlotKept, Queued, Dangling
  <2>3. ({pop_queue[i].frame} \ {None}) = {pop_queue[i].frame}
    BY <1>6
  <2> QED BY <1>2, <1>3, <1>6, <2>1, <2>2, <2>3 DEF Accept, Push
<1> QED BY <1>4, <1>5, <1>6

\* What the service thread frees when it discards may have left its slot; what
\* it delivers has not.
LEMMA ServiceCases ==
    ASSUME IInv, Service
    PROVE  \/ Halted \/ Scan \/ Sleep \/ DiscardStep \/ CopyStep \/ FreeStep \/ WakeStep \/ Clear
<1>0. TypeOK /\ SlotKept /\ (Private => ReceiversSound)
  BY DEF IInv
<1>1. ASSUME Discard PROVE Halted \/ DiscardStep
  <2>1. service.pc = "discard" /\ service.slot \in Slot /\ service.f \in Page
    BY <1>0, <1>1 DEF Discard, GiveBack, ServiceAt, SlotKept
  <2>2. CASE Misfreed(service.f, service.slot)
    <3>1. ~ pop_queue[service.slot].busy
      BY <1>0, <2>1 DEF SlotKept
    <3> QED BY <1>1, <2>1, <2>2, <3>1 DEF Discard, GiveBack, Halt, Halted
  <2>3. CASE ~ Misfreed(service.f, service.slot)
    <3>1. pop_queue[service.slot].frame = service.f
      BY <2>1, <2>3, NotMisfreed
    <3> QED BY <1>1, <2>3, <3>1
            DEF Discard, GiveBack, ServiceStep, ServiceAt, DiscardStep, GivesBack
  <2> QED BY <2>2, <2>3
<1>2. ASSUME FreeFrame PROVE FreeStep
  <2>1. service.pc = "free" /\ service.slot \in Slot /\ service.f \in Page
        /\ pop_queue[service.slot].frame = service.f
    BY <1>0, <1>2 DEF FreeFrame, GiveBack, ServiceAt, SlotKept
  <2>2. service.slot \in Queued
    BY <2>1, NoneFacts DEF Queued, Dangling
  <2>3. ~ Misfreed(service.f, service.slot)
    BY <2>1, <2>2, QueuedNotMisfreed
  <2> QED BY <1>2, <2>1, <2>3
          DEF FreeFrame, GiveBack, ServiceStep, ServiceAt, FreeStep, GivesBack
<1>3. ASSUME Copy PROVE Halted \/ CopyStep
  <2> DEFINE receiver == open_sockets[pop_queue[service.slot].socket].rbuf
  <2>1. service.pc = "copy"
    BY <1>3 DEF Copy, CopyTo, ServiceAt
  <2>2. CASE receiver = None
    <3>1. ~ Private
      BY <1>0, <2>1, <2>2 DEF ReceiversSound
    <3> QED BY <1>3, <2>2, <3>1 DEF Copy, CopyTo, Halt, Halted
  <2>3. CASE receiver # None
    BY <1>3, <2>1, <2>3 DEF Copy, CopyTo, ServiceStep, CopyStep
  <2> QED BY <2>2, <2>3
<1>4. ASSUME Wake PROVE Halted \/ WakeStep
  <2> DEFINE s == pop_queue[service.slot].socket
  <2>1. service.pc = "wake" /\ s \in Socket
    BY <1>0, <1>4 DEF Wake, ServiceAt, SlotKept
  <2>2. CASE open_sockets[s].protocol = "none"
    <3>1. ~ Private
      <4> SUFFICES ASSUME Private PROVE FALSE
        OBVIOUS
      <4>1. Serving(s)
        BY <2>1 DEF Serving
      <4>2. PICK t \in Thread : arg[t] = s
        BY <1>0, <2>1, <4>1 DEF ReceiversSound
      <4> QED BY <1>0, <2>1, <2>2, <4>2, NoneFacts DEF ReceiversSound
    <3> QED BY <1>4, <2>2, <3>1 DEF Wake, Halt, Halted
  <2>3. CASE open_sockets[s].protocol # "none"
    BY <1>4, <2>1, <2>3 DEF Wake, ServiceStep, WakeStep
  <2> QED BY <2>2, <2>3
<1> QED BY <1>1, <1>2, <1>3, <1>4 DEF Service

\* The steps of the network: each action of the model, with sending and
\* receiving a frame taken together, and the steps that end it.
LEMMA StepCases ==
    ASSUME IInv, Next
    PROVE  \/ Halted
           \/ Scan \/ Sleep \/ DiscardStep \/ CopyStep \/ FreeStep \/ WakeStep \/ Clear
           \/ \E dport \in Port : \E p \in free, i \in Slot : Push(p, dport, i)
           \/ \E t \in Thread :
                 \/ RecvSignal(t) \/ RecvReturn(t) \/ StrayReturn(t)
                 \/ \E s \in Socket : RecvBegin(t, s) \/ SocketClose(t, s)
                 \/ \E protocol \in Protocol, port \in {0} \cup Port :
                       SocketOpen(t, protocol, port)
<1>1. ASSUME NEW dport \in Port, ReceiveThread(dport)
      PROVE  Halted \/ \E p \in free, i \in Slot : Push(p, dport, i)
  BY <1>1, AcceptIsPush DEF ReceiveThread
<1>2. ASSUME NEW t \in Thread, NEW s \in Socket, NEW dport \in Port, SendTo(t, s, dport)
      PROVE  Halted \/ \E p \in free, i \in Slot : Push(p, dport, i)
  BY <1>2, AcceptIsPush DEF SendTo, NetworkSend
<1>3. ASSUME NEW t \in Thread, RecvNull(t) PROVE Halted
  <2>1. ~ Private
    <3> SUFFICES ASSUME Private PROVE FALSE
      OBVIOUS
    <3>1. ArgSound /\ ReceiversSound
      BY DEF IInv
    <3> QED BY <1>3, <3>1 DEF RecvNull, At, ArgSound, ReceiversSound
  <2> QED BY <1>3, <2>1 DEF RecvNull, Halt, Halted
<1> QED BY <1>1, <1>2, <1>3, ServiceCases DEF Next, User, Receive

-----------------------------------------------------------------------------
(* The scan of the service thread *)

\* A frame is bound to a socket that listens at its port, or did when it was
\* open.
LEMMA BoundFacts ==
    ASSUME IInv, service.pc = "scan", NEW i \in Slot, pop_queue[i].frame # None
    PROVE  /\ Bound(i) \in Socket \cup {None}
           /\ Bound(i) # None /\ i \notin rebound =>
                 \/ open_sockets[Bound(i)].protocol = "none"
                 \/ /\ open_sockets[Bound(i)].protocol = "POP"
                    /\ open_sockets[Bound(i)].port = header[pop_queue[i].frame]
<1> DEFINE found == SocketsFor(header[pop_queue[i].frame])
<1>1. i \in Queued /\ TypeOK /\ HeadersKept
  BY DEF IInv, Queued, Dangling
<1>2. CASE pop_queue[i].socket = None /\ found # {}
  <2>1. found \in SUBSET Nat
    BY DEF SocketsFor, Socket
  <2>2. Lowest(found) \in found
    BY <1>2, <2>1, LowestFacts
  <2>3. Bound(i) = Lowest(found)
    BY <1>2 DEF Bound
  <2> QED BY <2>2, <2>3 DEF SocketsFor
<1>3. CASE ~ (pop_queue[i].socket = None /\ found # {})
  <2>1. Bound(i) = pop_queue[i].socket
    BY <1>3 DEF Bound
  <2> QED BY <1>1, <2>1 DEF TypeOK, HeadersKept
<1> QED BY <1>2, <1>3

\* What one pass over the queue finds: nothing to do, a frame that nobody
\* wants, or one that somebody waits for.
LEMMA ScanFacts ==
    ASSUME IInv, Scan
    PROVE  /\ service.pc = "scan"
           /\ pop_queue' \in [Slot -> [frame : Page \cup {None}, socket : Socket \cup {None},
                                       timestamp : Slot, busy : BOOLEAN]]
           /\ \A i \in Slot :
                 /\ pop_queue'[i].frame = pop_queue[i].frame
                 /\ \/ pop_queue'[i].socket = pop_queue[i].socket
                    \/ pop_queue[i].frame # None /\ pop_queue'[i].socket = Bound(i)
                 /\ pop_queue'[i].busy =>
                       pop_queue[i].busy \/ (service'.pc = "copy" /\ service'.slot = i)
           /\ \/ service' = [service EXCEPT !.pc = "sleep"]
              \/ \E slot \in Slot :
                    /\ pop_queue[slot].frame # None
                    /\ service' = [pc |-> "discard", slot |-> slot, f |-> pop_queue[slot].frame]
              \/ \E slot \in Slot :
                    /\ pop_queue[slot].frame # None
                    /\ service' = [pc |-> "copy", slot |-> slot, f |-> pop_queue[slot].frame]
                    /\ pop_queue'[slot].busy /\ pop_queue'[slot].socket \in Socket
                    /\ open_sockets[pop_queue'[slot].socket].rbuf # None
           /\ UNCHANGED <<open_sockets, receive_complete, service_sem, free, header,
                          threads, fatal, history>>
<1> DEFINE stops == {i \in Slot : Unwanted(i) \/ Expected(i)}
           slot == Lowest(stops)
           seen(i) == pop_queue[i].frame # None /\ (stops = {} \/ i <= slot)
<1>0. TypeOK /\ service.pc = "scan"
  BY DEF IInv, Scan, ServiceAt
<1>1. pop_queue' = [i \in Slot |->
         [pop_queue[i] EXCEPT !.socket = IF seen(i) THEN Bound(i) ELSE @,
                              !.busy = @ \/ (stops # {} /\ i = slot /\ Expected(i))]]
  BY DEF Scan, ServiceAt
<1>2. service' = IF stops = {} THEN [service EXCEPT !.pc = "sleep"]
                 ELSE [pc |-> IF Unwanted(slot) THEN "discard" ELSE "copy",
                       slot |-> slot, f |-> pop_queue[slot].frame]
  BY DEF Scan, ServiceAt
<1>3. stops \in SUBSET Nat
  BY DEF Slot
<1>4. stops # {} => slot \in stops
  BY <1>3, LowestFacts
<1> HIDE DEF stops, slot
<1>5. \A i \in Slot : seen(i) => Bound(i) \in Socket \cup {None}
  BY <1>0, BoundFacts
<1>6. ASSUME NEW i \in Slot
      PROVE  /\ pop_queue'[i].frame = pop_queue[i].frame
             /\ pop_queue'[i].timestamp = pop_queue[i].timestamp
             /\ pop_queue'[i].socket = IF seen(i) THEN Bound(i) ELSE pop_queue[i].socket
             /\ pop_queue'[i].busy = (pop_queue[i].busy \/ (stops # {} /\ i = slot /\ Expected(i)))
             /\ pop_queue'[i] \in [frame : Page \cup {None}, socket : Socket \cup {None},
                                   timestamp : Slot, busy : BOOLEAN]
  <2>1. pop_queue[i] \in [frame : Page \cup {None}, socket : Socket \cup {None},
                          timestamp : Slot, busy : BOOLEAN]
    BY <1>0 DEF TypeOK
  <2> QED BY <1>1, <1>5, <2>1
<1>7. pop_queue' \in [Slot -> [frame : Page \cup {None}, socket : Socket \cup {None},
                              timestamp : Slot, busy : BOOLEAN]]
  BY <1>1, <1>6
<1>8. ASSUME stops # {}, ~ Unwanted(slot)
      PROVE  /\ slot \in Slot /\ pop_queue[slot].frame # None
             /\ pop_queue'[slot].busy /\ pop_queue'[slot].socket \in Socket
             /\ open_sockets[pop_queue'[slot].socket].rbuf # None
  <2>1. slot \in Slot /\ Expected(slot)
    BY <1>4, <1>8 DEF stops
  <2>2. /\ pop_queue[slot].frame # None /\ open_sockets[Bound(slot)].rbuf # None
        /\ Bound(slot) # None
    BY <1>8, <2>1 DEF Expected, Unwanted
  <2>3. seen(slot) /\ slot \in Nat
    BY <2>1, <2>2 DEF Slot
  <2> QED BY <1>5, <1>6, <1>8, <2>1, <2>2, <2>3
<1>9. stops # {} /\ Unwanted(slot) => slot \in Slot /\ pop_queue[slot].frame # None
  BY <1>4 DEF stops, Unwanted
<1>10. \/ service' = [service EXCEPT !.pc = "sleep"]
       \/ \E k \in Slot :
             /\ pop_queue[k].frame # None
             /\ service' = [pc |-> "discard", slot |-> k, f |-> pop_queue[k].frame]
       \/ \E k \in Slot :
             /\ pop_queue[k].frame # None
             /\ service' = [pc |-> "copy", slot |-> k, f |-> pop_queue[k].frame]
             /\ pop_queue'[k].busy /\ pop_queue'[k].socket \in Socket
             /\ open_sockets[pop_queue'[k].socket].rbuf # None
  BY <1>2, <1>8, <1>9
<1>11. UNCHANGED <<open_sockets, receive_complete, service_sem, free, header, threads, fatal,
                       history>>
  BY DEF Scan, ServiceAt
<1>12. ASSUME NEW i \in Slot, stops # {}, i = slot, Expected(i)
       PROVE  service'.pc = "copy" /\ service'.slot = i
  <2>1. ~ Unwanted(slot)
    BY <1>12 DEF Expected
  <2> QED BY <1>2, <1>12, <2>1
<1> QED BY <1>0, <1>6, <1>7, <1>10, <1>11, <1>12

-----------------------------------------------------------------------------
(* Types *)

\* The port of a new socket is given or found, and no other open socket has it.
LEMMA PortForFacts ==
    ASSUME NEW t \in Thread, NEW protocol, NEW port \in {0} \cup Port,
           SocketOpen(t, protocol, port)
    PROVE  PortFor(port) \in Port /\ ~ PortTaken(PortFor(port))
<1> DEFINE ports == {p \in Port : ~ PortTaken(p)}
<1>1. CASE port = 0
  <2>1. ports # {} /\ ports \in SUBSET Nat
    BY <1>1 DEF SocketOpen, At
  <2>2. Lowest(ports) \in ports
    BY <2>1, LowestFacts
  <2> QED BY <1>1, <2>2 DEF PortFor
<1>2. CASE port # 0
  BY <1>2 DEF SocketOpen, At, PortFor
<1> QED BY <1>1, <1>2

\* Every action keeps the types.
LEMMA TypeStep == IInv /\ [Next]_vars => TypeOK'
<1> SUFFICES ASSUME IInv, [Next]_vars PROVE TypeOK'
  OBVIOUS
<1>0. /\ TypeOK /\ PagesOnce /\ SlotKept /\ HeadersKept /\ PortsDistinct /\ ArgSound
      /\ FatalSound /\ (Private => ReceiversSound /\ NoneLost)
  BY DEF IInv
<1> USE <1>0 DEF TypeOK, threads, history
<1>1. CASE UNCHANGED vars
  BY <1>1 DEF vars
<1>2. ASSUME Scan PROVE TypeOK'
  <2>1. /\ UNCHANGED <<open_sockets, receive_complete, service_sem, free, header, threads,
                       fatal, history>>
        /\ pop_queue' \in [Slot -> [frame : Page \cup {None}, socket : Socket \cup {None},
                          timestamp : Slot, busy : BOOLEAN]]
    BY <1>2, ScanFacts
  <2>2. /\ service'.pc \in {"sleep", "discard", "copy"}
        /\ service' \in [pc : {"scan", "sleep", "discard", "copy", "free", "wake", "clear"},
                        slot : Slot \cup {None}, f : Page \cup {None}]
    <3>1. CASE service' = [service EXCEPT !.pc = "sleep"]
      BY <3>1
    <3>2. CASE \E k \in Slot, l \in {"discard", "copy"} :
                  service' = [pc |-> l, slot |-> k, f |-> pop_queue[k].frame]
      BY <3>2
    <3> QED BY <1>2, ScanFacts, <3>1, <3>2
  <2> QED BY <2>1, <2>2
<1>3. ASSUME Sleep PROVE TypeOK'
  BY <1>3 DEF Sleep, ServiceStep, ServiceAt
<1>4. ASSUME DiscardStep PROVE TypeOK'
  <2>1. service.f \in Page
    BY <1>4 DEF DiscardStep, GivesBack, SlotKept
  <2> QED BY <1>4, <2>1 DEF DiscardStep, GivesBack, Release
<1>5. ASSUME CopyStep PROVE TypeOK'
  <2> DEFINE s == pop_queue[service.slot].socket
  <2>1. s \in Socket /\ service.slot \in Slot
    BY <1>5 DEF CopyStep, SlotKept
  <2>2. open_sockets[s].rbuf \in Thread
    <3>1. open_sockets[s] \in [protocol : Protocol \cup {"none"}, port : Port \cup {0},
                              rbuf : Thread \cup {None}]
      BY <2>1
    <3> QED BY <1>5, <3>1 DEF CopyStep
  <2>3. open_sockets' \in [Socket -> [protocol : Protocol \cup {"none"}, port : Port \cup {0},
                                     rbuf : Thread \cup {None}]]
    <3>1. open_sockets' = [open_sockets EXCEPT ![s].rbuf = None]
      BY <1>5 DEF CopyStep
    <3> HIDE DEF s
    <3> QED BY <2>1, <3>1
  <2>4. filled' \subseteq Thread /\ origin' \in [Slot -> Port \cup {NoHeader}]
    BY <1>5, <2>1, <2>2 DEF CopyStep
  <2> QED BY <1>5, <2>3, <2>4 DEF CopyStep
<1>6. ASSUME FreeStep PROVE TypeOK'
  <2>1. service.f \in Page
    BY <1>6 DEF FreeStep, GivesBack, SlotKept
  <2> QED BY <1>6, <2>1 DEF FreeStep, GivesBack, Release
<1>7. ASSUME WakeStep PROVE TypeOK'
  <2> DEFINE s == pop_queue[service.slot].socket
  <2>1. s \in Socket
    BY <1>7 DEF WakeStep, SlotKept
  <2>2. receive_complete' = [receive_complete EXCEPT ![s] = receive_complete[s] + 1]
    BY <1>7 DEF WakeStep
  <2>3. Private => receive_complete[s] = 0
    BY <1>7, <2>1 DEF ReceiversSound, Serving, WakeStep
  <2>4. /\ receive_complete' \in [Socket -> Nat]
        /\ Private => \A r \in Socket : receive_complete'[r] <= 1
    BY <2>1, <2>2, <2>3
  <2> QED BY <1>7, <2>4 DEF WakeStep
<1>8. ASSUME Clear PROVE TypeOK'
  <2>1. service.slot \in Slot
    BY <1>8 DEF Clear, ServiceAt, SlotKept
  <2>2. pop_queue[service.slot] \in [frame : Page \cup {None}, socket : Socket \cup {None},
                          timestamp : Slot, busy : BOOLEAN]
    BY <2>1
  <2>3. pop_queue' \in [Slot -> [frame : Page \cup {None}, socket : Socket \cup {None},
                          timestamp : Slot, busy : BOOLEAN]]
    BY <1>8, <2>1, <2>2 DEF Clear, ServiceAt
  <2> QED BY <1>8, <2>1, <2>3 DEF Clear, ServiceAt, Scanning
<1>9. ASSUME NEW dport \in Port, NEW p \in free, NEW i \in Slot, Push(p, dport, i) PROVE TypeOK'
  <2>1. p \in Page /\ QueueSize \in Slot
    BY DEF Slot
  <2>2. \A j \in Slot : pop_queue'[j] \in [frame : Page \cup {None}, socket : Socket \cup {None},
                          timestamp : Slot, busy : BOOLEAN]
    <3> SUFFICES ASSUME NEW j \in Slot
                 PROVE  pop_queue'[j] \in [frame : Page \cup {None}, socket : Socket \cup {None},
                          timestamp : Slot, busy : BOOLEAN]
      OBVIOUS
    <3>1. pop_queue[j] \in [frame : Page \cup {None}, socket : Socket \cup {None},
                          timestamp : Slot, busy : BOOLEAN]
          /\ pop_queue[i].timestamp \in Slot
      OBVIOUS
    <3>2. \A a, b \in Slot : a > b => a - 1 \in Slot
      BY DEF Slot
    <3> QED BY <1>9, <2>1, <3>1, <3>2 DEF Push
  <2>3. pop_queue' \in [Slot -> [frame : Page \cup {None}, socket : Socket \cup {None},
                          timestamp : Slot, busy : BOOLEAN]]
    BY <1>9, <2>2 DEF Push
  <2>4. free' \subseteq Page /\ header' \in [Page -> Port \cup {NoHeader}]
    <3>1. i \in Queued => pop_queue[i].frame \in Page
      BY DEF Queued
    <3> QED BY <1>9, <2>1, <3>1, NoneFacts DEF Push
  <2>5. service_sem' \in 0 .. MaxSignals
    BY <1>9 DEF Push, Signal
  <2> QED BY <1>9, <2>3, <2>4, <2>5 DEF Push
<1>10. ASSUME NEW t \in Thread, NEW protocol \in Protocol, NEW port \in {0} \cup Port,
             SocketOpen(t, protocol, port)
      PROVE  TypeOK'
  <2> DEFINE empty == {r \in Socket : open_sockets[r].protocol = "none"}
  <2>1. PICK s \in Socket : s = Lowest(empty)
    <3>1. empty \in SUBSET Nat
      BY DEF Socket
    <3> QED BY <1>10, <3>1, LowestFacts DEF SocketOpen, At
  <2>2. PortFor(port) \in Port
    BY <1>10, PortForFacts
  <2> QED BY <1>10, <2>1, <2>2 DEF SocketOpen, At
<1>11. ASSUME NEW t \in Thread, NEW s \in Socket, SocketClose(t, s) PROVE TypeOK'
  <2>1. ClosedSocket \in [protocol : Protocol \cup {"none"}, port : Port \cup {0},
                             rbuf : Thread \cup {None}]
    BY DEF ClosedSocket
  <2> QED BY <1>11, <2>1 DEF SocketClose, At
<1>12. ASSUME NEW t \in Thread, NEW s \in Socket, RecvBegin(t, s) PROVE TypeOK'
  BY <1>12, SMTT(30) DEF RecvBegin, At, MayReceive, Goto
<1>13. ASSUME NEW t \in Thread, RecvSignal(t) PROVE TypeOK'
  BY <1>13 DEF RecvSignal, At, Goto, Signal
<1>14. ASSUME NEW t \in Thread, RecvReturn(t) PROVE TypeOK'
  <2>1. arg[t] \in Socket
    BY <1>14 DEF RecvReturn, At, ArgSound
  <2>2. receive_complete' = [receive_complete EXCEPT ![arg[t]] = receive_complete[arg[t]] - 1]
        /\ receive_complete[arg[t]] > 0
    BY <1>14 DEF RecvReturn, At
  <2>3. /\ receive_complete' \in [Socket -> Nat]
        /\ Private => \A r \in Socket : receive_complete'[r] <= 1
    BY <2>1, <2>2
  <2> QED BY <1>14, <2>3 DEF RecvReturn, At, Return, Goto
<1>15. ASSUME NEW t \in Thread, StrayReturn(t) PROVE TypeOK'
  <2>1. /\ receive_complete' \in [Socket -> Nat]
        /\ Private => \A r \in Socket : receive_complete'[r] <= 1
    <3>1. CASE UNCHANGED receive_complete
      BY <3>1
    <3>2. CASE \E s \in Socket : /\ receive_complete[s] > 0
                                /\ receive_complete' = [receive_complete EXCEPT ![s] = @ - 1]
      BY <3>2
    <3> QED BY <1>15, <3>1, <3>2 DEF StrayReturn
  <2> QED BY <1>15, <2>1 DEF StrayReturn, Return, Goto
<1>16. ASSUME Halted PROVE TypeOK'
  BY <1>16 DEF Halted
<1> QED BY <1>1, <1>2, <1>3, <1>4, <1>5, <1>6, <1>7, <1>8, <1>9, <1>10, <1>11, <1>12,
         <1>13, <1>14, <1>15, <1>16, StepCases

-----------------------------------------------------------------------------
(* Frames *)

\* How each action changes the set of slots with a frame.
LEMMA QueuedFacts ==
    ASSUME IInv
    PROVE  /\ Scan \/ Sleep \/ CopyStep \/ WakeStep \/ Clear => Queued' = Queued
           /\ DiscardStep \/ FreeStep => Queued' = Queued \ {service.slot} /\ service.slot \in Queued
           /\ \A dport, p, i : i \in Slot /\ p \in free /\ Push(p, dport, i) =>
                 Queued' = Queued \cup {i}
           /\ UNCHANGED <<pop_queue, service>> => Queued' = Queued
<1>0. TypeOK /\ SlotKept
  BY DEF IInv
<1> USE <1>0 DEF TypeOK, Queued, Dangling
<1>1. Scan => Queued' = Queued
  <2> SUFFICES ASSUME Scan PROVE Queued' = Queued
    OBVIOUS
  <2>1. service.pc = "scan" /\ service'.pc \in {"sleep", "discard", "copy"}
        /\ \A i \in Slot : pop_queue'[i].frame = pop_queue[i].frame
    BY ScanFacts
  <2> QED BY <2>1
<1>2. Sleep \/ CopyStep \/ WakeStep => Queued' = Queued
  BY DEF Sleep, ServiceStep, ServiceAt, CopyStep, WakeStep
<1>3. Clear => Queued' = Queued
  BY DEF Clear, ServiceAt, Scanning, SlotKept
<1>4. DiscardStep \/ FreeStep => Queued' = Queued \ {service.slot} /\ service.slot \in Queued
  BY NoneFacts DEF DiscardStep, GivesBack, FreeStep, GivesBack, SlotKept
<1>5. ASSUME NEW dport, NEW p \in free, NEW i \in Slot, Push(p, dport, i)
      PROVE  Queued' = Queued \cup {i}
  <2>1. /\ pop_queue'[i].frame = p /\ p # None
        /\ \A j \in Slot : j # i => pop_queue'[j].frame = pop_queue[j].frame
        /\ UNCHANGED service /\ i \notin Dangling
    BY <1>5, NoneFacts DEF Push
  <2> QED BY <2>1
<1> QED BY <1>1, <1>2, <1>3, <1>4, <1>5

\* No frame is freed while it is queued, freed twice or lost.
LEMMA PagesStep == IInv /\ [Next]_vars => PagesOnce'
<1> SUFFICES ASSUME IInv, [Next]_vars PROVE PagesOnce'
  OBVIOUS
<1>0. /\ TypeOK /\ PagesOnce /\ SlotKept /\ HeadersKept /\ PortsDistinct /\ ArgSound
      /\ FatalSound /\ (Private => ReceiversSound /\ NoneLost)
  BY DEF IInv
<1> USE <1>0 DEF PagesOnce
<1>1. CASE UNCHANGED vars
  BY <1>1 DEF vars, Queued, Dangling
<1>2. ASSUME Scan PROVE PagesOnce'
  <2>1. /\ Queued' = Queued /\ UNCHANGED free /\ Queued \subseteq Slot
        /\ \A i \in Slot : pop_queue'[i].frame = pop_queue[i].frame
    BY <1>2, QueuedFacts, ScanFacts DEF Queued
  <2> QED BY <2>1
<1>3. ASSUME Sleep PROVE PagesOnce'
  <2>1. Queued' = Queued /\ UNCHANGED <<pop_queue, free>>
    BY <1>3, QueuedFacts DEF Sleep, ServiceStep, ServiceAt
  <2> QED BY <2>1
<1>4. ASSUME DiscardStep PROVE PagesOnce'
  <2>1. Queued' = Queued \ {service.slot} /\ service.slot \in Queued
    BY <1>4, QueuedFacts
  <2>2. /\ UNCHANGED pop_queue /\ free' = free \cup {service.f}
        /\ service.slot \in Slot /\ pop_queue[service.slot].frame = service.f
    BY <1>4 DEF DiscardStep, GivesBack, Release, SlotKept
  <2> QED BY <2>1, <2>2
<1>5. ASSUME CopyStep PROVE PagesOnce'
  <2>1. Queued' = Queued /\ UNCHANGED <<pop_queue, free>>
    BY <1>5, QueuedFacts DEF CopyStep
  <2> QED BY <2>1
<1>6. ASSUME FreeStep PROVE PagesOnce'
  <2>1. Queued' = Queued \ {service.slot} /\ service.slot \in Queued
    BY <1>6, QueuedFacts
  <2>2. /\ UNCHANGED pop_queue /\ free' = free \cup {service.f}
        /\ service.slot \in Slot /\ pop_queue[service.slot].frame = service.f
    BY <1>6 DEF FreeStep, GivesBack, Release, SlotKept
  <2> QED BY <2>1, <2>2
<1>7. ASSUME WakeStep PROVE PagesOnce'
  <2>1. Queued' = Queued /\ UNCHANGED <<pop_queue, free>>
    BY <1>7, QueuedFacts DEF WakeStep
  <2> QED BY <2>1
<1>8. ASSUME Clear PROVE PagesOnce'
  <2>1. /\ Queued' = Queued /\ UNCHANGED free /\ Queued \subseteq Slot
        /\ service.slot \notin Queued
    BY <1>8, QueuedFacts DEF Clear, ServiceAt, Queued, Dangling
  <2>2. \A i \in Queued : pop_queue'[i].frame = pop_queue[i].frame
    BY <1>8, <2>1 DEF Clear, ServiceAt, TypeOK
  <2> QED BY <2>1, <2>2
<1>9. ASSUME NEW dport \in Port, NEW p \in free, NEW i \in Slot, Push(p, dport, i)
      PROVE  PagesOnce'
  <2>1. /\ Queued' = Queued \cup {i} /\ Queued \subseteq Slot
        /\ pop_queue'[i].frame = p
        /\ \A j \in Slot : j # i => pop_queue'[j].frame = pop_queue[j].frame
    <3>1. Queued' = Queued \cup {i} /\ Queued \subseteq Slot
      BY <1>9, QueuedFacts DEF Queued
    <3> QED BY <1>9, <3>1 DEF Push, TypeOK
  <2>2. CASE i \notin Queued
    <3>1. free' = free \ {p}
      BY <1>9, <2>2 DEF Push
    <3> QED BY <2>1, <2>2, <3>1
  <2>3. CASE i \in Queued
    <3>1. free' = (free \ {p}) \cup {pop_queue[i].frame}
      BY <1>9, <2>3 DEF Push, Queued
    <3>2. \A j \in Queued : j # i => pop_queue[j].frame # pop_queue[i].frame
      BY <2>3
    <3>3. /\ \A j \in Queued' : pop_queue'[j].frame \notin free'
          /\ \A j, k \in Queued' : pop_queue'[j].frame = pop_queue'[k].frame => j = k
      BY <2>1, <2>3, <3>1, <3>2
    <3>4. \A q \in Page : q \in free' \/ \E j \in Queued' : pop_queue'[j].frame = q
      BY <2>1, <2>3, <3>1, <3>2
    <3> QED BY <3>3, <3>4
  <2> QED BY <2>2, <2>3
<1>10. ASSUME NEW t \in Thread, NEW protocol \in Protocol, NEW port \in {0} \cup Port,
             SocketOpen(t, protocol, port)
      PROVE  PagesOnce'
  <2>1. Queued' = Queued /\ UNCHANGED <<pop_queue, free>>
    BY <1>10, QueuedFacts DEF SocketOpen, At
  <2> QED BY <2>1
<1>11. ASSUME NEW t \in Thread, NEW s \in Socket, SocketClose(t, s) PROVE PagesOnce'
  <2>1. Queued' = Queued /\ UNCHANGED <<pop_queue, free>>
    BY <1>11, QueuedFacts DEF SocketClose, At
  <2> QED BY <2>1
<1>12. ASSUME NEW t \in Thread, NEW s \in Socket, RecvBegin(t, s) PROVE PagesOnce'
  <2>1. Queued' = Queued /\ UNCHANGED <<pop_queue, free>>
    BY <1>12, QueuedFacts DEF RecvBegin, At, MayReceive, Goto
  <2> QED BY <2>1
<1>13. ASSUME NEW t \in Thread, RecvSignal(t) PROVE PagesOnce'
  <2>1. Queued' = Queued /\ UNCHANGED <<pop_queue, free>>
    BY <1>13, QueuedFacts DEF RecvSignal, At, Goto
  <2> QED BY <2>1
<1>14. ASSUME NEW t \in Thread, RecvReturn(t) PROVE PagesOnce'
  <2>1. Queued' = Queued /\ UNCHANGED <<pop_queue, free>>
    BY <1>14, QueuedFacts DEF RecvReturn, At, Return, Goto
  <2> QED BY <2>1
<1>15. ASSUME NEW t \in Thread, StrayReturn(t) PROVE PagesOnce'
  <2>1. Queued' = Queued /\ UNCHANGED <<pop_queue, free>>
    BY <1>15, QueuedFacts DEF StrayReturn
  <2> QED BY <2>1
<1>16. ASSUME Halted PROVE PagesOnce'
  <2>1. Queued' = Queued /\ UNCHANGED <<pop_queue, free>>
    BY <1>16, QueuedFacts DEF Halted
  <2> QED BY <2>1
<1> QED BY <1>1, <1>2, <1>3, <1>4, <1>5, <1>6, <1>7, <1>8, <1>9, <1>10, <1>11, <1>12,
         <1>13, <1>14, <1>15, <1>16, StepCases

\* The slot the service thread works on is not taken from it, although it has
\* no lock.
LEMMA SlotStep == IInv /\ [Next]_vars => SlotKept'
<1> SUFFICES ASSUME IInv, [Next]_vars PROVE SlotKept'
  OBVIOUS
<1>0. /\ TypeOK /\ PagesOnce /\ SlotKept /\ HeadersKept /\ PortsDistinct /\ ArgSound
      /\ FatalSound /\ (Private => ReceiversSound /\ NoneLost)
  BY DEF IInv
<1> USE <1>0 DEF SlotKept
<1>1. CASE UNCHANGED vars
  BY <1>1 DEF vars
<1>2. ASSUME Scan PROVE SlotKept'
  <2>1. /\ \A i \in Slot : pop_queue'[i].frame = pop_queue[i].frame
        /\ \A i \in Slot : pop_queue[i].frame # None => pop_queue[i].frame \in Page
        /\ \A i \in Slot : ~ pop_queue[i].busy
        /\ \A i \in Slot : pop_queue'[i].busy => service'.pc = "copy" /\ service'.slot = i
    BY <1>2, ScanFacts DEF TypeOK
  <2>2. CASE service' = [service EXCEPT !.pc = "sleep"]
    <3>1. service'.pc = "sleep"
      BY <2>2 DEF TypeOK
    <3> QED BY <2>1, <3>1
  <2>3. CASE \E k \in Slot :
                /\ pop_queue[k].frame # None
                /\ service' = [pc |-> "discard", slot |-> k, f |-> pop_queue[k].frame]
    BY <2>1, <2>3
  <2>4. CASE \E k \in Slot :
                /\ pop_queue[k].frame # None
                /\ service' = [pc |-> "copy", slot |-> k, f |-> pop_queue[k].frame]
                /\ pop_queue'[k].busy /\ pop_queue'[k].socket \in Socket
    BY <2>1, <2>4
  <2> QED BY <1>2, ScanFacts, <2>2, <2>3, <2>4
<1>3. ASSUME Sleep PROVE SlotKept'
  BY <1>3 DEF Sleep, ServiceStep, ServiceAt
<1>4. ASSUME DiscardStep PROVE SlotKept'
  BY <1>4 DEF DiscardStep, GivesBack, Release
<1>5. ASSUME CopyStep PROVE SlotKept'
  BY <1>5 DEF CopyStep
<1>6. ASSUME FreeStep PROVE SlotKept'
  BY <1>6 DEF FreeStep, GivesBack, Release
<1>7. ASSUME WakeStep PROVE SlotKept'
  BY <1>7 DEF WakeStep
<1>8. ASSUME Clear PROVE SlotKept'
  <2>1. /\ service'.pc = "scan" /\ service.pc = "clear" /\ service.slot \in Slot
        /\ \A i \in Slot : i # service.slot => pop_queue'[i] = pop_queue[i]
        /\ ~ pop_queue'[service.slot].busy
    BY <1>8 DEF Clear, ServiceAt, Scanning, TypeOK
  <2> QED BY <2>1
<1>9. ASSUME NEW dport \in Port, NEW p \in free, NEW i \in Slot, Push(p, dport, i)
      PROVE  SlotKept'
  <2>1. /\ UNCHANGED service
        /\ service.pc \in {"copy", "free", "wake", "clear"} => i # service.slot
        /\ ~ pop_queue'[i].busy
        /\ \A j \in Slot : j # i =>
              /\ pop_queue'[j].frame = pop_queue[j].frame
              /\ pop_queue'[j].socket = pop_queue[j].socket
              /\ pop_queue'[j].busy = pop_queue[j].busy
    BY <1>9 DEF Push, TypeOK
  <2> QED BY <2>1
<1>10. ASSUME NEW t \in Thread, NEW protocol \in Protocol, NEW port \in {0} \cup Port,
             SocketOpen(t, protocol, port)
      PROVE  SlotKept'
  BY <1>10 DEF SocketOpen, At
<1>11. ASSUME NEW t \in Thread, NEW s \in Socket, SocketClose(t, s) PROVE SlotKept'
  BY <1>11 DEF SocketClose, At
<1>12. ASSUME NEW t \in Thread, NEW s \in Socket, RecvBegin(t, s) PROVE SlotKept'
  BY <1>12 DEF RecvBegin, At, MayReceive, Goto
<1>13. ASSUME NEW t \in Thread, RecvSignal(t) PROVE SlotKept'
  BY <1>13 DEF RecvSignal, At, Goto
<1>14. ASSUME NEW t \in Thread, RecvReturn(t) PROVE SlotKept'
  BY <1>14 DEF RecvReturn, At, Return, Goto
<1>15. ASSUME NEW t \in Thread, StrayReturn(t) PROVE SlotKept'
  BY <1>15 DEF StrayReturn
<1>16. ASSUME Halted PROVE SlotKept'
  BY <1>16 DEF Halted
<1> QED BY <1>1, <1>2, <1>3, <1>4, <1>5, <1>6, <1>7, <1>8, <1>9, <1>10, <1>11, <1>12,
         <1>13, <1>14, <1>15, <1>16, StepCases

-----------------------------------------------------------------------------
(* Headers and ports *)

\* socket_open takes a closed socket; frames bound to its row are bound again.
LEMMA OpenFacts ==
    ASSUME IInv, NEW t \in Thread, NEW protocol \in Protocol, NEW port \in {0} \cup Port,
           SocketOpen(t, protocol, port)
    PROVE  \E s \in Socket :
              /\ open_sockets[s].protocol = "none"
              /\ rebound' = rebound \cup {i \in Slot : pop_queue[i].frame # None
                                                     /\ pop_queue[i].socket = s}
              /\ open_sockets'[s] = [protocol |-> protocol, port |-> PortFor(port), rbuf |-> None]
              /\ \A r \in Socket : r # s => open_sockets'[r] = open_sockets[r]
              /\ receive_complete' = [receive_complete EXCEPT ![s] = 0]
              /\ owner' = [owner EXCEPT ![s] = t]
<1> DEFINE empty == {r \in Socket : open_sockets[r].protocol = "none"}
<1>1. PICK s \in empty : s = Lowest(empty)
  <2>1. empty \in SUBSET Nat /\ empty # {}
    BY DEF Socket, SocketOpen, At
  <2> QED BY <2>1, LowestFacts
<1>2. TypeOK
  BY DEF IInv
<1> QED BY <1>1, <1>2 DEF SocketOpen, At, TypeOK

\* The header, the binding and the sockets stay in step, whoever evicts, opens
\* or closes.
LEMMA HeadersStep == IInv /\ [Next]_vars => HeadersKept'
<1> SUFFICES ASSUME IInv, [Next]_vars PROVE HeadersKept'
  OBVIOUS
<1>0. /\ TypeOK /\ PagesOnce /\ SlotKept /\ HeadersKept /\ PortsDistinct /\ ArgSound
      /\ FatalSound /\ (Private => ReceiversSound /\ NoneLost)
  BY DEF IInv
<1> USE <1>0 DEF HeadersKept
<1>1. CASE UNCHANGED vars
  BY <1>1 DEF vars, Queued, Dangling, history
<1>2. ASSUME Scan PROVE HeadersKept'
  <2>1. /\ Queued' = Queued /\ Queued \subseteq Slot /\ service.pc = "scan"
        /\ \A i \in Queued : pop_queue[i].frame # None
    BY <1>2, QueuedFacts DEF Scan, ServiceAt, Queued
  <2>2. /\ UNCHANGED <<header, origin, open_sockets, rebound>>
        /\ \A i \in Slot : pop_queue'[i].frame = pop_queue[i].frame
        /\ \A i \in Slot : pop_queue'[i].socket = pop_queue[i].socket
                           \/ (pop_queue[i].frame # None /\ pop_queue'[i].socket = Bound(i))
    BY <1>2, ScanFacts DEF history
  <2>3. \A i \in Queued : pop_queue'[i].socket # None /\ i \notin rebound =>
           \/ open_sockets[pop_queue'[i].socket].protocol = "none"
           \/ /\ open_sockets[pop_queue'[i].socket].protocol = "POP"
              /\ open_sockets[pop_queue'[i].socket].port = header[pop_queue[i].frame]
    BY <2>1, <2>2, BoundFacts
  <2> QED BY <2>1, <2>2, <2>3
<1>3. ASSUME Sleep PROVE HeadersKept'
  <2>1. Queued' = Queued /\ UNCHANGED <<pop_queue, header, origin, open_sockets, rebound>>
    BY <1>3, QueuedFacts DEF Sleep, history
  <2>2. service.pc = "sleep" /\ service'.pc = "scan"
    BY <1>3 DEF Sleep, ServiceStep, ServiceAt, TypeOK
  <2> QED BY <2>1, <2>2
<1>4. ASSUME DiscardStep PROVE HeadersKept'
  <2>1. Queued' = Queued \ {service.slot} /\ service.slot \in Queued
    BY <1>4, QueuedFacts
  <2>2. /\ UNCHANGED <<pop_queue, origin, open_sockets, rebound>>
        /\ header' = [header EXCEPT ![service.f] = NoHeader]
        /\ pop_queue[service.slot].frame = service.f
        /\ service'.pc # "free" /\ (service.pc = "free" => service.slot \notin Queued')
    BY <1>4, <2>1 DEF DiscardStep, GivesBack, Release, SlotKept, TypeOK, history
  <2>3. \A i \in Queued' : /\ i \in Queued /\ i \in Slot /\ i # service.slot
                          /\ pop_queue[i].frame \in Page /\ pop_queue[i].frame # service.f
    BY <2>1, <2>2 DEF PagesOnce, TypeOK, Queued
  <2>4. \A i \in Queued' : header'[pop_queue[i].frame] = header[pop_queue[i].frame]
    BY <2>2, <2>3 DEF TypeOK
  <2> QED BY <2>2, <2>3, <2>4
<1>5. ASSUME CopyStep PROVE HeadersKept'
  <2>1. Queued' = Queued /\ Queued \subseteq Slot /\ UNCHANGED <<pop_queue, header, rebound>>
    BY <1>5, QueuedFacts DEF CopyStep, Queued
  <2>2. \A r \in Socket : /\ open_sockets'[r].protocol = open_sockets[r].protocol
                         /\ open_sockets'[r].port = open_sockets[r].port
    BY <1>5 DEF CopyStep, TypeOK
  <2>3. \A i \in Queued : pop_queue[i].socket # None => pop_queue[i].socket \in Socket
    BY <2>1 DEF TypeOK
  <2>4. /\ service.pc = "copy" /\ service'.pc = "free" /\ service'.slot = service.slot
        /\ \A i \in Slot : i # service.slot => origin'[i] = origin[i]
    BY <1>5 DEF CopyStep, TypeOK
  <2> QED BY <2>1, <2>2, <2>3, <2>4
<1>6. ASSUME FreeStep PROVE HeadersKept'
  <2>1. Queued' = Queued \ {service.slot} /\ service.slot \in Queued
    BY <1>6, QueuedFacts
  <2>2. /\ UNCHANGED <<pop_queue, origin, open_sockets, rebound>>
        /\ header' = [header EXCEPT ![service.f] = NoHeader]
        /\ pop_queue[service.slot].frame = service.f
        /\ service'.pc # "free" /\ (service.pc = "free" => service.slot \notin Queued')
    BY <1>6, <2>1 DEF FreeStep, GivesBack, Release, SlotKept, TypeOK, history
  <2>3. \A i \in Queued' : /\ i \in Queued /\ i \in Slot /\ i # service.slot
                          /\ pop_queue[i].frame \in Page /\ pop_queue[i].frame # service.f
    BY <2>1, <2>2 DEF PagesOnce, TypeOK, Queued
  <2>4. \A i \in Queued' : header'[pop_queue[i].frame] = header[pop_queue[i].frame]
    BY <2>2, <2>3 DEF TypeOK
  <2> QED BY <2>2, <2>3, <2>4
<1>7. ASSUME WakeStep PROVE HeadersKept'
  <2>1. Queued' = Queued /\ UNCHANGED <<pop_queue, header, origin, open_sockets, rebound>>
    BY <1>7, QueuedFacts DEF WakeStep, history
  <2>2. service.pc = "wake" /\ service'.pc = "clear"
    BY <1>7 DEF WakeStep, TypeOK
  <2> QED BY <2>1, <2>2
<1>8. ASSUME Clear PROVE HeadersKept'
  <2>1. /\ Queued' = Queued /\ UNCHANGED <<header, open_sockets>> /\ Queued \subseteq Slot
        /\ service.slot \notin Queued /\ service.pc = "clear" /\ service'.pc = "scan"
    BY <1>8, QueuedFacts DEF Clear, ServiceAt, Queued, Dangling, Scanning
  <2>2. \A i \in Queued : /\ pop_queue'[i] = pop_queue[i] /\ origin'[i] = origin[i]
                          /\ i \notin rebound' => i \notin rebound
    BY <1>8, <2>1 DEF Clear, ServiceAt, TypeOK
  <2> QED BY <2>1, <2>2
<1>9. ASSUME NEW dport \in Port, NEW p \in free, NEW i \in Slot, Push(p, dport, i)
      PROVE  HeadersKept'
  <2>1. Queued' = Queued \cup {i} /\ Queued \subseteq Slot
    BY <1>9, QueuedFacts DEF Queued
  <2>2. /\ UNCHANGED <<service, open_sockets>> /\ (service.pc = "free" => i # service.slot)
        /\ pop_queue'[i].frame = p /\ pop_queue'[i].socket = None
        /\ origin' = [origin EXCEPT ![i] = dport] /\ rebound' = rebound \ {i}
        /\ \A j \in Slot : j # i => /\ pop_queue'[j].frame = pop_queue[j].frame
                                   /\ pop_queue'[j].socket = pop_queue[j].socket
    BY <1>9 DEF Push, TypeOK
  <2>3. header'[p] = dport /\ p \in Page
    BY <1>9 DEF Push, TypeOK, Queued
  <2>4. \A j \in Queued : j # i => header'[pop_queue[j].frame] = header[pop_queue[j].frame]
    <3> SUFFICES ASSUME NEW j \in Queued, j # i
                 PROVE  header'[pop_queue[j].frame] = header[pop_queue[j].frame]
      OBVIOUS
    <3>1. pop_queue[j].frame \in Page /\ pop_queue[j].frame # p
      BY DEF PagesOnce, Queued, TypeOK
    <3>2. i \in Queued => pop_queue[j].frame # pop_queue[i].frame
      BY DEF PagesOnce
    <3>3. pop_queue[j].frame # pop_queue[i].frame
      BY <1>9, <3>1, <3>2, NoneFacts DEF Push
    <3>4. header' = [q \in Page |-> IF q = p THEN dport
                                   ELSE IF q = pop_queue[i].frame THEN NoHeader ELSE header[q]]
      BY <1>9 DEF Push
    <3> QED BY <3>1, <3>3, <3>4
  <2>5. \A j \in Queued : j # i => origin'[j] = origin[j]
    BY <2>1, <2>2 DEF TypeOK
  <2> QED BY <2>1, <2>2, <2>3, <2>4, <2>5 DEF TypeOK
<1>10. ASSUME NEW t \in Thread, NEW protocol \in Protocol, NEW port \in {0} \cup Port,
             SocketOpen(t, protocol, port)
      PROVE  HeadersKept'
  <2>1. /\ Queued' = Queued /\ Queued \subseteq Slot
        /\ UNCHANGED <<pop_queue, service, header, origin>>
    BY <1>10, QueuedFacts DEF SocketOpen, At, Queued
  <2>2. PICK s \in Socket :
           /\ \A r \in Socket : r # s => open_sockets'[r] = open_sockets[r]
           /\ rebound' = rebound \cup {i \in Slot : pop_queue[i].frame # None
                                                  /\ pop_queue[i].socket = s}
    BY ONLY IInv, t \in Thread, protocol \in Protocol, port \in {0} \cup Port,
            SocketOpen(t, protocol, port), OpenFacts
  <2>3. \A i \in Queued : /\ pop_queue[i].socket # None => pop_queue[i].socket \in Socket
                          /\ i \in Slot /\ pop_queue[i].frame # None
    BY <2>1 DEF TypeOK, Queued
  <2>4. \A i \in Queued : i \notin rebound' => i \notin rebound /\ pop_queue[i].socket # s
    BY <2>2, <2>3
  <2> QED BY <2>1, <2>2, <2>3, <2>4
<1>11. ASSUME NEW t \in Thread, NEW s \in Socket, SocketClose(t, s) PROVE HeadersKept'
  <2>1. /\ Queued' = Queued /\ Queued \subseteq Slot
        /\ UNCHANGED <<pop_queue, service, header, origin, rebound>>
    BY <1>11, QueuedFacts DEF SocketClose, At, Queued
  <2>2. /\ open_sockets'[s].protocol = "none"
        /\ \A r \in Socket : r # s => open_sockets'[r] = open_sockets[r]
    BY <1>11 DEF SocketClose, At, ClosedSocket, TypeOK
  <2>3. \A i \in Queued : pop_queue[i].socket # None => pop_queue[i].socket \in Socket
    BY <2>1 DEF TypeOK
  <2> QED BY <2>1, <2>2, <2>3
<1>12. ASSUME NEW t \in Thread, NEW s \in Socket, RecvBegin(t, s) PROVE HeadersKept'
  <2>1. /\ Queued' = Queued /\ Queued \subseteq Slot
        /\ UNCHANGED <<pop_queue, service, header, origin, rebound>>
    BY <1>12, QueuedFacts DEF RecvBegin, At, history, Queued
  <2>2. \A r \in Socket : /\ open_sockets'[r].protocol = open_sockets[r].protocol
                         /\ open_sockets'[r].port = open_sockets[r].port
    BY <1>12 DEF RecvBegin, At, TypeOK
  <2>3. \A i \in Queued : pop_queue[i].socket # None => pop_queue[i].socket \in Socket
    BY <2>1 DEF TypeOK
  <2> QED BY <2>1, <2>2, <2>3
<1>13. ASSUME NEW t \in Thread, RecvSignal(t) PROVE HeadersKept'
  <2>1. Queued' = Queued /\ UNCHANGED <<pop_queue, service, header, origin, open_sockets, rebound>>
    BY <1>13, QueuedFacts DEF RecvSignal, At, Goto, history
  <2> QED BY <2>1
<1>14. ASSUME NEW t \in Thread, RecvReturn(t) PROVE HeadersKept'
  <2>1. Queued' = Queued /\ UNCHANGED <<pop_queue, service, header, origin, open_sockets, rebound>>
    BY <1>14, QueuedFacts DEF RecvReturn, At, Return, Goto, history
  <2> QED BY <2>1
<1>15. ASSUME NEW t \in Thread, StrayReturn(t) PROVE HeadersKept'
  <2>1. Queued' = Queued /\ UNCHANGED <<pop_queue, service, header, origin, open_sockets, rebound>>
    BY <1>15, QueuedFacts DEF StrayReturn
  <2> QED BY <2>1
<1>16. ASSUME Halted PROVE HeadersKept'
  <2>1. Queued' = Queued /\ UNCHANGED <<pop_queue, service, header, origin, open_sockets, rebound>>
    BY <1>16, QueuedFacts DEF Halted, history
  <2> QED BY <2>1
<1> QED BY <1>1, <1>2, <1>3, <1>4, <1>5, <1>6, <1>7, <1>8, <1>9, <1>10, <1>11, <1>12,
         <1>13, <1>14, <1>15, <1>16, StepCases

\* No two open sockets have a port in common.
LEMMA PortStep == IInv /\ [Next]_vars => PortsDistinct'
<1> SUFFICES ASSUME IInv, [Next]_vars PROVE PortsDistinct'
  OBVIOUS
<1>0. /\ TypeOK /\ PagesOnce /\ SlotKept /\ HeadersKept /\ PortsDistinct /\ ArgSound
      /\ FatalSound /\ (Private => ReceiversSound /\ NoneLost)
  BY DEF IInv
<1> USE <1>0 DEF PortsDistinct
<1>1. CASE UNCHANGED vars
  BY <1>1 DEF vars
<1>2. ASSUME Scan PROVE PortsDistinct'
  <2>1. UNCHANGED open_sockets
    BY <1>2, ScanFacts
  <2> QED BY <2>1
<1>3. ASSUME Sleep PROVE PortsDistinct'
  <2>1. UNCHANGED open_sockets
    BY <1>3 DEF Sleep, ServiceStep, ServiceAt, history
  <2> QED BY <2>1
<1>4. ASSUME DiscardStep PROVE PortsDistinct'
  <2>1. UNCHANGED open_sockets
    BY <1>4 DEF DiscardStep, GivesBack, Release, history
  <2> QED BY <2>1
<1>5. ASSUME CopyStep PROVE PortsDistinct'
  <2>1. \A r \in Socket : /\ open_sockets'[r].protocol = open_sockets[r].protocol
                         /\ open_sockets'[r].port = open_sockets[r].port
    BY <1>5 DEF CopyStep, TypeOK
  <2> QED BY <2>1
<1>6. ASSUME FreeStep PROVE PortsDistinct'
  <2>1. UNCHANGED open_sockets
    BY <1>6 DEF FreeStep, GivesBack, Release, history
  <2> QED BY <2>1
<1>7. ASSUME WakeStep PROVE PortsDistinct'
  <2>1. UNCHANGED open_sockets
    BY <1>7 DEF WakeStep, history
  <2> QED BY <2>1
<1>8. ASSUME Clear PROVE PortsDistinct'
  <2>1. UNCHANGED open_sockets
    BY <1>8 DEF Clear, ServiceAt, Scanning, history
  <2> QED BY <2>1
<1>9. ASSUME NEW dport \in Port, NEW p \in free, NEW i \in Slot, Push(p, dport, i)
      PROVE  PortsDistinct'
  <2>1. UNCHANGED open_sockets
    BY <1>9 DEF Push, history
  <2> QED BY <2>1
<1>10. ASSUME NEW t \in Thread, NEW protocol \in Protocol, NEW port \in {0} \cup Port,
             SocketOpen(t, protocol, port)
      PROVE  PortsDistinct'
  <2>1. PICK s \in Socket :
           /\ open_sockets'[s] = [protocol |-> protocol, port |-> PortFor(port), rbuf |-> None]
           /\ \A r \in Socket : r # s => open_sockets'[r] = open_sockets[r]
    BY <1>10, OpenFacts
  <2>2. \A r \in Socket : open_sockets[r].protocol # "none" => open_sockets[r].port # PortFor(port)
    BY <1>10, PortForFacts DEF PortTaken
  <2> QED BY <2>1, <2>2
<1>11. ASSUME NEW t \in Thread, NEW s \in Socket, SocketClose(t, s) PROVE PortsDistinct'
  <2>1. /\ open_sockets'[s].protocol = "none"
        /\ \A r \in Socket : r # s => open_sockets'[r] = open_sockets[r]
    BY <1>11 DEF SocketClose, At, ClosedSocket, TypeOK
  <2> QED BY <2>1
<1>12. ASSUME NEW t \in Thread, NEW s \in Socket, RecvBegin(t, s) PROVE PortsDistinct'
  <2>1. \A r \in Socket : /\ open_sockets'[r].protocol = open_sockets[r].protocol
                         /\ open_sockets'[r].port = open_sockets[r].port
    BY <1>12 DEF RecvBegin, At, MayReceive, Goto, TypeOK
  <2> QED BY <2>1
<1>13. ASSUME NEW t \in Thread, RecvSignal(t) PROVE PortsDistinct'
  <2>1. UNCHANGED open_sockets
    BY <1>13 DEF RecvSignal, At, Goto, history
  <2> QED BY <2>1
<1>14. ASSUME NEW t \in Thread, RecvReturn(t) PROVE PortsDistinct'
  <2>1. UNCHANGED open_sockets
    BY <1>14 DEF RecvReturn, At, Return, Goto, history
  <2> QED BY <2>1
<1>15. ASSUME NEW t \in Thread, StrayReturn(t) PROVE PortsDistinct'
  <2>1. UNCHANGED open_sockets
    BY <1>15 DEF StrayReturn
  <2> QED BY <2>1
<1>16. ASSUME Halted PROVE PortsDistinct'
  <2>1. UNCHANGED open_sockets
    BY <1>16 DEF Halted
  <2> QED BY <2>1
<1> QED BY <1>1, <1>2, <1>3, <1>4, <1>5, <1>6, <1>7, <1>8, <1>9, <1>10, <1>11, <1>12,
         <1>13, <1>14, <1>15, <1>16, StepCases

\* A thread has a socket in socket_recvfrom only.
LEMMA ArgStep == IInv /\ [Next]_vars => ArgSound'
<1> SUFFICES ASSUME IInv, [Next]_vars PROVE ArgSound'
  OBVIOUS
<1>0. /\ TypeOK /\ PagesOnce /\ SlotKept /\ HeadersKept /\ PortsDistinct /\ ArgSound
      /\ FatalSound /\ (Private => ReceiversSound /\ NoneLost)
  BY DEF IInv
<1> USE <1>0 DEF ArgSound
<1>1. CASE UNCHANGED vars
  BY <1>1 DEF vars, threads
<1>2. ASSUME Scan PROVE ArgSound'
  <2>1. UNCHANGED threads
    BY <1>2, ScanFacts
  <2> QED BY <2>1 DEF threads
<1>3. ASSUME Sleep PROVE ArgSound'
  <2>1. UNCHANGED threads
    BY <1>3 DEF Sleep, ServiceStep, ServiceAt
  <2> QED BY <2>1 DEF threads
<1>4. ASSUME DiscardStep PROVE ArgSound'
  <2>1. UNCHANGED threads
    BY <1>4 DEF DiscardStep, GivesBack, Release
  <2> QED BY <2>1 DEF threads
<1>5. ASSUME CopyStep PROVE ArgSound'
  <2>1. UNCHANGED threads
    BY <1>5 DEF CopyStep
  <2> QED BY <2>1 DEF threads
<1>6. ASSUME FreeStep PROVE ArgSound'
  <2>1. UNCHANGED threads
    BY <1>6 DEF FreeStep, GivesBack, Release
  <2> QED BY <2>1 DEF threads
<1>7. ASSUME WakeStep PROVE ArgSound'
  <2>1. UNCHANGED threads
    BY <1>7 DEF WakeStep
  <2> QED BY <2>1 DEF threads
<1>8. ASSUME Clear PROVE ArgSound'
  <2>1. UNCHANGED threads
    BY <1>8 DEF Clear, ServiceAt, Scanning
  <2> QED BY <2>1 DEF threads
<1>9. ASSUME NEW dport \in Port, NEW p \in free, NEW i \in Slot, Push(p, dport, i)
      PROVE  ArgSound'
  <2>1. UNCHANGED threads
    BY <1>9 DEF Push
  <2> QED BY <2>1 DEF threads
<1>10. ASSUME NEW t \in Thread, NEW protocol \in Protocol, NEW port \in {0} \cup Port,
             SocketOpen(t, protocol, port)
      PROVE  ArgSound'
  <2>1. UNCHANGED threads
    BY <1>10 DEF SocketOpen, At
  <2> QED BY <2>1 DEF threads
<1>11. ASSUME NEW t \in Thread, NEW s \in Socket, SocketClose(t, s) PROVE ArgSound'
  <2>1. UNCHANGED arg /\ \A u \in Thread : pc'[u] = "idle" <=> pc[u] = "idle"
    BY <1>11 DEF SocketClose, TypeOK
  <2> QED BY <2>1
<1>12. ASSUME NEW t \in Thread, NEW s \in Socket, RecvBegin(t, s) PROVE ArgSound'
  BY <1>12, NoneFacts DEF RecvBegin, At, MayReceive, Goto, TypeOK
<1>13. ASSUME NEW t \in Thread, RecvSignal(t) PROVE ArgSound'
  BY <1>13 DEF RecvSignal, At, Goto, TypeOK
<1>14. ASSUME NEW t \in Thread, RecvReturn(t) PROVE ArgSound'
  BY <1>14 DEF RecvReturn, At, Return, Goto, TypeOK
<1>15. ASSUME NEW t \in Thread, StrayReturn(t) PROVE ArgSound'
  BY <1>15 DEF StrayReturn, Return, Goto, TypeOK
<1>16. ASSUME Halted PROVE ArgSound'
  BY <1>16 DEF Halted, threads
<1> QED BY <1>1, <1>2, <1>3, <1>4, <1>5, <1>6, <1>7, <1>8, <1>9, <1>10, <1>11, <1>12,
         <1>13, <1>14, <1>15, <1>16, StepCases

-----------------------------------------------------------------------------
(* Receivers *)

\* A socket has no two receivers.
LEMMA OneReceiver ==
    ASSUME ReceiversSound, NEW t \in Thread, NEW u \in Thread, arg[t] # None, arg[u] = arg[t]
    PROVE  t = u
BY DEF ReceiversSound

\* A socket that no thread receives from has nothing to give.
LEMMA NoReceiver ==
    ASSUME TypeOK, ReceiversSound, NEW s \in Socket, \A t \in Thread : arg[t] # s
    PROVE  open_sockets[s].rbuf = None /\ receive_complete[s] = 0 /\ ~ Serving(s)
BY DEF TypeOK, ReceiversSound

\* Where a socket is used by the thread that opened it only, its receiver, the
\* service thread and the semaphore stay in step.
LEMMA ReceiversStep == IInv /\ [Next]_vars => (Private => ReceiversSound)'
<1> SUFFICES ASSUME IInv, [Next]_vars, Private PROVE ReceiversSound'
  OBVIOUS
<1>0. /\ TypeOK /\ PagesOnce /\ SlotKept /\ HeadersKept /\ PortsDistinct /\ ArgSound
      /\ FatalSound /\ (Private => ReceiversSound /\ NoneLost)
  BY DEF IInv
<1> USE <1>0 DEF ReceiversSound
<1>1. CASE UNCHANGED vars
  BY <1>1 DEF vars, Serving, threads, history
<1>2. ASSUME Scan PROVE ReceiversSound'
  <2>1. /\ UNCHANGED <<open_sockets, receive_complete, arg, owner, filled>>
        /\ service.pc = "scan" /\ service'.pc \in {"sleep", "discard", "copy"}
        /\ service'.pc = "copy" => open_sockets[pop_queue'[service'.slot].socket].rbuf # None
    BY <1>2, ScanFacts DEF TypeOK, threads, history
  <2>2. \A x \in Socket : ~ Serving(x) /\ ~ Serving(x)'
    BY <2>1 DEF Serving
  <2> QED BY <2>1, <2>2, NoneFacts DEF TypeOK
<1>3. ASSUME Sleep PROVE ReceiversSound'
  <2>1. /\ UNCHANGED <<open_sockets, receive_complete, arg, owner, filled>>
        /\ service.pc \notin {"free", "wake"} /\ service'.pc \notin {"free", "wake", "copy"}
    BY <1>3 DEF Sleep, ServiceStep, ServiceAt, TypeOK, threads, history
  <2>2. \A x \in Socket : ~ Serving(x) /\ ~ Serving(x)'
    BY <2>1 DEF Serving
  <2> QED BY <2>1, <2>2, NoneFacts DEF TypeOK
<1>4. ASSUME DiscardStep PROVE ReceiversSound'
  <2>1. /\ UNCHANGED <<open_sockets, receive_complete, arg, owner, filled>>
        /\ service.pc \notin {"free", "wake"} /\ service'.pc \notin {"free", "wake", "copy"}
    BY <1>4 DEF DiscardStep, GivesBack, Release, TypeOK, threads, history
  <2>2. \A x \in Socket : ~ Serving(x) /\ ~ Serving(x)'
    BY <2>1 DEF Serving
  <2> QED BY <2>1, <2>2, NoneFacts DEF TypeOK
<1>5. ASSUME CopyStep PROVE ReceiversSound'
  <2>1. PICK s \in Socket : s = pop_queue[service.slot].socket
    BY <1>5 DEF CopyStep, SlotKept
  <2>2. PICK r \in Thread : r = open_sockets[s].rbuf /\ arg[r] = s /\ receive_complete[s] = 0
    BY <1>5, <2>1 DEF CopyStep, TypeOK
  <2>3. /\ \A x \in Socket : /\ open_sockets'[x].protocol = open_sockets[x].protocol
                            /\ open_sockets'[x].rbuf = IF x = s THEN None ELSE open_sockets[x].rbuf
        /\ filled' = filled \cup {r}
        /\ UNCHANGED <<receive_complete, arg, owner>>
        /\ service'.pc = "free"
    BY <1>5, <2>1, <2>2 DEF CopyStep, TypeOK, threads
  <2>4. \A x \in Socket : ~ Serving(x) /\ (Serving(x)' <=> x = s)
    BY <1>5, <2>1 DEF CopyStep, Serving, TypeOK
  <2>5. \A t \in Thread : arg[t] = s => t = r
    BY <2>2, NoneFacts, OneReceiver
  <2> QED BY <2>2, <2>3, <2>4, <2>5 DEF TypeOK
<1>6. ASSUME FreeStep PROVE ReceiversSound'
  <2>1. /\ UNCHANGED <<open_sockets, receive_complete, arg, owner, filled, pop_queue>>
        /\ service.pc = "free" /\ service'.pc = "wake" /\ service'.slot = service.slot
    BY <1>6 DEF FreeStep, GivesBack, Release, TypeOK, threads, history
  <2>2. \A x \in Socket : Serving(x)' <=> Serving(x)
    BY <2>1 DEF Serving
  <2> QED BY <2>1, <2>2, NoneFacts DEF TypeOK
<1>7. ASSUME WakeStep PROVE ReceiversSound'
  <2>1. PICK s \in Socket : s = pop_queue[service.slot].socket
    BY <1>7 DEF WakeStep, SlotKept
  <2>2. \A x \in Socket : (Serving(x) <=> x = s) /\ ~ Serving(x)'
    BY <1>7, <2>1 DEF WakeStep, Serving, TypeOK
  <2>3. open_sockets[s].rbuf = None /\ receive_complete[s] = 0
    BY <2>2 DEF TypeOK
  <2>4. /\ \A x \in Socket :
              receive_complete'[x] = IF x = s THEN 1 ELSE receive_complete[x]
        /\ UNCHANGED <<open_sockets, arg, owner, filled>>
        /\ service'.pc = "clear"
    BY <1>7, <2>1, <2>3 DEF WakeStep, TypeOK, threads, history
  <2> QED BY <2>2, <2>3, <2>4, NoneFacts DEF TypeOK
<1>8. ASSUME Clear PROVE ReceiversSound'
  <2>1. /\ UNCHANGED <<open_sockets, receive_complete, arg, owner, filled>>
        /\ service.pc \notin {"free", "wake"} /\ service'.pc \notin {"free", "wake", "copy"}
    BY <1>8 DEF Clear, ServiceAt, Scanning, TypeOK, threads, history
  <2>2. \A x \in Socket : ~ Serving(x) /\ ~ Serving(x)'
    BY <2>1 DEF Serving
  <2> QED BY <2>1, <2>2, NoneFacts DEF TypeOK
<1>9. ASSUME NEW dport \in Port, NEW p \in free, NEW i \in Slot, Push(p, dport, i)
      PROVE  ReceiversSound'
  <2>1. /\ UNCHANGED <<open_sockets, receive_complete, arg, owner, filled, service>>
        /\ service.pc \in {"copy", "free", "wake"} => service.slot \in Slot /\ i # service.slot
        /\ \A j \in Slot : j # i => pop_queue'[j].socket = pop_queue[j].socket
    BY <1>9 DEF Push, TypeOK, threads, SlotKept
  <2>2. \A x \in Socket : Serving(x)' <=> Serving(x)
    BY <2>1 DEF Serving
  <2> QED BY <2>1, <2>2, NoneFacts DEF TypeOK
<1>10. ASSUME NEW t \in Thread, NEW protocol \in Protocol, NEW port \in {0} \cup Port,
             SocketOpen(t, protocol, port)
      PROVE  ReceiversSound'
  <2>1. PICK s \in Socket :
           /\ open_sockets[s].protocol = "none"
           /\ open_sockets'[s] = [protocol |-> protocol, port |-> PortFor(port), rbuf |-> None]
           /\ \A r \in Socket : r # s => open_sockets'[r] = open_sockets[r]
           /\ receive_complete' = [receive_complete EXCEPT ![s] = 0]
           /\ owner' = [owner EXCEPT ![s] = t]
    BY ONLY IInv, t \in Thread, protocol \in Protocol, port \in {0} \cup Port,
            SocketOpen(t, protocol, port), OpenFacts
  <2>2. \A r \in Thread : arg[r] # s
    BY <1>10, <2>1, NoneFacts
  <2>3. open_sockets[s].rbuf = None /\ receive_complete[s] = 0 /\ ~ Serving(s)
    BY <2>2, NoReceiver
  <2>4. /\ UNCHANGED <<arg, filled, service, pop_queue>>
        /\ \A x \in Socket : x # s => /\ open_sockets'[x] = open_sockets[x]
                                     /\ receive_complete'[x] = receive_complete[x]
                                     /\ owner'[x] = owner[x]
        /\ open_sockets'[s].rbuf = None /\ receive_complete'[s] = 0
    BY <1>10, <2>1, <2>3 DEF SocketOpen, At, ClosedSocket, TypeOK, threads, history
  <2>5. \A x \in Socket : Serving(x)' <=> Serving(x)
    BY <2>4 DEF Serving
  <2>6. service.pc = "copy" => pop_queue[service.slot].socket \in Socket \ {s}
    BY <2>3 DEF SlotKept
  <2> QED BY <2>2, <2>3, <2>4, <2>5, <2>6, NoneFacts DEF TypeOK
<1>11. ASSUME NEW t \in Thread, NEW s \in Socket, SocketClose(t, s) PROVE ReceiversSound'
  <2>1. open_sockets' = [open_sockets EXCEPT ![s] = ClosedSocket]
    BY <1>11 DEF SocketClose, At
  <2>2. \A r \in Thread : arg[r] # s
    <3>1. owner[s] = t /\ arg[t] = None
      BY <1>11 DEF SocketClose, At, MayUse, ArgSound
    <3> QED BY <3>1, NoneFacts
  <2>3. open_sockets[s].rbuf = None /\ receive_complete[s] = 0 /\ ~ Serving(s)
    BY <2>2, NoReceiver
  <2>4. /\ UNCHANGED <<arg, filled, service, pop_queue>>
        /\ \A x \in Socket : x # s => /\ open_sockets'[x] = open_sockets[x]
                                     /\ receive_complete'[x] = receive_complete[x]
                                     /\ owner'[x] = owner[x]
        /\ open_sockets'[s].rbuf = None /\ receive_complete'[s] = 0
    BY <1>11, <2>1, <2>3 DEF SocketClose, At, ClosedSocket, TypeOK, threads, history
  <2>5. \A x \in Socket : Serving(x)' <=> Serving(x)
    BY <2>4 DEF Serving
  <2>6. service.pc = "copy" => pop_queue[service.slot].socket \in Socket \ {s}
    BY <2>3 DEF SlotKept
  <2> QED BY <2>2, <2>3, <2>4, <2>5, <2>6, NoneFacts DEF TypeOK
<1>12. ASSUME NEW t \in Thread, NEW s \in Socket, RecvBegin(t, s) PROVE ReceiversSound'
  <2>1. /\ owner[s] = t /\ arg[t] = None
        /\ open_sockets[s].protocol = "POP" /\ open_sockets[s].rbuf = None
    BY <1>12 DEF RecvBegin, At, MayReceive, MayUse, ArgSound
  <2>2. \A u \in Thread : arg[u] # s
    BY <2>1, NoneFacts
  <2>3. receive_complete[s] = 0 /\ ~ Serving(s)
    BY <2>2, NoReceiver
  <2>4. /\ UNCHANGED <<receive_complete, owner, filled, service, pop_queue>>
        /\ \A x \in Socket : /\ open_sockets'[x].protocol = open_sockets[x].protocol
                            /\ open_sockets'[x].rbuf = IF x = s THEN t ELSE open_sockets[x].rbuf
        /\ \A u \in Thread : arg'[u] = IF u = t THEN s ELSE arg[u]
    BY <1>12 DEF RecvBegin, At, TypeOK, history
  <2>5. \A x \in Socket : Serving(x)' <=> Serving(x)
    BY <2>4 DEF Serving
  <2>6. service.pc = "copy" => pop_queue[service.slot].socket \in Socket
    BY DEF SlotKept
  <2>7. ASSUME NEW u \in Thread, arg'[u] # None
        PROVE  /\ owner'[arg'[u]] = u /\ open_sockets'[arg'[u]].protocol = "POP"
               /\ \/ open_sockets'[arg'[u]].rbuf = u
                  \/ (receive_complete'[arg'[u]] = 1 \/ Serving(arg[u])') /\ u \in filled'
    <3>1. CASE u = t
      BY <2>1, <2>4, <3>1
    <3>2. CASE u # t
      <4>1. PICK x \in Socket : x = arg[u] /\ x = arg'[u] /\ x # s
        BY <2>2, <2>4, <2>7, <3>2 DEF TypeOK
      <4>2. arg[u] # None
        BY <4>1, NoneFacts
      <4>3. /\ owner[arg[u]] = u /\ open_sockets[arg[u]].protocol = "POP"
            /\ \/ open_sockets[arg[u]].rbuf = u
               \/ (receive_complete[arg[u]] = 1 \/ Serving(arg[u])) /\ u \in filled
        BY <4>2
      <4>4. Serving(arg[u])' <=> Serving(x)
        BY <2>4, <4>1 DEF Serving
      <4>5. /\ owner'[x] = owner[x] /\ open_sockets'[x].protocol = open_sockets[x].protocol
            /\ open_sockets'[x].rbuf = open_sockets[x].rbuf
            /\ receive_complete'[x] = receive_complete[x] /\ filled' = filled
        BY <2>4, <4>1
      <4> QED BY <4>1, <4>3, <4>4, <4>5
    <3> QED BY <3>1, <3>2
  <2>8. \A x \in Socket :
           /\ open_sockets'[x].rbuf # None =>
                 arg'[open_sockets'[x].rbuf] = x /\ receive_complete'[x] = 0 /\ ~ Serving(x)'
           /\ receive_complete'[x] > 0 => ~ Serving(x)' /\ \E u \in Thread : arg'[u] = x
           /\ Serving(x)' => \E u \in Thread : arg'[u] = x
    BY <2>1, <2>2, <2>3, <2>4, <2>5, NoneFacts DEF TypeOK
  <2>9. service'.pc = "copy" => open_sockets'[pop_queue'[service'.slot].socket].rbuf # None
    BY <2>4, <2>6
  <2> QED BY <2>7, <2>8, <2>9
<1>13. ASSUME NEW t \in Thread, RecvSignal(t) PROVE ReceiversSound'
  <2>1. UNCHANGED <<open_sockets, receive_complete, arg, owner, filled, service, pop_queue>>
    BY <1>13 DEF RecvSignal, At, Goto, history
  <2>2. \A x \in Socket : Serving(x)' <=> Serving(x)
    BY <2>1 DEF Serving
  <2> QED BY <2>1, <2>2, NoneFacts DEF TypeOK
<1>14. ASSUME NEW t \in Thread, RecvReturn(t) PROVE ReceiversSound'
  <2>1. PICK s \in Socket : s = arg[t] /\ receive_complete[s] > 0
    BY <1>14 DEF RecvReturn, At, ArgSound, TypeOK
  <2>2. receive_complete[s] = 1 /\ open_sockets[s].rbuf = None /\ ~ Serving(s)
    BY <2>1 DEF TypeOK
  <2>3. /\ UNCHANGED <<open_sockets, owner, service, pop_queue>>
        /\ filled' = filled \ {t}
        /\ \A x \in Socket : receive_complete'[x] = IF x = s THEN 0 ELSE receive_complete[x]
        /\ \A u \in Thread : arg'[u] = IF u = t THEN None ELSE arg[u]
    BY <1>14, <2>1, <2>2 DEF RecvReturn, At, Return, Goto, TypeOK
  <2>4. \A x \in Socket : Serving(x)' <=> Serving(x)
    BY <2>3 DEF Serving
  <2>5. \A u \in Thread : u # t => arg[u] # s
    BY <2>1, NoneFacts, OneReceiver
  <2> QED BY <2>1, <2>2, <2>3, <2>4, <2>5, NoneFacts, SMTT(30) DEF TypeOK
<1>15. ASSUME NEW t \in Thread, StrayReturn(t) PROVE ReceiversSound'
  BY <1>15 DEF StrayReturn, At, NoneLost
<1>16. ASSUME Halted PROVE ReceiversSound'
  <2>1. UNCHANGED <<open_sockets, receive_complete, arg, pc, owner, filled, service, pop_queue>>
    BY <1>16 DEF Halted, threads, history
  <2>2. \A x \in Socket : Serving(x)' <=> Serving(x)
    BY <2>1 DEF Serving
  <2> QED BY <2>1, <2>2, NoneFacts DEF TypeOK
<1> QED BY <1>1, <1>2, <1>3, <1>4, <1>5, <1>6, <1>7, <1>8, <1>9, <1>10, <1>11, <1>12,
         <1>13, <1>14, <1>15, <1>16, StepCases

\* Where a socket is used by the thread that opened it only, it is not closed
\* under a receiver.
LEMMA LostStep == IInv /\ [Next]_vars => (Private => NoneLost)'
<1> SUFFICES ASSUME IInv, [Next]_vars, Private PROVE NoneLost'
  OBVIOUS
<1>0. TypeOK /\ ArgSound /\ ReceiversSound /\ NoneLost
  BY DEF IInv
<1> USE <1>0 DEF NoneLost
<1>1. CASE UNCHANGED pc
  BY <1>1
<1>2. ASSUME NEW t \in Thread, NEW s \in Socket, SocketClose(t, s) PROVE NoneLost'
  <2>1. owner[s] = t /\ arg[t] = None
    BY <1>2 DEF SocketClose, At, MayUse, ArgSound
  <2>2. \A u \in Thread : arg[u] # s
    BY <2>1, NoneFacts DEF ReceiversSound
  <2> QED BY <1>2, <2>2 DEF SocketClose
<1>3. ASSUME NEW t \in Thread,
             \/ RecvSignal(t) \/ RecvReturn(t) \/ StrayReturn(t)
             \/ \E s \in Socket : RecvBegin(t, s)
      PROVE  NoneLost'
  BY <1>3 DEF RecvSignal, RecvReturn, StrayReturn, RecvBegin, Return, Goto, TypeOK
<1>4. ASSUME \/ Halted \/ Scan \/ Sleep \/ DiscardStep \/ CopyStep \/ FreeStep \/ WakeStep \/ Clear
             \/ \E dport \in Port : \E p \in free, i \in Slot : Push(p, dport, i)
             \/ \E t \in Thread, protocol \in Protocol, port \in {0} \cup Port :
                   SocketOpen(t, protocol, port)
      PROVE  UNCHANGED pc
  BY <1>4 DEF Halted, Scan, Sleep, DiscardStep, CopyStep, FreeStep, GivesBack, WakeStep, Clear,
              Push, SocketOpen, threads
<1>5. CASE UNCHANGED vars
  BY <1>1, <1>5 DEF vars, threads
<1> QED BY <1>1, <1>2, <1>3, <1>4, <1>5, StepCases

\* The model goes on to its end by steps that FatalSound allows, and stops there.
LEMMA FatalStep == IInv /\ [Next]_vars => FatalSound'
<1> SUFFICES ASSUME IInv, [Next]_vars PROVE FatalSound'
  OBVIOUS
<1>0. FatalSound
  BY DEF IInv
<1>1. CASE UNCHANGED vars
  BY <1>0, <1>1 DEF FatalSound, vars
<1>2. ASSUME Next PROVE fatal = "no"
  BY <1>2 DEF Next, Service, User, Receive, Scan, Sleep, Discard, Copy, CopyTo, FreeFrame,
              GiveBack, Wake, Clear, ServiceStep, ServiceAt, ReceiveThread, SendTo, RecvBegin,
              RecvSignal, RecvReturn, RecvNull, StrayReturn, SocketOpen, SocketClose, At
<1>3. ASSUME Halted PROVE FatalSound'
  BY <1>3 DEF Halted, FatalSound
<1>4. ASSUME \/ Scan \/ Sleep \/ DiscardStep \/ CopyStep \/ FreeStep \/ WakeStep \/ Clear
             \/ \E dport \in Port : \E p \in free, i \in Slot : Push(p, dport, i)
             \/ \E t \in Thread :
                   \/ RecvSignal(t) \/ RecvReturn(t) \/ StrayReturn(t)
                   \/ \E s \in Socket : RecvBegin(t, s) \/ SocketClose(t, s)
                   \/ \E protocol \in Protocol, port \in {0} \cup Port :
                         SocketOpen(t, protocol, port)
      PROVE  UNCHANGED fatal
  BY <1>4 DEF Scan, Sleep, DiscardStep, CopyStep, FreeStep, GivesBack, WakeStep, Clear, Push,
              RecvBegin, RecvSignal, RecvReturn, StrayReturn, SocketOpen, SocketClose
<1>5. ASSUME Next, UNCHANGED fatal PROVE FatalSound'
  BY <1>2, <1>5 DEF FatalSound
<1> QED BY <1>1, <1>3, <1>4, <1>5, StepCases

-----------------------------------------------------------------------------
(* The theorems *)

LEMMA InitInvariant == Init => IInv
<1> SUFFICES ASSUME Init PROVE IInv
  OBVIOUS
<1>1. TypeOK
  BY DEF Init, TypeOK, EmptyQueue, ClosedSocket, Scanning, NoHeader, Slot, None
<1>2. Queued = {} /\ free = Page /\ service.pc = "scan"
  BY NoneFacts DEF Init, Queued, EmptyQueue, Scanning
<1>3. PagesOnce /\ SlotKept /\ HeadersKept
  <2>1. \A i \in Slot : ~ pop_queue[i].busy
    BY DEF Init, EmptyQueue
  <2> QED BY <1>2, <2>1 DEF PagesOnce, SlotKept, HeadersKept
<1>4. PortsDistinct /\ ArgSound
  BY DEF Init, PortsDistinct, ArgSound, ClosedSocket
<1>6. FatalSound /\ NoneLost
  BY DEF Init, FatalSound, NoneLost
<1>5. ReceiversSound
  BY <1>2 DEF Init, ReceiversSound, Serving, ClosedSocket
<1> QED BY <1>1, <1>3, <1>4, <1>5, <1>6 DEF IInv

LEMMA Invariant == Spec => []IInv
<1>1. IInv /\ [Next]_vars => IInv'
  BY TypeStep, PagesStep, SlotStep, HeadersStep, PortStep, ArgStep, ReceiversStep,
     LostStep, FatalStep DEF IInv
<1> QED BY InitInvariant, <1>1, PTL DEF Spec

\* Every variable of the network keeps its type; where sockets are not shared,
\* no receiver is signalled twice.
THEOREM TypeCorrect == Spec => []TypeOK
<1>1. IInv => TypeOK
  BY DEF IInv
<1> QED BY Invariant, <1>1, PTL

\* The pages in the queue are as many as the slots that have one.
LEMMA FramesCounted == IInv => FramesInOnePlace
<1> SUFFICES ASSUME IInv PROVE FramesInOnePlace
  OBVIOUS
<1> DEFINE pages == {pop_queue[i].frame : i \in Queued}
<1>0. TypeOK /\ PagesOnce
  BY DEF IInv
<1>1. IsFiniteSet(Slot) /\ Cardinality(Slot) = QueueSize
  BY FS_Interval DEF Slot
<1>2. Queued \in SUBSET Slot
  BY DEF Queued
<1>3. /\ IsFiniteSet(Queued) /\ Cardinality(Queued) <= QueueSize
      /\ Cardinality(Queued) \in Nat
  BY <1>1, <1>2, FS_Subset, FS_CardinalityType
<1>4. Cardinality(pages) = Cardinality(Queued)
  <2> DEFINE page == [i \in Queued |-> pop_queue[i].frame]
  <2>1. page \in Injection(Queued, pages)
    BY <1>0 DEF Injection, IsInjective, PagesOnce
  <2>2. page \in Surjection(Queued, pages)
    BY DEF Surjection
  <2>3. ExistsBijection(Queued, pages)
    BY <2>1, <2>2 DEF Bijection, ExistsBijection
  <2> HIDE DEF pages
  <2> QED BY ONLY <1>3, <2>3, FS_Bijection
<1>5. pages \cap free = {} /\ pages \cup free = Page
  BY <1>0 DEF PagesOnce, TypeOK, Queued
<1>6. ASSUME NumPages > QueueSize, free = {} PROVE FALSE
  <2>1. pages = Page
    BY <1>5, <1>6
  <2>2. Cardinality(Page) = NumPages
    BY <1>6, FS_Interval DEF Page
  <2> HIDE DEF pages
  <2> QED BY <1>3, <1>4, <1>6, <2>1, <2>2
<1>7. FatalSound
  BY DEF IInv
<1> QED BY <1>4, <1>5, <1>6, <1>7 DEF FramesInOnePlace, Queued, FatalSound

\* However evictions, deliveries and discards interleave, and however sockets
\* are shared or closed under their receivers, every page for frames is free or
\* in one slot of the queue up to the step that frees one twice, with a page
\* more than slots one is always free, and pop_push_frame and
\* pop_service_thread give pagepool_free_phys_page a page that is not the
\* frame's only around a discard: the busy mark protects every delivery.
THEOREM FramesCorrect == Spec => []FramesInOnePlace
BY Invariant, FramesCounted, PTL

\* Where a socket is used by the thread that opened it only, ports are unique,
\* a thread in socket_recvfrom is one that pop_service_thread will signal or
\* has signalled after it filled the thread's buffer, nobody follows the pointers of a closed socket, and frames are
\* in one place, with a page freed twice around a discard only.
THEOREM SafetyCorrect ==
    ASSUME Private
    PROVE  Spec => []Safety
<1>1. IInv => SocketsSound
  <2> SUFFICES ASSUME IInv PROVE SocketsSound
    OBVIOUS
  <2>1. PortsDistinct /\ ArgSound /\ ReceiversSound /\ TypeOK /\ FatalSound
    BY DEF IInv
  <2>2. ASSUME NEW t \in Thread, pc[t] # "idle"
        PROVE  LET s == arg[t]
               IN  /\ open_sockets[s].protocol = "POP"
                   /\ \/ open_sockets[s].rbuf = t
                      \/ receive_complete[s] = 1 /\ t \in filled
                      \/ /\ service.pc \in {"free", "wake"} /\ pop_queue[service.slot].socket = s
                         /\ t \in filled
    <3>1. arg[t] # None
      BY <2>1, <2>2 DEF ArgSound
    <3>2. /\ open_sockets[arg[t]].protocol = "POP"
          /\ \/ open_sockets[arg[t]].rbuf = t
             \/ (receive_complete[arg[t]] = 1 \/ Serving(arg[t])) /\ t \in filled
      BY <2>1, <3>1 DEF ReceiversSound
    <3> QED BY <3>2 DEF Serving
  <2> QED BY <2>1, <2>2 DEF PortsDistinct, SocketsSound, FatalSound
<1>2. IInv => Safety
  BY <1>1, FramesCounted DEF Safety
<1> QED BY Invariant, <1>2, PTL

\* What pop_service_thread copies, after it gave up both locks, is the frame
\* that was put into the slot, to a receiver that still waits, at the port the
\* frame was sent to unless the row was opened again since the frame was bound.
THEOREM DeliveredCorrect ==
    ASSUME Private
    PROVE  Spec => []DeliveredRight
<1>1. IInv => DeliveredRight
  <2> SUFFICES ASSUME IInv, service.pc = "copy"
               PROVE  LET q == pop_queue[service.slot]
                      IN  /\ q.frame = service.f
                          /\ origin[service.slot] = header[service.f]
                          /\ header[service.f] # NoHeader
                          /\ open_sockets[q.socket].rbuf # None
                          /\ service.slot \notin rebound =>
                                open_sockets[q.socket].port = header[service.f]
    BY DEF DeliveredRight
  <2>1. TypeOK /\ SlotKept /\ HeadersKept /\ ReceiversSound
    BY DEF IInv
  <2>2. /\ service.slot \in Slot /\ service.f \in Page
        /\ pop_queue[service.slot].frame = service.f
        /\ pop_queue[service.slot].socket \in Socket
    BY <2>1 DEF SlotKept
  <2>3. service.slot \in Queued
    BY <2>2, NoneFacts DEF Queued, Dangling
  <2>4. open_sockets[pop_queue[service.slot].socket].rbuf # None
    BY <2>1 DEF ReceiversSound
  <2>5. open_sockets[pop_queue[service.slot].socket].protocol # "none"
    BY <2>1, <2>2, <2>4, NoneFacts DEF ReceiversSound, TypeOK
  <2>6. /\ header[service.f] \in Port /\ origin[service.slot] = header[service.f]
        /\ service.slot \notin rebound =>
              open_sockets[pop_queue[service.slot].socket].port = header[service.f]
    BY <2>1, <2>2, <2>3, <2>5, NoneFacts DEF HeadersKept
  <2> QED BY <2>2, <2>4, <2>6, NoneFacts
<1> QED BY Invariant, <1>1, PTL

\* Where a socket is used by the thread that opened it only, socket_recvfrom
\* returns to a thread only after its own buffer was filled.
THEOREM OwnFrames ==
    ASSUME Private
    PROVE  Spec => OwnFrameOnly
<1>1. IInv /\ [Next]_vars =>
         [\A t \in Thread : (pc[t] = "wait" /\ pc'[t] = "idle") => t \in filled]_vars
  <2> SUFFICES ASSUME IInv, Next, NEW t \in Thread, pc[t] = "wait", pc'[t] = "idle"
               PROVE  t \in filled
    OBVIOUS
  <2>1. TypeOK /\ ArgSound /\ ReceiversSound /\ NoneLost
    BY DEF IInv
  <2>2. RecvReturn(t)
    <3>1. ASSUME Halted \/ Scan \/ Sleep \/ DiscardStep \/ CopyStep \/ FreeStep \/ WakeStep \/ Clear
          PROVE  FALSE
      <4>1. UNCHANGED pc
        BY <3>1 DEF Halted, Scan, Sleep, DiscardStep, CopyStep, FreeStep, GivesBack, WakeStep,
                    Clear, threads
      <4> QED BY <4>1
    <3>2. ASSUME NEW dport \in Port, NEW p \in free, NEW i \in Slot, Push(p, dport, i)
          PROVE  FALSE
      BY <3>2 DEF Push, threads
    <3>3. ASSUME NEW u \in Thread, NEW s \in Socket, RecvBegin(u, s) \/ SocketClose(u, s)
          PROVE  FALSE
      BY <2>1, <3>3 DEF RecvBegin, At, SocketClose, At, Goto, threads, TypeOK
    <3>4. ASSUME NEW u \in Thread, NEW protocol \in Protocol, NEW port \in {0} \cup Port,
                 SocketOpen(u, protocol, port)
          PROVE  FALSE
      BY <3>4 DEF SocketOpen, At, threads
    <3>5. ASSUME NEW u \in Thread, RecvSignal(u) PROVE FALSE
      BY <2>1, <3>5 DEF RecvSignal, At, Goto, TypeOK
    <3>6. ASSUME NEW u \in Thread, RecvReturn(u) PROVE u = t
      BY <2>1, <3>6 DEF RecvReturn, At, Return, Goto, TypeOK
    <3>7. ASSUME NEW u \in Thread, StrayReturn(u) PROVE FALSE
      BY <2>1, <3>7 DEF StrayReturn, At, NoneLost
    <3> QED BY <3>1, <3>2, <3>3, <3>4, <3>5, <3>6, <3>7, StepCases
  <2>3. arg[t] \in Socket /\ receive_complete[arg[t]] > 0
    BY <2>1, <2>2 DEF RecvReturn, At, ArgSound, TypeOK
  <2>4. open_sockets[arg[t]].rbuf = None
    BY <2>1, <2>3 DEF ReceiversSound, TypeOK
  <2> QED BY <2>1, <2>3, <2>4, NoneFacts DEF ReceiversSound
<1> QED BY Invariant, <1>1, PTL DEF Spec, OwnFrameOnly

=============================================================================
