---------------------------- MODULE LinkEmulator ----------------------------
(***************************************************************************)
(* The link emulator of LabPC/Lab3: link.c with its three threads, the     *)
(* queue and condition variable they share, and the clock.                 *)
(*                                                                         *)
(* A critical section between lock and unlock contains nothing that        *)
(* blocks, so that it is one step.  A message is the number its sender     *)
(* gives it and whether its payload is as sent; number 0 is the message    *)
(* init() of lib.c sends, by which the emulator learns the address.        *)
(***************************************************************************)
EXTENDS Integers, Sequences, FiniteSets

CONSTANTS
    Count,               \* messages the near end sends after the first one
    Answers,             \* messages the far end sends after the first one
    BUFFER_SIZE,         \* messages the buffer holds
    serialization_delay, delay,  \* in ticks
    Loses,               \* TRUE: loss > 0
    Corrupts,            \* TRUE: corrupt > 0
    MaxLate              \* ticks a thread may be kept from running in this model

ASSUME LinkAssumption ==
    /\ Count \in Nat
    /\ Answers \in Nat
    /\ BUFFER_SIZE \in Nat \ {0}
    /\ serialization_delay \in Nat
    /\ delay \in Nat
    /\ Loses \in BOOLEAN
    /\ Corrupts \in BOOLEAN
    /\ MaxLate \in Nat

VARIABLES
    \* the two ends and their sockets
    sent1, sent2,  \* messages each end has sent
    sock1, sock2,  \* received on each port and not read
    out1, out2,    \* sent to each end
    \* run_forwarding
    fwd,           \* "receive", "check" or "decide"
    held,          \* its message m
    overflow,
    \* link_scheduler
    sched,         \* "top", "deliver", "look", "load", "rest", "asleep", "waiting"
                   \* (on the condition), or "aborted" by an assertion
    crt_time, idle_time, stuff,
    in_flight,     \* messages on the line, each with the time it arrives
    wakeup,        \* when usleep() returns
    \* shared
    buffer,
    link_up1, link_up2,
    clock

ends == <<sent1, sent2>>
forwarder == <<fwd, held, overflow>>
scheduler == <<sched, crt_time, idle_time, stuff, in_flight, wakeup>>
shared == <<buffer, link_up1, link_up2>>
vars == <<sent1, sent2, sock1, sock2, out1, out2, fwd, held, overflow, sched,
          crt_time, idle_time, stuff, in_flight, wakeup, buffer, link_up1, link_up2, clock>>

Packets == [id : 0..(Count + Answers), intact : BOOLEAN]
Flights == [m : Packets, finish_time : Nat]

Init ==
    /\ sent1 = 0 /\ sent2 = 0
    /\ sock1 = <<>> /\ sock2 = <<>>
    /\ out1 = <<>> /\ out2 = <<>>
    /\ fwd = "receive"
    /\ held = [id |-> 0, intact |-> TRUE]
    /\ overflow = FALSE
    /\ sched = "top"
    /\ crt_time = 0 /\ idle_time = 0 /\ wakeup = 0
    /\ stuff = FALSE
    /\ in_flight = <<>>
    /\ buffer = <<>>
    /\ link_up1 = FALSE /\ link_up2 = FALSE
    /\ clock = 0

Running == sched # "aborted"
-----------------------------------------------------------------------------
(* The ends *)

SendNear ==
    /\ sent1 <= Count
    /\ sock1' = Append(sock1, [id |-> sent1, intact |-> TRUE])
    /\ sent1' = sent1 + 1
    /\ UNCHANGED <<sent2, sock2, out1, out2, forwarder, scheduler, shared, clock>>

SendFar ==
    /\ sent2 <= Answers
    /\ sock2' = Append(sock2, [id |-> sent2, intact |-> TRUE])
    /\ sent2' = sent2 + 1
    /\ UNCHANGED <<sent1, sock1, out1, out2, forwarder, scheduler, shared, clock>>
-----------------------------------------------------------------------------
(* run_forwarding *)

\* The first message on a port only tells where its sender is.
MeetNear ==
    /\ Running
    /\ fwd = "receive"
    /\ ~link_up1
    /\ sock1 # <<>>
    /\ sock1' = Tail(sock1)
    /\ link_up1' = TRUE
    /\ UNCHANGED <<ends, sock2, out1, out2, forwarder, scheduler, buffer, link_up2, clock>>

Receive ==
    /\ Running
    /\ fwd = "receive"
    /\ link_up1
    /\ sock1 # <<>>
    /\ held' = Head(sock1)
    /\ sock1' = Tail(sock1)
    /\ fwd' = "check"
    /\ UNCHANGED <<ends, sock2, out1, out2, overflow, scheduler, shared, clock>>

\* Mutant: the buffer is full one message too late.
FullLate == Len(buffer) > BUFFER_SIZE

Full == Len(buffer) >= BUFFER_SIZE

Check ==
    /\ Running
    /\ fwd = "check"
    /\ overflow' = Full
    /\ fwd' = "decide"
    /\ UNCHANGED <<ends, sock1, sock2, out1, out2, held, scheduler, shared, clock>>

Drop ==
    /\ Running
    /\ fwd = "decide"
    /\ overflow \/ Loses
    /\ fwd' = "receive"
    /\ UNCHANGED <<ends, sock1, sock2, out1, out2, held, overflow, scheduler, shared, clock>>

\* Mutant: the scheduler is not told.
SignalNobody == UNCHANGED sched

Signal == sched' = IF sched = "waiting" THEN "top" ELSE sched

\* Mutant: the message is put at the end dequeue() takes from.
PutFirst(m) == buffer' = <<m>> \o buffer

\* Mutant: the flipped bit falls in the header, not in the payload.
PutHeader(m) == buffer' = Append(buffer, IF m.intact THEN m ELSE [m EXCEPT !.id = -1])

Put(m) == buffer' = Append(buffer, m)

Enqueue ==
    /\ Running
    /\ fwd = "decide"
    /\ ~overflow
    /\ \E intact \in {held.intact, held.intact /\ ~Corrupts} :
         Put([held EXCEPT !.intact = intact])
    /\ Signal
    /\ fwd' = "receive"
    /\ UNCHANGED <<ends, sock1, sock2, out1, out2, held, overflow, crt_time, idle_time,
                   stuff, in_flight, wakeup, link_up1, link_up2, clock>>
-----------------------------------------------------------------------------
(* run_reverse_forwarding *)

MeetFar ==
    /\ Running
    /\ ~link_up2
    /\ sock2 # <<>>
    /\ sock2' = Tail(sock2)
    /\ link_up2' = TRUE
    /\ UNCHANGED <<ends, sock1, out1, out2, forwarder, scheduler, buffer, link_up1, clock>>

\* sendto() uses the peer's address whether link_up1 is set or not; the two
\* are set by the same step, and without an address the message goes nowhere.
Reverse ==
    /\ Running
    /\ link_up2
    /\ sock2 # <<>>
    /\ out1' = IF link_up1 THEN Append(out1, Head(sock2)) ELSE out1
    /\ sock2' = Tail(sock2)
    /\ UNCHANGED <<ends, sock1, out2, forwarder, scheduler, shared, clock>>
-----------------------------------------------------------------------------
(* link_scheduler *)

ReadClock ==
    /\ sched = "top"
    /\ crt_time' = clock
    /\ sched' = "deliver"
    /\ UNCHANGED <<ends, sock1, sock2, out1, out2, forwarder, idle_time, stuff,
                   in_flight, wakeup, shared, clock>>

Arrived == in_flight # <<>> /\ crt_time >= Head(in_flight).finish_time

Deliver ==
    /\ sched = "deliver"
    /\ Arrived
    /\ out2' = IF link_up2 THEN Append(out2, Head(in_flight).m) ELSE out2
    /\ in_flight' = Tail(in_flight)
    /\ UNCHANGED <<ends, sock1, sock2, out1, forwarder, sched, crt_time, idle_time,
                   stuff, wakeup, shared, clock>>

EndDeliver ==
    /\ sched = "deliver"
    /\ ~Arrived
    /\ sched' = "look"
    /\ UNCHANGED <<ends, sock1, sock2, out1, out2, forwarder, crt_time, idle_time,
                   stuff, in_flight, wakeup, shared, clock>>

\* Mutant: size >= 0 for size > 0.
HasStuffAlways == Len(buffer) >= 0

HasStuff == Len(buffer) > 0

Look ==
    /\ sched = "look"
    /\ stuff' = HasStuff
    /\ sched' = "load"
    /\ UNCHANGED <<ends, sock1, sock2, out1, out2, forwarder, crt_time, idle_time,
                   in_flight, wakeup, shared, clock>>

\* Mutant: the line is taken to be free one tick late.
LineFreeLate == crt_time > idle_time

\* Mutant: the line is taken to be free at any time.
LineFreeAlways == TRUE

LineFree == crt_time >= idle_time

Load ==
    /\ sched = "load"
    /\ stuff
    /\ LineFree
    /\ idle_time' = crt_time + serialization_delay
    /\ in_flight' = Append(in_flight,
         [m |-> Head(buffer), finish_time |-> crt_time + serialization_delay + delay])
    /\ buffer' = Tail(buffer)
    /\ sched' = "rest"
    /\ UNCHANGED <<ends, sock1, sock2, out1, out2, forwarder, crt_time, stuff, wakeup,
                   link_up1, link_up2, clock>>

NoLoad ==
    /\ sched = "load"
    /\ ~(stuff /\ LineFree)
    /\ sched' = "rest"
    /\ UNCHANGED <<ends, sock1, sock2, out1, out2, forwarder, crt_time, idle_time, stuff,
                   in_flight, wakeup, shared, clock>>

wait_time_idle == idle_time - crt_time
wait_time_send == IF in_flight # <<>> THEN Head(in_flight).finish_time - crt_time ELSE 0

\* With only a message to deliver ahead the time slept is zero.
wait_time ==
    IF wait_time_idle <= 0 THEN 0
    ELSE IF wait_time_send > 0 /\ wait_time_send < wait_time_idle
         THEN wait_time_send ELSE wait_time_idle

Nap ==
    /\ sched = "rest"
    /\ wait_time_idle > 0 \/ wait_time_send > 0
    /\ wakeup' = clock + wait_time
    /\ sched' = "asleep"
    /\ UNCHANGED <<ends, sock1, sock2, out1, out2, forwarder, crt_time, idle_time, stuff,
                   in_flight, shared, clock>>

NothingToDo ==
    /\ sched = "rest"
    /\ wait_time_idle <= 0 /\ wait_time_send <= 0

\* pthread_cond_wait() gives the lock up and waits in one step.
WaitOnCond ==
    /\ NothingToDo
    /\ buffer = <<>>
    /\ sched' = "waiting"
    /\ UNCHANGED <<ends, sock1, sock2, out1, out2, forwarder, crt_time, idle_time, stuff,
                   in_flight, wakeup, shared, clock>>

\* assert(!buffer->size) fails.
Abort ==
    /\ NothingToDo
    /\ buffer # <<>>
    /\ sched' = "aborted"
    /\ UNCHANGED <<ends, sock1, sock2, out1, out2, forwarder, crt_time, idle_time, stuff,
                   in_flight, wakeup, shared, clock>>

Wake ==
    /\ sched = "asleep"
    /\ clock >= wakeup
    /\ sched' = "top"
    /\ UNCHANGED <<ends, sock1, sock2, out1, out2, forwarder, crt_time, idle_time, stuff,
                   in_flight, wakeup, shared, clock>>

\* POSIX lets pthread_cond_wait() return without a signal.
SpuriousWake ==
    /\ sched = "waiting"
    /\ sched' = "top"
    /\ UNCHANGED <<ends, sock1, sock2, out1, out2, forwarder, crt_time, idle_time, stuff,
                   in_flight, wakeup, shared, clock>>

\* Time matters while the line is busy, a message is on it or usleep() runs.
\* Nothing is kept waiting for more than MaxLate ticks after its time.
Tick ==
    /\ Running
    /\ \/ clock < idle_time + MaxLate
       \/ sched = "asleep" /\ clock < wakeup + MaxLate
       \/ in_flight # <<>> /\ clock < Head(in_flight).finish_time + MaxLate
    /\ clock' = clock + 1
    /\ UNCHANGED <<ends, sock1, sock2, out1, out2, forwarder, scheduler, shared>>

ForwarderStep == MeetNear \/ Receive \/ Check \/ Drop \/ Enqueue
ReverseStep == MeetFar \/ Reverse
SchedulerStep ==
    \/ ReadClock \/ Deliver \/ EndDeliver \/ Look \/ Load \/ NoLoad
    \/ Nap \/ WaitOnCond \/ Abort \/ Wake

Next ==
    \/ SendNear \/ SendFar
    \/ ForwarderStep \/ ReverseStep \/ SchedulerStep
    \/ SpuriousWake \/ Tick

Spec == Init /\ [][Next]_vars

\* The threads are scheduled, and time passes.
FairSpec ==
    /\ Spec
    /\ WF_vars(ForwarderStep)
    /\ WF_vars(ReverseStep)
    /\ WF_vars(SchedulerStep)
    /\ WF_vars(Tick)
-----------------------------------------------------------------------------
(* Properties *)

\* Every variable keeps its type.
TypeOK ==
    /\ sent1 \in Nat /\ sent2 \in Nat
    /\ sock1 \in Seq(Packets) /\ sock2 \in Seq(Packets)
    /\ out1 \in Seq(Packets) /\ out2 \in Seq(Packets)
    /\ fwd \in {"receive", "check", "decide"}
    /\ held \in Packets
    /\ overflow \in BOOLEAN /\ stuff \in BOOLEAN
    /\ sched \in {"top", "deliver", "look", "load", "rest", "asleep", "waiting", "aborted"}
    /\ crt_time \in Nat /\ idle_time \in Nat /\ wakeup \in Nat /\ clock \in Nat
    /\ in_flight \in Seq(Flights)
    /\ buffer \in Seq(Packets)
    /\ link_up1 \in BOOLEAN /\ link_up2 \in BOOLEAN

\* The buffer never holds more than it may, although its size is tested in one
\* critical section and the message put in by another (link.c:275-293).
BufferBounded ==
    /\ Len(buffer) <= BUFFER_SIZE
    /\ (fwd = "decide" /\ ~overflow) => Len(buffer) < BUFFER_SIZE

\* What the scheduler saw under one lock is still there under the next one:
\* assert(mif->m) of link.c:223 holds.
LoadFinds == sched = "load" /\ stuff => buffer # <<>>

\* The assertion of link.c:251, that the buffer is empty, may fail when the
\* scheduler is about to wait, but only since it had seen the buffer empty and a
\* message came before it had the lock again: never with one that it saw.
AbortsOnNews == sched = "aborted" => ~stuff /\ buffer # <<>>

\* Of what a thread reads of the buffer under the lock and acts on under the next,
\* room and a message stay: the one does not overfill the buffer and the other
\* does not find it empty.  That it is full or empty need not stay; the first
\* costs a message, the second may end the program, and nothing else does.
ReadsHold == BufferBounded /\ LoadFinds /\ AbortsOnNews

\* The scheduler is never left waiting with a message in the buffer: no signal
\* is lost between its last look and its wait (link.c:250-255).
NoLostSignal == sched = "waiting" => buffer = <<>> /\ in_flight = <<>>

OnLine == [k \in 1..Len(in_flight) |-> in_flight[k].m]

\* The line carries one message at a time: their arrivals are at least the
\* serialization delay apart, and the line is taken until the last one is on it.
Spaced ==
    /\ \A k \in 1..Len(in_flight) - 1 :
         in_flight[k + 1].finish_time >= in_flight[k].finish_time + serialization_delay
    /\ in_flight # <<>> => in_flight[Len(in_flight)].finish_time = idle_time + delay

\* The three threads and their queues are one pipe.
Link == INSTANCE Pipe WITH
    pipe <- OnLine \o buffer, far <- link_up2, out <- out2
ImplementsPipe == Link!Spec

\* What the emulator accepted leaves it, unless the assertion ends it.
Drains == (buffer # <<>> \/ in_flight # <<>>)
            ~> (~Running \/ (buffer = <<>> /\ in_flight = <<>>))
=============================================================================
