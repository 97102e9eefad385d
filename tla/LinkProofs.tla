----------------------------- MODULE LinkProofs -----------------------------
(***************************************************************************)
(* The safety of the link emulator for any number of messages, any size of *)
(* the buffer and any delays, however its threads are scheduled.           *)
(***************************************************************************)
EXTENDS LinkEmulator, SequenceTheorems, TLAPS

(* The inductive invariant *)

Inv ==
    /\ TypeOK
    /\ BufferBounded
    /\ LoadFinds
    /\ Spaced

\* Once the scheduler has delivered what had arrived, the rest is still ahead
\* in the round, by the time the round began.
AheadAfterDeliver ==
    sched \in {"look", "load", "rest"} /\ in_flight # <<>>
      => Head(in_flight).finish_time > crt_time

\* A message that the scheduler saw keeps it busy: it has put one on the line,
\* or the line was taken.
BusyIfSeen == sched = "rest" /\ stuff => idle_time > crt_time \/ in_flight # <<>>

WaitInv == Inv /\ NoLostSignal /\ AheadAfterDeliver /\ BusyIfSeen /\ AbortsOnNews
-----------------------------------------------------------------------------
(* Lemmas on sequences over a set *)

LEMMA AppendStays ==
    ASSUME NEW S, NEW s \in Seq(S), NEW e \in S
    PROVE  /\ Append(s, e) \in Seq(S)
           /\ Len(Append(s, e)) = Len(s) + 1
           /\ Append(s, e)[Len(s) + 1] = e
           /\ \A k \in 1..Len(s) : Append(s, e)[k] = s[k]
  OBVIOUS

LEMMA HeadTailStay ==
    ASSUME NEW S, NEW s \in Seq(S), s # <<>>
    PROVE  /\ Head(s) \in S
           /\ Head(s) = s[1]
           /\ Tail(s) \in Seq(S)
           /\ Len(s) \in Nat \ {0}
           /\ Len(Tail(s)) = Len(s) - 1
           /\ \A k \in 1..Len(s) - 1 : Tail(s)[k] = s[k + 1]
  BY HeadTailProperties, EmptySeq
-----------------------------------------------------------------------------
(* The invariant is inductive *)

LEMMA InitInv == Init => Inv
<1> SUFFICES ASSUME Init
             PROVE  Inv
  OBVIOUS
<1>1. [id |-> 0, intact |-> TRUE] \in Packets
  BY LinkAssumption DEF Packets
<1>2. TypeOK
  <2>1. <<>> \in Seq(Packets) /\ <<>> \in Seq(Flights)
    BY EmptySeq
  <2> QED
    BY <1>1, <2>1 DEF Init, TypeOK
<1>3. BufferBounded
  BY LinkAssumption DEF Init, BufferBounded
<1>4. LoadFinds
  BY DEF Init, LoadFinds
<1>5. Spaced
  BY DEF Init, Spaced
<1> QED
  BY <1>2, <1>3, <1>4, <1>5 DEF Inv

\* What the ends send.
LEMMA SentArePackets ==
    ASSUME TypeOK
    PROVE  /\ sent1 <= Count => [id |-> sent1, intact |-> TRUE] \in Packets
           /\ sent2 <= Answers => [id |-> sent2, intact |-> TRUE] \in Packets
  BY LinkAssumption DEF TypeOK, Packets

\* Types
LEMMA NextTypeOK ==
    ASSUME TypeOK, LoadFinds, Next
    PROVE  TypeOK'
<1>1. CASE SendNear
  <2>1. sock1' \in Seq(Packets) /\ sent1' \in Nat
    BY <1>1, SentArePackets DEF SendNear, TypeOK
  <2> QED
    BY <1>1, <2>1 DEF SendNear, TypeOK, forwarder, scheduler, shared
<1>2. CASE SendFar
  <2>1. sock2' \in Seq(Packets) /\ sent2' \in Nat
    BY <1>2, SentArePackets DEF SendFar, TypeOK
  <2> QED
    BY <1>2, <2>1 DEF SendFar, TypeOK, forwarder, scheduler, shared
<1>3. CASE MeetNear
  BY <1>3, HeadTailStay DEF MeetNear, TypeOK, ends, forwarder, scheduler
<1>4. CASE MeetFar
  BY <1>4, HeadTailStay DEF MeetFar, TypeOK, ends, forwarder, scheduler
<1>5. CASE Receive
  BY <1>5, HeadTailStay DEF Receive, TypeOK, ends, scheduler, shared
<1>6. CASE Check
  BY <1>6 DEF Check, Full, TypeOK, ends, scheduler, shared
<1>7. CASE Drop
  BY <1>7 DEF Drop, TypeOK, ends, scheduler, shared
<1>8. CASE Enqueue
  <2>1. PICK intact \in BOOLEAN : Put([held EXCEPT !.intact = intact])
    BY <1>8, LinkAssumption DEF Enqueue, TypeOK, Packets
  <2>2. [held EXCEPT !.intact = intact] \in Packets
    BY DEF TypeOK, Packets
  <2>3. buffer' \in Seq(Packets)
    BY <2>1, <2>2 DEF Put, TypeOK
  <2> QED
    BY <1>8, <2>3 DEF Enqueue, Signal, TypeOK, ends
<1>9. CASE Reverse
  <2>1. Head(sock2) \in Packets /\ sock2' \in Seq(Packets)
    BY <1>9, HeadTailStay DEF Reverse, TypeOK
  <2>2. out1' \in Seq(Packets)
    BY <1>9, <2>1 DEF Reverse, TypeOK
  <2> QED
    BY <1>9, <2>1, <2>2 DEF Reverse, TypeOK, ends, forwarder, scheduler, shared
<1>10. CASE ReadClock
  BY <1>10 DEF ReadClock, TypeOK, ends, forwarder, shared
<1>11. CASE EndDeliver \/ NoLoad \/ WaitOnCond \/ Abort \/ Wake \/ SpuriousWake
  BY <1>11 DEF EndDeliver, NoLoad, NothingToDo, WaitOnCond, Abort, Wake, SpuriousWake,
     TypeOK, ends, forwarder, shared
<1>12. CASE Look
  BY <1>12 DEF Look, HasStuff, TypeOK, ends, forwarder, shared
<1>13. CASE Deliver
  <2>1. Head(in_flight) \in Flights /\ in_flight' \in Seq(Flights)
    BY <1>13, HeadTailStay DEF Deliver, Arrived, TypeOK
  <2>2. Head(in_flight).m \in Packets
    BY <2>1 DEF Flights
  <2>3. out2' \in Seq(Packets)
    BY <1>13, <2>2 DEF Deliver, TypeOK
  <2> QED
    BY <1>13, <2>1, <2>3 DEF Deliver, TypeOK, ends, forwarder, shared
<1>14. CASE Load
  <2>1. Head(buffer) \in Packets /\ buffer' \in Seq(Packets)
    BY <1>14, HeadTailStay DEF Load, LoadFinds, TypeOK
  <2>2. crt_time + serialization_delay \in Nat /\ crt_time + serialization_delay + delay \in Nat
    BY LinkAssumption DEF TypeOK
  <2>3. [m |-> Head(buffer), finish_time |-> crt_time + serialization_delay + delay] \in Flights
    BY <2>1, <2>2 DEF Flights
  <2>4. in_flight' \in Seq(Flights) /\ idle_time' \in Nat
    BY <1>14, <2>2, <2>3 DEF Load, TypeOK
  <2> QED
    BY <1>14, <2>1, <2>4 DEF Load, TypeOK, ends, forwarder
<1>15. CASE Nap
  <2>1. wait_time \in Nat
    <3>1. CASE in_flight = <<>>
      BY <3>1 DEF wait_time, wait_time_idle, wait_time_send, TypeOK
    <3>2. CASE in_flight # <<>>
      <4>1. Head(in_flight) \in Flights
        BY <3>2, HeadTailStay DEF TypeOK
      <4>2. Head(in_flight).finish_time \in Nat
        BY <4>1 DEF Flights
      <4> QED
        BY <3>2, <4>2 DEF wait_time, wait_time_idle, wait_time_send, TypeOK
    <3> QED
      BY <3>1, <3>2
  <2> QED
    BY <1>15, <2>1 DEF Nap, TypeOK, ends, forwarder, shared
<1>16. CASE Tick
  BY <1>16 DEF Tick, TypeOK, ends, forwarder, scheduler, shared
<1> QED
  BY <1>1, <1>2, <1>3, <1>4, <1>5, <1>6, <1>7, <1>8, <1>9, <1>10, <1>11, <1>12, <1>13,
     <1>14, <1>15, <1>16 DEF Next, ForwarderStep, ReverseStep, SchedulerStep

\* The bound of the buffer: room seen by Check lasts until Enqueue, since no
\* other step adds a message.
LEMMA NextBounded ==
    ASSUME TypeOK, LoadFinds, BufferBounded, Next
    PROVE  BufferBounded'
<1>1. Len(buffer) \in Nat
  BY DEF TypeOK
<1>2. CASE Check
  <2>1. ~overflow' => ~(Len(buffer) >= BUFFER_SIZE)
    BY <1>2 DEF Check, Full
  <2>2. buffer' = buffer
    BY <1>2 DEF Check, shared
  <2> QED
    BY <1>1, <2>1, <2>2, LinkAssumption DEF BufferBounded
<1>3. CASE Enqueue
  <2>1. PICK intact \in BOOLEAN : Put([held EXCEPT !.intact = intact])
    BY <1>3, LinkAssumption DEF Enqueue, TypeOK, Packets
  <2>2. Len(buffer') = Len(buffer) + 1
    BY <2>1 DEF Put, TypeOK
  <2> QED
    BY <1>1, <1>3, <2>2, LinkAssumption DEF Enqueue, BufferBounded
<1>4. CASE Load
  <2>1. Len(buffer') = Len(buffer) - 1
    BY <1>4, HeadTailStay DEF Load, LoadFinds, TypeOK
  <2> QED
    BY <1>1, <1>4, <2>1, LinkAssumption DEF Load, BufferBounded, forwarder
<1>5. CASE UNCHANGED buffer /\ (UNCHANGED forwarder \/ fwd' # "decide")
  BY <1>5 DEF BufferBounded, forwarder
<1>6. CASE SendNear \/ SendFar \/ ReverseStep \/ SpuriousWake \/ Tick
  BY <1>5, <1>6 DEF SendNear, SendFar, ReverseStep, MeetFar, Reverse, SpuriousWake, Tick, shared
<1>7. CASE MeetNear \/ Receive \/ Drop
  BY <1>5, <1>7 DEF MeetNear, Receive, Drop, shared
<1>8. CASE ReadClock \/ Deliver \/ EndDeliver \/ Look \/ NoLoad
  BY <1>5, <1>8 DEF ReadClock, Deliver, EndDeliver, Look, NoLoad, shared
<1>9. CASE Nap \/ WaitOnCond \/ Abort \/ Wake
  BY <1>5, <1>9 DEF Nap, WaitOnCond, Abort, Wake, shared
<1> QED
  BY <1>2, <1>3, <1>4, <1>6, <1>7, <1>8, <1>9 DEF Next, ForwarderStep, SchedulerStep

\* Only the scheduler takes messages out.
LEMMA NextLoadFinds ==
    ASSUME TypeOK, LoadFinds, Next
    PROVE  LoadFinds'
<1>1. CASE Enqueue
  <2>1. PICK intact \in BOOLEAN : Put([held EXCEPT !.intact = intact])
    BY <1>1, LinkAssumption DEF Enqueue, TypeOK, Packets
  <2>2. buffer' # <<>>
    <3>1. Len(buffer') = Len(buffer) + 1 /\ Len(buffer) \in Nat
      BY <2>1 DEF Put, TypeOK
    <3> QED
      BY <3>1
  <2> QED
    BY <2>2 DEF LoadFinds
<1>2. CASE Look
  <2>1. stuff' => Len(buffer) > 0
    BY <1>2 DEF Look, HasStuff
  <2>2. buffer = <<>> => Len(buffer) = 0
    OBVIOUS
  <2> QED
    BY <1>2, <2>1, <2>2 DEF Look, LoadFinds, shared
<1>3. CASE sched' # "load"
  BY <1>3 DEF LoadFinds
<1>4. CASE UNCHANGED <<sched, stuff, buffer>>
  BY <1>4 DEF LoadFinds
<1>5. CASE SendNear \/ SendFar \/ ReverseStep \/ Tick
  BY <1>4, <1>5 DEF SendNear, SendFar, ReverseStep, MeetFar, Reverse, Tick, scheduler, shared
<1>6. CASE MeetNear \/ Receive \/ Check \/ Drop
  BY <1>4, <1>6 DEF MeetNear, Receive, Check, Drop, scheduler, shared
<1>7. CASE ReadClock \/ EndDeliver \/ Load \/ NoLoad
  BY <1>3, <1>7 DEF ReadClock, EndDeliver, Load, NoLoad
<1>8. CASE Nap \/ WaitOnCond \/ Abort \/ Wake \/ SpuriousWake
  BY <1>3, <1>8 DEF Nap, WaitOnCond, Abort, Wake, SpuriousWake
<1>9. CASE Deliver
  BY <1>4, <1>9 DEF Deliver, shared
<1> QED
  BY <1>1, <1>2, <1>5, <1>6, <1>7, <1>8, <1>9 DEF Next, ForwarderStep, SchedulerStep

\* The line's rate: a message is loaded when the line is free, so that its
\* arrival is the serialization delay after that of the message before it.
LEMMA NextSpaced ==
    ASSUME TypeOK, Spaced, Next
    PROVE  Spaced'
<1>1. CASE Deliver
  <2>1. in_flight # <<>> /\ in_flight' = Tail(in_flight) /\ idle_time' = idle_time
    BY <1>1 DEF Deliver, Arrived
  <2>2. /\ Len(in_flight) \in Nat \ {0}
        /\ Len(in_flight') = Len(in_flight) - 1
        /\ \A k \in 1..Len(in_flight) - 1 : in_flight'[k] = in_flight[k + 1]
    BY <2>1, HeadTailStay DEF TypeOK
  <2>3. ASSUME NEW k \in 1..Len(in_flight') - 1
        PROVE  in_flight'[k + 1].finish_time >= in_flight'[k].finish_time + serialization_delay
    <3>1. k + 1 \in 1..Len(in_flight) - 1 /\ k \in 1..Len(in_flight) - 1
      BY <2>2
    <3>2. in_flight'[k + 1] = in_flight[(k + 1) + 1] /\ in_flight'[k] = in_flight[k + 1]
      BY <2>2, <3>1
    <3> QED
      BY <3>1, <3>2 DEF Spaced
  <2>4. ASSUME in_flight' # <<>>
        PROVE  in_flight'[Len(in_flight')].finish_time = idle_time' + delay
    <3>1. Len(in_flight') # 0
      BY <2>1, <2>2, <2>4, HeadTailStay, EmptySeq DEF TypeOK
    <3>2. in_flight'[Len(in_flight')] = in_flight[Len(in_flight)]
      <4>1. Len(in_flight') \in 1..Len(in_flight) - 1
        BY <2>2, <3>1
      <4> QED
        BY <2>2, <4>1
    <3> QED
      BY <2>1, <3>2 DEF Spaced
  <2> QED
    BY <2>3, <2>4 DEF Spaced
<1>2. CASE Load
  <2> DEFINE f == [m |-> Head(buffer), finish_time |-> crt_time + serialization_delay + delay]
  <2>1. /\ in_flight' = Append(in_flight, f)
        /\ idle_time' = crt_time + serialization_delay
        /\ crt_time >= idle_time
    BY <1>2 DEF Load, LineFree
  <2>2. /\ Len(in_flight) \in Nat
        /\ Len(in_flight') = Len(in_flight) + 1
        /\ in_flight'[Len(in_flight) + 1] = f
        /\ \A k \in 1..Len(in_flight) : in_flight'[k] = in_flight[k]
    BY <2>1 DEF TypeOK
  <2>3. f.finish_time = crt_time + serialization_delay + delay
    OBVIOUS
  <2> HIDE DEF f
  <2>4. ASSUME NEW k \in 1..Len(in_flight') - 1
        PROVE  in_flight'[k + 1].finish_time >= in_flight'[k].finish_time + serialization_delay
    <3>1. CASE k = Len(in_flight)
      <4>1. in_flight # <<>>
        BY <2>2, <2>4, <3>1
      <4>2. in_flight[k].finish_time = idle_time + delay
        BY <3>1, <4>1 DEF Spaced
      <4>3. in_flight'[k] = in_flight[k] /\ in_flight'[k + 1] = f
        BY <2>2, <3>1
      <4> QED
        BY <2>1, <2>3, <4>2, <4>3, LinkAssumption DEF TypeOK
    <3>2. CASE k # Len(in_flight)
      <4>1. k \in 1..Len(in_flight) - 1 /\ k + 1 \in 1..Len(in_flight) /\ k \in 1..Len(in_flight)
        BY <2>2, <3>2
      <4>2. in_flight'[k] = in_flight[k] /\ in_flight'[k + 1] = in_flight[k + 1]
        BY <2>2, <4>1
      <4> QED
        BY <4>1, <4>2 DEF Spaced
    <3> QED
      BY <3>1, <3>2
  <2>5. in_flight'[Len(in_flight')].finish_time = idle_time' + delay
    BY <2>1, <2>2, <2>3
  <2> QED
    BY <2>4, <2>5 DEF Spaced
<1>3. CASE UNCHANGED <<in_flight, idle_time>>
  BY <1>3 DEF Spaced
<1> QED
  BY <1>1, <1>2, <1>3 DEF Next, ForwarderStep, ReverseStep, SchedulerStep, SendNear,
     SendFar, MeetNear, Receive, Check, Drop, Enqueue, MeetFar, Reverse, ReadClock,
     EndDeliver, Look, NoLoad, Nap, WaitOnCond, Abort, Wake, SpuriousWake, Tick, scheduler

LEMMA NextInv == Inv /\ [Next]_vars => Inv'
<1> SUFFICES ASSUME Inv, [Next]_vars
             PROVE  Inv'
  OBVIOUS
<1>1. CASE Next
  BY <1>1, NextTypeOK, NextBounded, NextLoadFinds, NextSpaced DEF Inv
<1>2. CASE UNCHANGED vars
  BY <1>2 DEF vars, Inv, TypeOK, BufferBounded, LoadFinds, Spaced
<1> QED
  BY <1>1, <1>2

\* The invariant holds in every state of every behaviour of the emulator.
THEOREM LinkInvariance == Spec => []Inv
  BY InitInv, NextInv, PTL DEF Spec

\* Every variable of the emulator keeps its type.
THEOREM LinkTypeCorrect == Spec => []TypeOK
<1>1. Inv => TypeOK
  BY DEF Inv
<1> QED
  BY <1>1, LinkInvariance, PTL

\* The buffer never holds more than it may, for any size of it, although its
\* size is tested under one lock and a message put in under the next
\* (link.c:275-293).
THEOREM NeverOverfull == Spec => []BufferBounded
<1>1. Inv => BufferBounded
  BY DEF Inv
<1> QED
  BY <1>1, LinkInvariance, PTL

\* What the scheduler saw in the buffer is there when it takes it: the
\* assertion of link.c:223 never fails.
THEOREM AlwaysFinds == Spec => []LoadFinds
<1>1. Inv => LoadFinds
  BY DEF Inv
<1> QED
  BY <1>1, LinkInvariance, PTL

\* The line carries one message at a time, for any delays and however late the
\* scheduler is (link.c:213-227).
THEOREM KeepsRate == Spec => []Spaced
<1>1. Inv => Spaced
  BY DEF Inv
<1> QED
  BY <1>1, LinkInvariance, PTL
-----------------------------------------------------------------------------
(* The scheduler never waits with work, unless both delays are zero *)

LEMMA HeadFlight ==
    ASSUME TypeOK, in_flight # <<>>
    PROVE  Head(in_flight).finish_time \in Nat
<1>1. Head(in_flight) \in Flights
  BY HeadTailStay DEF TypeOK
<1> QED
  BY <1>1 DEF Flights

LEMMA NextAhead ==
    ASSUME serialization_delay + delay > 0, TypeOK, AheadAfterDeliver, Next
    PROVE  AheadAfterDeliver'
<1>1. CASE EndDeliver
  BY <1>1, HeadFlight DEF EndDeliver, Arrived, AheadAfterDeliver, TypeOK
<1>2. CASE Load
  <2> DEFINE f == [m |-> Head(buffer), finish_time |-> crt_time + serialization_delay + delay]
  <2>1. in_flight' = Append(in_flight, f) /\ crt_time' = crt_time /\ sched = "load"
    BY <1>2 DEF Load
  <2>2. f.finish_time > crt_time
    BY LinkAssumption DEF TypeOK
  <2> HIDE DEF f
  <2>3. CASE in_flight = <<>>
    <3>1. Head(in_flight') = f
      BY <2>1, <2>3
    <3> QED
      BY <2>1, <2>2, <3>1 DEF AheadAfterDeliver
  <2>4. CASE in_flight # <<>>
    <3>1. Head(in_flight') = Head(in_flight)
      BY <2>1, <2>4, HeadTailStay, AppendStays DEF TypeOK
    <3> QED
      BY <2>1, <2>4, <3>1 DEF AheadAfterDeliver
  <2> QED
    BY <2>3, <2>4
<1>3. CASE Look \/ NoLoad
  BY <1>3 DEF Look, NoLoad, AheadAfterDeliver
<1>4. CASE sched' \notin {"look", "load", "rest"}
  BY <1>4 DEF AheadAfterDeliver
<1>5. CASE UNCHANGED <<sched, crt_time, in_flight>>
  BY <1>5 DEF AheadAfterDeliver
<1>6. CASE SendNear \/ SendFar \/ ReverseStep \/ Tick
  BY <1>5, <1>6 DEF SendNear, SendFar, ReverseStep, MeetFar, Reverse, Tick, scheduler
<1>7. CASE MeetNear \/ Receive \/ Check \/ Drop
  BY <1>5, <1>7 DEF MeetNear, Receive, Check, Drop, scheduler
<1>8. CASE Enqueue
  <2>1. sched' \in {sched, "top"} /\ UNCHANGED <<crt_time, in_flight>>
    BY <1>8 DEF Enqueue, Signal
  <2> QED
    BY <1>4, <1>5, <2>1
<1>9. CASE ReadClock \/ Deliver \/ Nap \/ WaitOnCond \/ Abort \/ Wake \/ SpuriousWake
  BY <1>4, <1>9 DEF ReadClock, Deliver, Nap, WaitOnCond, Abort, Wake, SpuriousWake
<1> QED
  BY <1>1, <1>2, <1>3, <1>6, <1>7, <1>8, <1>9 DEF Next, ForwarderStep, SchedulerStep

LEMMA NextNoLostSignal ==
    ASSUME TypeOK, AheadAfterDeliver, NoLostSignal, Next
    PROVE  NoLostSignal'
<1>1. CASE WaitOnCond
  <2>1. in_flight = <<>>
    <3> SUFFICES ASSUME in_flight # <<>>
                 PROVE  FALSE
      OBVIOUS
    <3>1. Head(in_flight).finish_time > crt_time
      BY <1>1 DEF WaitOnCond, NothingToDo, AheadAfterDeliver
    <3> QED
      BY <1>1, <3>1, HeadFlight DEF WaitOnCond, NothingToDo, wait_time_send, TypeOK
  <2> QED
    BY <1>1, <2>1 DEF WaitOnCond, NoLostSignal, shared
<1>2. CASE sched' # "waiting"
  BY <1>2 DEF NoLostSignal
<1>3. CASE UNCHANGED <<sched, buffer, in_flight>>
  BY <1>3 DEF NoLostSignal
<1>4. CASE SendNear \/ SendFar \/ ReverseStep \/ Tick
  BY <1>3, <1>4 DEF SendNear, SendFar, ReverseStep, MeetFar, Reverse, Tick, scheduler, shared
<1>5. CASE MeetNear \/ Receive \/ Check \/ Drop
  BY <1>3, <1>5 DEF MeetNear, Receive, Check, Drop, scheduler, shared
<1>6. CASE Enqueue
  BY <1>2, <1>6 DEF Enqueue, Signal
<1>7. CASE ReadClock \/ Deliver \/ EndDeliver \/ Look \/ Load \/ NoLoad
  BY <1>2, <1>7 DEF ReadClock, Deliver, EndDeliver, Look, Load, NoLoad
<1>8. CASE Nap \/ Abort \/ Wake \/ SpuriousWake
  BY <1>2, <1>8 DEF Nap, Abort, Wake, SpuriousWake
<1> QED
  BY <1>1, <1>4, <1>5, <1>6, <1>7, <1>8 DEF Next, ForwarderStep, SchedulerStep

LEMMA NextBusy ==
    ASSUME TypeOK, BusyIfSeen, Next
    PROVE  BusyIfSeen'
<1>1. CASE Load
  <2> DEFINE f == [m |-> Head(buffer), finish_time |-> crt_time + serialization_delay + delay]
  <2>1. in_flight' = Append(in_flight, f)
    BY <1>1 DEF Load
  <2> HIDE DEF f
  <2>2. Len(in_flight) \in Nat /\ Len(in_flight') = Len(in_flight) + 1
    BY <2>1 DEF TypeOK
  <2>3. in_flight' # <<>>
    BY <2>2
  <2> QED
    BY <2>3 DEF BusyIfSeen
<1>2. CASE NoLoad
  BY <1>2 DEF NoLoad, LineFree, BusyIfSeen, TypeOK
<1>3. CASE sched' # "rest"
  BY <1>3 DEF BusyIfSeen
<1>4. CASE UNCHANGED <<sched, stuff, crt_time, idle_time, in_flight>>
  BY <1>4 DEF BusyIfSeen
<1>5. CASE SendNear \/ SendFar \/ ReverseStep \/ Tick
  BY <1>4, <1>5 DEF SendNear, SendFar, ReverseStep, MeetFar, Reverse, Tick, scheduler
<1>6. CASE MeetNear \/ Receive \/ Check \/ Drop
  BY <1>4, <1>6 DEF MeetNear, Receive, Check, Drop, scheduler
<1>7. CASE Enqueue
  <2>1. sched' \in {sched, "top"} /\ UNCHANGED <<stuff, crt_time, idle_time, in_flight>>
    BY <1>7 DEF Enqueue, Signal
  <2> QED
    BY <1>3, <1>4, <2>1
<1>8. CASE ReadClock \/ Deliver \/ EndDeliver \/ Look \/ Nap
  BY <1>3, <1>8 DEF ReadClock, Deliver, EndDeliver, Look, Nap
<1>9. CASE WaitOnCond \/ Abort \/ Wake \/ SpuriousWake
  BY <1>3, <1>9 DEF WaitOnCond, Abort, Wake, SpuriousWake
<1> QED
  BY <1>1, <1>2, <1>5, <1>6, <1>7, <1>8, <1>9 DEF Next, ForwarderStep, SchedulerStep

\* The assertion fails on a message that came after the look; once it has, the
\* program does nothing more.
LEMMA NextAborts ==
    ASSUME TypeOK, AheadAfterDeliver, BusyIfSeen, AbortsOnNews, Next
    PROVE  AbortsOnNews'
<1>1. CASE Abort
  <2>1. in_flight # <<>> => wait_time_send > 0
    BY <1>1, HeadFlight DEF Abort, NothingToDo, AheadAfterDeliver, wait_time_send, TypeOK
  <2>2. stuff => wait_time_idle > 0 \/ in_flight # <<>>
    BY <1>1 DEF Abort, NothingToDo, BusyIfSeen, wait_time_idle, TypeOK
  <2>3. wait_time_idle \in Int /\ wait_time_send \in Int
    BY HeadFlight DEF wait_time_idle, wait_time_send, TypeOK
  <2>4. ~stuff
    BY <1>1, <2>1, <2>2, <2>3 DEF Abort, NothingToDo
  <2> QED
    BY <1>1, <2>4 DEF Abort, AbortsOnNews, shared
<1>2. CASE sched' # "aborted"
  BY <1>2 DEF AbortsOnNews
<1>3. CASE UNCHANGED <<sched, stuff, buffer>>
  BY <1>3 DEF AbortsOnNews
<1>4. CASE SendNear \/ SendFar \/ ReverseStep \/ Tick
  BY <1>3, <1>4 DEF SendNear, SendFar, ReverseStep, MeetFar, Reverse, Tick, scheduler, shared
<1>5. CASE MeetNear \/ Receive \/ Check \/ Drop
  BY <1>3, <1>5 DEF MeetNear, Receive, Check, Drop, scheduler, shared
<1>6. CASE Enqueue
  BY <1>2, <1>6 DEF Enqueue, Signal, Running
<1>7. CASE ReadClock \/ Deliver \/ EndDeliver \/ Look \/ Load \/ NoLoad
  BY <1>2, <1>7 DEF ReadClock, Deliver, EndDeliver, Look, Load, NoLoad
<1>8. CASE Nap \/ WaitOnCond \/ Wake \/ SpuriousWake
  BY <1>2, <1>8 DEF Nap, WaitOnCond, Wake, SpuriousWake
<1> QED
  BY <1>1, <1>4, <1>5, <1>6, <1>7, <1>8 DEF Next, ForwarderStep, SchedulerStep

LEMMA WaitInvariance ==
    ASSUME serialization_delay + delay > 0
    PROVE  Spec => []WaitInv
<1>1. Init => WaitInv
  BY InitInv DEF Init, WaitInv, NoLostSignal, AheadAfterDeliver, BusyIfSeen, AbortsOnNews
<1>2. WaitInv /\ [Next]_vars => WaitInv'
  <2> SUFFICES ASSUME WaitInv, [Next]_vars
               PROVE  WaitInv'
    OBVIOUS
  <2>1. CASE Next
    BY <2>1, NextInv, NextAhead, NextNoLostSignal, NextBusy, NextAborts DEF WaitInv, Inv
  <2>2. CASE UNCHANGED vars
    BY <2>2, NextInv DEF vars, WaitInv, NoLostSignal, AheadAfterDeliver, BusyIfSeen,
       AbortsOnNews
  <2> QED
    BY <2>1, <2>2
<1> QED
  BY <1>1, <1>2, PTL DEF Spec

\* No signal is lost and no message forgotten: whenever the scheduler waits on
\* the condition, buffer and line are empty (link.c:240-257), if a message
\* takes any time at all.
THEOREM NeverWaitsWithWork ==
    ASSUME serialization_delay + delay > 0
    PROVE  Spec => []NoLostSignal
<1>1. WaitInv => NoLostSignal
  BY DEF WaitInv
<1> QED
  BY <1>1, WaitInvariance, PTL

\* Room and messages seen under one lock are there under the next, and the
\* program ends by an assertion only if the buffer was seen empty and a message
\* came before the wait (link.c:200-257, 274-295).
THEOREM ReadsStillHold ==
    ASSUME serialization_delay + delay > 0
    PROVE  Spec => []ReadsHold
<1>1. WaitInv => ReadsHold
  BY DEF WaitInv, Inv, ReadsHold
<1> QED
  BY <1>1, WaitInvariance, PTL
-----------------------------------------------------------------------------
(* The emulator implements the pipe *)

LEMMA ConcatAppend ==
    ASSUME NEW S, NEW s \in Seq(S), NEW t \in Seq(S), NEW e \in S
    PROVE  s \o Append(t, e) = Append(s \o t, e)
  OBVIOUS

LEMMA MoveHead ==
    ASSUME NEW S, NEW s \in Seq(S), NEW t \in Seq(S), t # <<>>
    PROVE  Append(s, Head(t)) \o Tail(t) = s \o t
<1>1. /\ Head(t) \in S /\ Head(t) = t[1] /\ Tail(t) \in Seq(S)
      /\ Len(Tail(t)) = Len(t) - 1 /\ Len(t) \in Nat \ {0}
      /\ \A k \in 1..Len(t) - 1 : Tail(t)[k] = t[k + 1]
  BY HeadTailStay
<1> QED
  BY <1>1

LEMMA TailOfConcat ==
    ASSUME NEW S, NEW s \in Seq(S), NEW t \in Seq(S), s # <<>>
    PROVE  /\ s \o t # <<>>
           /\ Head(s \o t) = Head(s)
           /\ Tail(s \o t) = Tail(s) \o t
<1>1. /\ Head(s) = s[1] /\ Tail(s) \in Seq(S)
      /\ Len(Tail(s)) = Len(s) - 1 /\ Len(s) \in Nat \ {0}
      /\ \A k \in 1..Len(s) - 1 : Tail(s)[k] = s[k + 1]
  BY HeadTailStay
<1> QED
  BY <1>1

LEMMA MessagesOf ==
    ASSUME NEW f \in Seq(Flights)
    PROVE  /\ [k \in 1..Len(f) |-> f[k].m] \in Seq(Packets)
           /\ Len([k \in 1..Len(f) |-> f[k].m]) = Len(f)
<1>1. Len(f) \in Nat
  OBVIOUS
<1>2. ASSUME NEW k \in 1..Len(f)
      PROVE  f[k].m \in Packets
  <2>1. f[k] \in Flights
    BY ElementOfSeq
  <2> QED
    BY <2>1 DEF Flights
<1>3. [k \in 1..Len(f) |-> f[k].m] \in [1..Len(f) -> Packets]
  BY <1>2
<1> QED
  BY <1>1, <1>3

LEMMA OnLinePackets ==
    ASSUME TypeOK
    PROVE  OnLine \in Seq(Packets) /\ Len(OnLine) = Len(in_flight)
  BY MessagesOf DEF OnLine, TypeOK

LEMMA LinkInit == Init => Link!Init
  BY DEF Init, Link!Init, OnLine

LEMMA LinkNext ==
    ASSUME TypeOK, TypeOK', LoadFinds, Next
    PROVE  [Link!Next]_Link!vars
<1>1. OnLine \in Seq(Packets) /\ buffer \in Seq(Packets)
  BY OnLinePackets DEF TypeOK
<1>2. CASE UNCHANGED <<in_flight, buffer, link_up2, out2>>
  BY <1>2 DEF Link!vars, OnLine
<1>3. CASE Enqueue
  <2>1. PICK intact \in BOOLEAN : Put([held EXCEPT !.intact = intact])
    BY <1>3, LinkAssumption DEF Enqueue, TypeOK, Packets
  <2> DEFINE p == [held EXCEPT !.intact = intact]
  <2>2. p \in Packets
    BY DEF TypeOK, Packets
  <2>3. buffer' = Append(buffer, p) /\ OnLine' = OnLine /\ UNCHANGED <<link_up2, out2>>
    BY <1>3, <2>1 DEF Enqueue, Put, OnLine
  <2> HIDE DEF p
  <2>4. (OnLine \o buffer)' = Append(OnLine \o buffer, p)
    BY <1>1, <2>2, <2>3, ConcatAppend
  <2>5. Link!Accept(p)
    BY <2>3, <2>4 DEF Link!Accept
  <2> QED
    BY <2>2, <2>5 DEF Link!Next
<1>4. CASE Load
  <2>1. buffer # <<>>
    BY <1>4 DEF Load, LoadFinds
  <2>2. OnLine' = Append(OnLine, Head(buffer))
    <3> DEFINE f == [m |-> Head(buffer),
                     finish_time |-> crt_time + serialization_delay + delay]
    <3>1. in_flight' = Append(in_flight, f) /\ f.m = Head(buffer)
      BY <1>4 DEF Load
    <3>2. f \in Flights
      <4>1. Head(buffer) \in Packets
        BY <1>1, <2>1, HeadTailStay
      <4> QED
        BY <4>1, LinkAssumption DEF Flights, TypeOK
    <3> HIDE DEF f
    <3>3. /\ Len(in_flight) \in Nat
          /\ Len(in_flight') = Len(in_flight) + 1
          /\ in_flight'[Len(in_flight) + 1] = f
          /\ \A k \in 1..Len(in_flight) : in_flight'[k] = in_flight[k]
      <4>1. in_flight \in Seq(Flights)
        BY DEF TypeOK
      <4>2. /\ Len(Append(in_flight, f)) = Len(in_flight) + 1
            /\ Append(in_flight, f)[Len(in_flight) + 1] = f
            /\ \A k \in 1..Len(in_flight) : Append(in_flight, f)[k] = in_flight[k]
        BY <3>2, <4>1, AppendStays
      <4> QED
        BY <3>1, <4>1, <4>2
    <3>4. OnLine' \in Seq(Packets) /\ Len(OnLine') = Len(in_flight) + 1
      BY <3>3, MessagesOf DEF TypeOK, OnLine
    <3>5. Append(OnLine, Head(buffer)) \in Seq(Packets)
      <4>1. Head(buffer) \in Packets
        BY <1>1, <2>1, HeadTailStay
      <4> QED
        BY <1>1, <4>1, AppendStays
    <3>6. ASSUME NEW k \in 1..Len(in_flight) + 1
          PROVE  OnLine'[k] = Append(OnLine, Head(buffer))[k]
      BY <1>1, <3>1, <3>3, <3>6, OnLinePackets DEF OnLine
    <3> QED
      BY <1>1, <3>3, <3>4, <3>5, <3>6, OnLinePackets, SeqEqual
  <2>3. (OnLine \o buffer)' = OnLine \o buffer
    BY <1>1, <1>4, <2>1, <2>2, MoveHead DEF Load
  <2> QED
    BY <1>4, <2>3 DEF Load, Link!vars
<1>5. CASE Deliver
  <2>1. in_flight # <<>> /\ in_flight' = Tail(in_flight) /\ UNCHANGED <<buffer, link_up2>>
    BY <1>5 DEF Deliver, Arrived, shared
  <2>2. /\ Len(in_flight) \in Nat \ {0}
        /\ Head(in_flight) = in_flight[1]
        /\ Len(in_flight') = Len(in_flight) - 1
        /\ \A k \in 1..Len(in_flight) - 1 : in_flight'[k] = in_flight[k + 1]
    BY <2>1, HeadTailStay DEF TypeOK
  <2>3. OnLine # <<>>
    BY <1>1, <2>2, OnLinePackets
  <2>4. Head(OnLine) = Head(in_flight).m
    BY <1>1, <2>2, <2>3, HeadTailStay DEF OnLine
  <2>5. OnLine' = Tail(OnLine)
    <3>1. /\ Tail(OnLine) \in Seq(Packets)
          /\ Len(Tail(OnLine)) = Len(in_flight) - 1
          /\ \A k \in 1..Len(in_flight) - 1 : Tail(OnLine)[k] = OnLine[k + 1]
      BY <1>1, <2>3, HeadTailStay, OnLinePackets
    <3>2. OnLine' \in Seq(Packets) /\ Len(OnLine') = Len(in_flight) - 1
      BY <2>2, MessagesOf DEF TypeOK, OnLine
    <3>3. ASSUME NEW k \in 1..Len(in_flight) - 1
          PROVE  OnLine'[k] = Tail(OnLine)[k]
      BY <2>2, <3>1, <3>3 DEF OnLine
    <3> QED
      BY <3>1, <3>2, <3>3, SeqEqual
  <2>6. /\ OnLine \o buffer # <<>>
        /\ Head(OnLine \o buffer) = Head(in_flight).m
        /\ (OnLine \o buffer)' = Tail(OnLine \o buffer)
    BY <1>1, <2>1, <2>3, <2>4, <2>5, TailOfConcat
  <2>7. Link!Deliver
    BY <1>5, <2>1, <2>6 DEF Deliver, Link!Deliver
  <2> QED
    BY <2>7 DEF Link!Next
<1>6. CASE MeetFar
  BY <1>6 DEF MeetFar, scheduler, OnLine, Link!Hear, Link!Next
<1>7. CASE SendNear \/ SendFar \/ Reverse \/ Tick
  BY <1>2, <1>7 DEF SendNear, SendFar, Reverse, Tick, scheduler, shared
<1>8. CASE MeetNear \/ Receive \/ Check \/ Drop
  BY <1>2, <1>8 DEF MeetNear, Receive, Check, Drop, scheduler, shared
<1>9. CASE ReadClock \/ EndDeliver \/ Look \/ NoLoad \/ Nap
  BY <1>2, <1>9 DEF ReadClock, EndDeliver, Look, NoLoad, Nap, shared
<1>10. CASE WaitOnCond \/ Abort \/ Wake \/ SpuriousWake
  BY <1>2, <1>10 DEF WaitOnCond, Abort, Wake, SpuriousWake, shared
<1> QED
  BY <1>3, <1>4, <1>5, <1>6, <1>7, <1>8, <1>9, <1>10
     DEF Next, ForwarderStep, ReverseStep, SchedulerStep

\* The three threads, the buffer and the line implement one pipe, for any
\* buffer, delays and scheduling: every step is a step of the pipe or none.
THEOREM EmulatorIsPipe == Spec => ImplementsPipe
<1>1. Inv /\ Inv' /\ [Next]_vars => [Link!Next]_Link!vars
  <2> SUFFICES ASSUME Inv, Inv', [Next]_vars
               PROVE  [Link!Next]_Link!vars
    OBVIOUS
  <2>1. CASE Next
    BY <2>1, LinkNext DEF Inv
  <2>2. CASE UNCHANGED vars
    BY <2>2 DEF vars, Link!vars, OnLine
  <2> QED
    BY <2>1, <2>2
<1> QED
  BY <1>1, LinkInit, LinkInvariance, PTL DEF Spec, ImplementsPipe, Link!Spec
=============================================================================
