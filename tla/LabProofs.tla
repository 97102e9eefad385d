------------------------------ MODULE LabProofs ------------------------------
(***************************************************************************)
(* The transfers of the labs for any files and blocks, any window and any  *)
(* number of messages, whatever the link loses and corrupts and whichever  *)
(* program is started first: what is on the way between two programs is    *)
(* accounted for, and what is taken at its end is what was sent.           *)
(***************************************************************************)
EXTENDS LabTransfers, SequenceTheorems, WellFoundedInduction, TLAPS

(* The inductive invariant *)

\* Where a program is tells whose program it is.
Places ==
    /\ pc["send"] \in {"name", "copy"} => lab = "Lab2"
    /\ pc["send"] \in {"loop", "drain"} => lab = "Lab3"
    /\ pc["send"] = "blocks" => lab = "Lab6"
    /\ pc["recv"] \in {"name", "size", "copy"} => lab = "Lab2"
    /\ pc["recv"] = "loop" => lab = "Lab3"
    /\ pc["recv"] \in {"first", "write"} => lab = "Lab6"
    /\ lab = "Lab6" => ~alive

\* A program that is started has its first message for the emulator, and one
\* that is not has sent nothing.
Starts ==
    \A e \in Ends :
      /\ pc[e] = "off" => sock[e] = <<>> /\ ~link_up[e]
      /\ pc[e] # "off" /\ ~link_up[e] /\ lab # "Lab6" => Len(sock[e]) > 0

\* Every message of Lab2 but the first of a program says something.
Spoken == Message \ {<<>>}
Said ==
    lab = "Lab2" =>
      /\ line \in Seq(Spoken) /\ inbox["recv"] \in Seq(Spoken)
      /\ \A k \in 1..Len(sock["send"]) : k > 1 \/ link_up["send"] => sock["send"][k] \in Spoken

\* Before send.c of Lab2 is started nothing is on the way.
QuietBefore == lab = "Lab2" /\ pc["send"] = "off" => Unread = 0

\* recv.c of Lab3 has nothing to acknowledge before the emulator knows send.c.
NothingEarly ==
    lab = "Lab3" /\ ~link_up["send"] =>
      /\ line = <<>> /\ inbox["recv"] = <<>>
      /\ Len(sock["recv"]) <= (IF link_up["recv"] THEN 0 ELSE 1)

\* A message sent and not lost is on its way or was checked.
Checked ==
    lab = "Lab3" =>
      /\ i = j + Underway("send") + Len(line) + Len(inbox["recv"]) + lost
      /\ pc["send"] = "drain" => i = count
      /\ pc["send"] = "done" => i = count /\ space = window_size

Room == lab = "Lab3" => window_size - space = Unread + lost

Shape == TypeOK /\ offset <= Len(file) /\ Places /\ Starts /\ Said
Inv == Shape /\ LockStep /\ QuietBefore /\ NothingEarly /\ Checked /\ Room
-----------------------------------------------------------------------------
(* What is sent is what is taken *)

\* What send.c has sent and recv.c has not read, the message of init() apart, is
\* in S before the emulator has it and in T behind.
OnTheWay(S, T) ==
    /\ \A k \in 1..Len(sock["send"]) : k > 1 \/ link_up["send"] => sock["send"][k] \in S
    /\ line \in Seq(T) /\ inbox["recv"] \in Seq(T)

\* Lab3: a message is a greeting, one unit of it flipped at most.
Received ==
    {m \in Message : \E g \in Greetings : \E k \in Nat :
        /\ Len(m) = Len(g)
        /\ \A n \in 1..Len(g) : m[n] = IF n = k THEN 1 - g[n] ELSE g[n]}
\* What is sent of it is always a greeting.
Greeted == /\ lab = "Lab3" => OnTheWay(Greetings, Received)
           /\ Flagged

\* Lab2: the message that recv.c waits for, if send.c has sent it.
Due ==
    IF pc["send"] = "name" /\ pc["recv"] \in {"off", "name"} THEN {Name}
    ELSE IF pc["send"] = "copy" /\ pc["recv"] = "size" THEN {<<Len(file)>>}
    ELSE IF pc["send"] = "copy" /\ pc["recv"] = "copy" /\ Len(written) < offset
         THEN {SubSeq(file, Len(written) + 1, offset)}
    ELSE {}

\* Where recv.c is when send.c waits, and when the reply is on its way.
Turns ==
    \/ pc["send"] = "off" /\ pc["recv"] \in {"off", "name"} /\ offset = 0
    \/ pc["send"] = "name" /\ pc["recv"] \in {"off", "name", "size"} /\ offset = 0
    \/ pc["send"] = "copy" /\ pc["recv"] = "size" /\ offset = 0
    \/ pc["send"] = "copy" /\ pc["recv"] \in {"copy", "done"}
    \/ pc["send"] = "done" /\ pc["recv"] = "done"
Replied ==
    \/ pc["send"] = "name" /\ pc["recv"] = "size"
    \/ pc["send"] = "copy" /\ pc["recv"] \in {"copy", "done"} /\ Len(written) = offset
Replies == Underway("recv") + Len(inbox["send"])
Copied ==
    /\ written = SubSeq(file, 1, Len(written)) /\ Len(written) <= offset
    /\ pc["recv"] \in {"off", "name", "size"} => written = <<>>
    /\ pc["recv"] = "copy" => rest = Len(file) - Len(written) /\ rest > 0
    /\ pc["recv"] = "done" => written = file
\* The file is written as far as it was read, or but for the block that is due.
Copying ==
    (lab = "Lab2" /\ ~corrupt) =>
      OnTheWay(Due, Due) /\ (Replies > 0 => Replied) /\ Turns /\ Copied

\* A file the server of Lab6 writes as it is.
Plain == \A k \in 1..Len(file) : file[k] \notin {0, -2}
\* Lab6: the datagrams of a backup, in order.
Datagram(k) == IF k = 0 THEN Name ELSE IF k <= Blocks THEN BlockAt(k) ELSE FINISH

\* q has those with the numbers f, in their order; those below taken are read,
\* and sent is the number of the next.
Numbered(f, q, taken, sent) ==
    /\ Len(f) = Len(q)
    /\ \A n \in 1..Len(f) : taken <= f[n] /\ f[n] < sent /\ q[n] = Datagram(f[n])
    /\ \A n, m \in 1..Len(f) : n < m => f[n] < f[m]
Sender(sent) ==
    \/ pc["send"] = "off" /\ sent = 0 /\ offset = 0
    \/ /\ pc["send"] = "blocks" /\ sent \in 1..Blocks + 1
       /\ offset = Min({(sent - 1) * (MAX_LEN - 1), Len(file)})
    \/ pc["send"] = "done" /\ sent = Blocks + 2
Taker(taken, kept) ==
    /\ pc["recv"] \in {"off", "first", "write", "done"}
    /\ pc["recv"] \in {"write", "done"} => taken > 0
    /\ written = WithBlocks(kept)
    /\ \A k \in kept : k < taken /\ ~Finished(BlockAt(k))
\* Nothing lost is nothing left out.
Complete(taken, sent, kept, f, g) ==
    /\ sent = taken + Len(f) + Len(g)
    /\ \A n \in 1..Len(f) : f[n] = taken + n - 1
    /\ \A n \in 1..Len(g) : g[n] = taken + Len(f) + n - 1
    /\ pc["recv"] \in {"off", "first"} => taken = 0
    /\ pc["recv"] = "write" => kept = 1..taken - 1
    /\ pc["recv"] = "done" => kept = BeforeFinish
Numbers(taken, sent, kept, f, g) ==
    /\ Sender(sent) /\ Taker(taken, kept) /\ taken <= sent
    /\ Numbered(f, inbox["recv"], taken, sent) /\ Numbered(g, sock["send"], taken, sent)
    /\ \A n \in 1..Len(f) : \A m \in 1..Len(g) : f[n] < g[m]
    /\ lost = 0 => Complete(taken, sent, kept, f, g)
\* There are numbers for all that is in the socket and in the inbox.
Saving ==
    lab = "Lab6" =>
      \E taken, sent \in Nat, kept \in SUBSET (1..Blocks), f, g \in Seq(Nat) :
        Numbers(taken, sent, kept, f, g)
-----------------------------------------------------------------------------
(* Lemmas on sequences *)

LEMMA AppendStays ==
    ASSUME NEW S, NEW s \in Seq(S), NEW x \in S
    PROVE  /\ Append(s, x) \in Seq(S)
           /\ Len(Append(s, x)) = Len(s) + 1
           /\ Append(s, x)[Len(s) + 1] = x
           /\ \A k \in 1..Len(s) : Append(s, x)[k] = s[k]
  OBVIOUS

LEMMA HeadTailStay ==
    ASSUME NEW S, NEW s \in Seq(S), s # <<>>
    PROVE  /\ Head(s) \in S
           /\ Head(s) = s[1]
           /\ Tail(s) \in Seq(S)
           /\ Len(s) \in Nat \ {0}
           /\ Len(Tail(s)) = Len(s) - 1
           /\ \A k \in 1..Len(s) - 1 : Tail(s)[k] = s[k + 1]
  BY HeadTailProperties, EmptySeq

LEMMA ConcatStays ==
    ASSUME NEW S, NEW s \in Seq(S), NEW t \in Seq(S)
    PROVE  /\ s \o t \in Seq(S)
           /\ Len(s \o t) = Len(s) + Len(t)
           /\ \A k \in 1..Len(s) : (s \o t)[k] = s[k]
           /\ \A k \in 1..Len(t) : (s \o t)[Len(s) + k] = t[k]
  BY ConcatProperties

LEMMA MinIsIn ==
    ASSUME NEW S \in SUBSET Nat, S # {}
    PROVE  Min(S) \in S /\ \A y \in S : Min(S) <= y
<1> DEFINE R == OpToRel(<, Nat)
<1>1. IsWellFoundedOn(R, Nat) /\ S \subseteq Nat
  BY NatLessThanWellFounded
<1>2. R = {ss \in Nat \X Nat : ss[1] < ss[2]}
  BY DEF OpToRel
<1> HIDE DEF R
<1>3. PICK x \in S : \A y \in S : ~(<<y, x>> \in R)
  BY <1>1, WFMin, Zenon
<1>4. ASSUME NEW y \in S
      PROVE  x <= y
  <2>1. <<y, x>> \in Nat \X Nat
    OBVIOUS
  <2>2. ~(y < x)
    BY <1>2, <1>3, <2>1
  <2> QED
    BY <2>2
<1> QED
  BY <1>4 DEF Min

LEMMA MinOfTwo ==
    ASSUME NEW a \in Int, NEW b \in Int
    PROVE  Min({a, b}) = IF a <= b THEN a ELSE b
<1> DEFINE m == IF a <= b THEN a ELSE b
<1>1. m \in {a, b} /\ \A y \in {a, b} : m <= y
  OBVIOUS
<1>2. \A x \in {a, b} : (\A y \in {a, b} : x <= y) => x = m
  OBVIOUS
<1> HIDE DEF m
<1>3. Min({a, b}) = m
  BY <1>1, <1>2, Zenon DEF Min
<1> QED
  BY <1>3 DEF m
-----------------------------------------------------------------------------
(* What the helpers of lib.c do *)

LEMMA Sending ==
    ASSUME TypeOK, NEW e \in Ends, NEW ms \in Seq(Message), SendAll(e, ms)
    PROVE  /\ sock' \in [Ends -> Seq(Message)]
           /\ sock'[e] = sock[e] \o ms
           /\ Len(sock'[e]) = Len(sock[e]) + Len(ms)
           /\ \A d \in Ends \ {e} : sock'[d] = sock[d]
           /\ \A k \in 1..Len(sock[e]) : sock'[e][k] = sock[e][k]
           /\ \A k \in 1..Len(ms) : sock'[e][Len(sock[e]) + k] = ms[k]
<1>1. sock \in [Ends -> Seq(Message)] /\ sock[e] \in Seq(Message)
  BY DEF TypeOK
<1>2. sock[e] \o ms \in Seq(Message)
  BY <1>1, ConcatStays
<1>3. sock' = [sock EXCEPT ![e] = sock[e] \o ms]
  BY DEF SendAll
<1>4. sock'[e] = sock[e] \o ms /\ \A d \in Ends \ {e} : sock'[d] = sock[d]
  BY <1>1, <1>3
<1> HIDE DEF Message
<1>5. sock' \in [Ends -> Seq(Message)]
  BY <1>1, <1>2, <1>3
<1>6. /\ Len(sock[e] \o ms) = Len(sock[e]) + Len(ms)
      /\ \A k \in 1..Len(sock[e]) : (sock[e] \o ms)[k] = sock[e][k]
      /\ \A k \in 1..Len(ms) : (sock[e] \o ms)[Len(sock[e]) + k] = ms[k]
  BY <1>1, ConcatStays
<1> QED
  BY <1>4, <1>5, <1>6, Zenon

LEMMA SendingOne ==
    ASSUME TypeOK, NEW e \in Ends, NEW m \in Message, send_message(e, m)
    PROVE  /\ sock' \in [Ends -> Seq(Message)]
           /\ Len(sock'[e]) = Len(sock[e]) + 1
           /\ \A d \in Ends \ {e} : sock'[d] = sock[d]
           /\ \A k \in 1..Len(sock[e]) : sock'[e][k] = sock[e][k]
           /\ sock'[e][Len(sock[e]) + 1] = m
<1>1. <<m>> \in Seq(Message) /\ Len(<<m>>) = 1 /\ <<m>>[1] = m
  OBVIOUS
<1>2. SendAll(e, <<m>>)
  BY DEF send_message
<1> DEFINE ms == <<m>>
<1> HIDE DEF ms, Message
<1>3. /\ sock' \in [Ends -> Seq(Message)]
      /\ Len(sock'[e]) = Len(sock[e]) + Len(ms)
      /\ \A d \in Ends \ {e} : sock'[d] = sock[d]
      /\ \A k \in 1..Len(sock[e]) : sock'[e][k] = sock[e][k]
      /\ \A k \in 1..Len(ms) : sock'[e][Len(sock[e]) + k] = ms[k]
  BY <1>1, <1>2, Sending DEF ms
<1> QED
  BY <1>1, <1>3 DEF ms

LEMMA Receiving ==
    ASSUME TypeOK, NEW e \in Ends, recv_message(e)
    PROVE  /\ inbox' \in [Ends -> Seq(Message)]
           /\ Len(inbox[e]) > 0
           /\ Head(inbox[e]) \in Message
           /\ Head(inbox[e]) = inbox[e][1]
           /\ inbox'[e] = Tail(inbox[e])
           /\ Len(inbox'[e]) = Len(inbox[e]) - 1
           /\ \A d \in Ends \ {e} : inbox'[d] = inbox[d]
<1>1. inbox \in [Ends -> Seq(Message)] /\ inbox[e] \in Seq(Message) /\ inbox[e] # <<>>
  BY DEF TypeOK, recv_message
<1>2. inbox' = [inbox EXCEPT ![e] = Tail(inbox[e])]
  BY DEF recv_message
<1>3. inbox'[e] = Tail(inbox[e]) /\ \A d \in Ends \ {e} : inbox'[d] = inbox[d]
  BY <1>1, <1>2
<1>4. /\ Tail(inbox[e]) \in Seq(Message) /\ Len(inbox[e]) \in Nat \ {0}
      /\ Head(inbox[e]) \in Message /\ Head(inbox[e]) = inbox[e][1]
      /\ Len(Tail(inbox[e])) = Len(inbox[e]) - 1
  BY <1>1, HeadTailStay
<1> HIDE DEF Message
<1>5. inbox' \in [Ends -> Seq(Message)]
  BY <1>1, <1>2, <1>4
<1> QED
  BY <1>3, <1>4, <1>5

\* What a program is not asked for.
LEMMA Unconcerned ==
    ASSUME lab' = lab
    PROVE  /\ lab # "Lab2" => Said' /\ LockStep' /\ QuietBefore'
           /\ lab # "Lab3" => NothingEarly' /\ Checked' /\ Room'
  BY DEF Said, LockStep, QuietBefore, NothingEarly, Checked, Room

LEMMA Lengths ==
    ASSUME TypeOK
    PROVE  /\ \A e \in Ends : Len(sock[e]) \in Nat /\ Len(inbox[e]) \in Nat
           /\ Len(line) \in Nat
<1>1. \A e \in Ends : sock[e] \in Seq(Message) /\ inbox[e] \in Seq(Message)
  BY DEF TypeOK
<1> QED
  BY <1>1, LenProperties DEF TypeOK

LEMMA BlockIsMessage ==
    ASSUME TypeOK, offset <= Len(file)
    PROVE  /\ Block \in Message
           /\ offset + Len(Block) <= Len(file)
           /\ Len(Block) \in Nat
<1>1. file \in Seq(Int) /\ Len(file) \in Nat /\ offset \in Nat
  BY DEF TypeOK, Message
<1> DEFINE last == IF offset + MAX_LEN - 1 <= Len(file) THEN offset + MAX_LEN - 1 ELSE Len(file)
<1>2. Min({offset + MAX_LEN - 1, Len(file)}) = last
  <2>1. offset + MAX_LEN - 1 \in Int /\ Len(file) \in Int
    BY <1>1, FileAssumption
  <2> QED
    BY <2>1, MinOfTwo, Zenon
<1>3. last \in Int /\ last <= Len(file) /\ offset <= last
  BY <1>1, FileAssumption
<1> HIDE DEF last
<1>4. Block = SubSeq(file, offset + 1, last)
  BY <1>2 DEF Block
<1>5. \A k \in offset + 1 .. last : file[k] \in Int
  BY <1>1, <1>3
<1>6. /\ SubSeq(file, offset + 1, last) \in Seq(Int)
      /\ Len(SubSeq(file, offset + 1, last)) = IF offset + 1 <= last THEN last - (offset + 1) + 1 ELSE 0
  BY <1>1, <1>3, <1>5, SubSeqProperties
<1> QED
  BY <1>1, <1>3, <1>4, <1>6 DEF Message

LEMMA GreetingsAreMessages == Greetings \subseteq Message
<1>1. Sealed \in Seq(Int)
  BY DEF Sealed, Hello_world, verificare
<1>2. \A tail \in Tails : tail \in Seq(Int)
  BY WindowAssumption
<1>3. \A tail \in Tails : Sealed \o tail \in Seq(Int)
  BY <1>1, <1>2, ConcatStays
<1> QED
  BY <1>3 DEF Greetings, Message

LEMMA WindowIsNat ==
    ASSUME WindowInit
    PROVE  window_size \in Nat
<1>1. PICK n \in Nat : window_size = (n * 1000) \div (200 * 8)
  BY WindowAssumption DEF WindowInit
<1>2. \A k \in Nat : k \div 1600 \in Nat
  OBVIOUS
<1>3. n * 1000 \in Nat
  OBVIOUS
<1>4. window_size = (n * 1000) \div 1600
  BY <1>1
<1> DEFINE k == n * 1000
<1> HIDE DEF k
<1>5. k \in Nat /\ window_size = k \div 1600
  BY <1>3, <1>4 DEF k
<1> QED
  BY <1>2, <1>5

LEMMA InitInv == Init => Inv
<1> SUFFICES ASSUME Init
             PROVE  Inv
  OBVIOUS
<1> USE DEF Init, LinkInit, FileInit, WindowInit
<1>1. TypeOK
  <2>1. <<>> \in Seq(Message) /\ <<>> \in Message
    BY EmptySeq DEF Message
  <2>2. sock \in [Ends -> Seq(Message)] /\ inbox \in [Ends -> Seq(Message)] /\ line \in Seq(Message)
    BY <2>1
  <2>3. window_size \in Nat
    BY WindowIsNat
  <2>4. checked \in Message
    BY DEF Sealed, Hello_world, verificare, Message
  <2>5. file \in Message
    BY <2>1, FileAssumption DEF Message
  <2>6. alive \in BOOLEAN /\ verdict \in BOOLEAN /\ corrupt \in BOOLEAN
    BY Zenon
  <2> QED
    BY <2>1, <2>2, <2>3, <2>4, <2>5, <2>6 DEF TypeOK
<1>2. offset <= Len(file)
  BY <1>1 DEF TypeOK, Message
<1>3. Places /\ Starts
  BY DEF Places, Starts, Ends
<1>4. Said
  BY EmptySeq DEF Said, Spoken, Ends
<1>5. Unread = 0 /\ Underway("send") = 0
  BY DEF Unread, Underway, Ends
<1>6. LockStep /\ QuietBefore
  BY <1>5 DEF LockStep, QuietBefore
<1>7. NothingEarly /\ Checked /\ Room
  BY <1>1, <1>5 DEF NothingEarly, Checked, Room, Ends, TypeOK
<1> QED
  BY <1>1, <1>2, <1>3, <1>4, <1>6, <1>7 DEF Inv, Shape
-----------------------------------------------------------------------------
(* The steps of send.c and client.c keep it *)

LEMMA SaidMore ==
    ASSUME TypeOK, Said, NEW m \in Spoken, UNCHANGED <<lab, line, link_up>>,
           inbox'["recv"] = inbox["recv"],
           Len(sock'["send"]) = Len(sock["send"]) + 1,
           \A k \in 1..Len(sock["send"]) : sock'["send"][k] = sock["send"][k],
           sock'["send"][Len(sock["send"]) + 1] = m
    PROVE  Said'
<1> SUFFICES ASSUME lab = "Lab2"
             PROVE  /\ line' \in Seq(Spoken) /\ inbox'["recv"] \in Seq(Spoken)
                    /\ \A k \in 1..Len(sock'["send"]) :
                         k > 1 \/ link_up'["send"] => sock'["send"][k] \in Spoken
  BY Zenon DEF Said
<1>1. line' \in Seq(Spoken) /\ inbox'["recv"] \in Seq(Spoken)
  BY DEF Said
<1>2. ASSUME NEW k \in 1..Len(sock'["send"]), k > 1 \/ link_up["send"]
      PROVE  sock'["send"][k] \in Spoken
  <2>1. Len(sock["send"]) \in Nat
    BY Lengths DEF Ends
  <2>2. CASE k = Len(sock["send"]) + 1
    BY <2>2
  <2>3. CASE k \in 1..Len(sock["send"])
    BY <1>2, <2>3 DEF Said
  <2> QED
    BY <2>1, <2>2, <2>3
<1> QED
  BY <1>1, <1>2

LEMMA StartSendKeeps ==
    ASSUME Inv, StartSend, UNCHANGED windowVars
    PROVE  Inv'
<1> USE DEF Inv, Shape, StartSend, parameters, emulator, fileVars, windowVars
<1>1. TypeOK /\ sock["send"] = <<>> /\ ~link_up["send"] /\ "send" \in Ends
  BY DEF Starts, Ends
<1> DEFINE ms == <<Hello, Name>>
<1>2. ms \in Seq(Message) /\ Len(ms) = 2 /\ ms[2] = Name /\ Name \in Spoken
  BY DEF Hello, Name, Message, Spoken
<1> HIDE DEF ms
<1>3. /\ sock' \in [Ends -> Seq(Message)]
      /\ Len(sock'["send"]) = 2
      /\ sock'["recv"] = sock["recv"]
      /\ sock'["send"][2] = Name
  <2>1. /\ sock' \in [Ends -> Seq(Message)]
        /\ Len(sock'["send"]) = Len(sock["send"]) + Len(ms)
        /\ \A d \in Ends \ {"send"} : sock'[d] = sock[d]
        /\ \A k \in 1..Len(ms) : sock'["send"][Len(sock["send"]) + k] = ms[k]
    BY <1>1, <1>2, Sending DEF ms
  <2>2. Len(sock["send"]) = 0
    BY <1>1
  <2> QED
    BY <1>2, <2>1, <2>2 DEF Ends
<1>4. pc' = [pc EXCEPT !["send"] = "name"]
  BY DEF Goto
<1>5. TypeOK'
  BY <1>3, <1>4 DEF TypeOK
<1>6. offset' <= Len(file')
  OBVIOUS
<1>7. Places' /\ Starts'
  BY <1>3, <1>4 DEF Places, Starts, TypeOK, Ends
<1>8. Said'
  <2>1. line' \in Seq(Spoken) /\ inbox'["recv"] \in Seq(Spoken)
    BY DEF Said
  <2>2. \A k \in 1..Len(sock'["send"]) : k > 1 \/ link_up'["send"] => sock'["send"][k] \in Spoken
    BY <1>1, <1>2, <1>3
  <2> QED
    BY <2>1, <2>2, Zenon DEF Said
<1>9. Unread = 0 /\ Unread' = 1
  BY <1>1, <1>3, <1>4, Lengths DEF QuietBefore, Unread, Underway, TypeOK, Ends
<1>10. LockStep' /\ QuietBefore'
  BY <1>4, <1>9 DEF LockStep, QuietBefore, TypeOK, Ends
<1> QED
  BY <1>5, <1>6, <1>7, <1>8, <1>10, Unconcerned

LEMMA SendSizeKeeps ==
    ASSUME Inv, SendSize, UNCHANGED windowVars
    PROVE  Inv'
<1> USE DEF Inv, Shape, SendSize, parameters, emulator, fileVars, windowVars
<1>1. TypeOK /\ lab = "Lab2" /\ "send" \in Ends
  BY DEF Places, Ends
<1>2. <<Len(file)>> \in Spoken
  BY <1>1 DEF TypeOK, Message, Spoken
<1>3. /\ sock' \in [Ends -> Seq(Message)]
      /\ Len(sock'["send"]) = Len(sock["send"]) + 1
      /\ sock'["recv"] = sock["recv"]
      /\ \A k \in 1..Len(sock["send"]) : sock'["send"][k] = sock["send"][k]
      /\ sock'["send"][Len(sock["send"]) + 1] = <<Len(file)>>
  BY <1>1, <1>2, SendingOne DEF Spoken, Ends
<1>4. /\ inbox' \in [Ends -> Seq(Message)]
      /\ Len(inbox'["send"]) = Len(inbox["send"]) - 1
      /\ inbox'["recv"] = inbox["recv"]
  BY <1>1, Receiving DEF Ends
<1>5. pc' = [pc EXCEPT !["send"] = "copy"]
  BY DEF Goto
<1>6. TypeOK'
  BY <1>3, <1>4, <1>5 DEF TypeOK
<1>7. offset' <= Len(file')
  OBVIOUS
<1>8. Places' /\ Starts'
  BY <1>1, <1>3, <1>5, Lengths DEF Places, Starts, TypeOK, Ends
<1>9. Said'
  BY <1>1, <1>2, <1>3, <1>4, SaidMore
<1>10. Unread' = Unread
  BY <1>1, <1>3, <1>4, <1>5, Lengths DEF Unread, Underway, TypeOK, Ends
<1>11. LockStep' /\ QuietBefore'
  BY <1>1, <1>5, <1>10 DEF LockStep, QuietBefore, TypeOK, Ends
<1> QED
  BY <1>1, <1>6, <1>7, <1>8, <1>9, <1>11, Unconcerned

LEMMA SendBlockKeeps ==
    ASSUME Inv, SendBlock, UNCHANGED windowVars
    PROVE  Inv'
<1>1. /\ TypeOK /\ offset <= Len(file) /\ Places /\ Starts /\ Said
      /\ LockStep /\ QuietBefore
  BY DEF Inv, Shape
<1>2. /\ UNCHANGED <<lab, loss, corrupt, pc, link_up, line, lost, alive, file, rest, written>>
      /\ UNCHANGED <<window_size, space, i, j, checked, verdict>>
      /\ offset' = offset + Len(Block)
      /\ pc["send"] = "copy" /\ Block # <<>>
  BY DEF SendBlock, parameters, emulator, windowVars
<1>3. lab = "Lab2" /\ "send" \in Ends
  BY <1>1, <1>2 DEF Places, Ends
<1>4. Block \in Spoken /\ Len(Block) \in Nat /\ offset + Len(Block) <= Len(file)
  BY <1>1, <1>2, BlockIsMessage DEF Spoken
<1>5. /\ sock' \in [Ends -> Seq(Message)]
      /\ Len(sock'["send"]) = Len(sock["send"]) + 1
      /\ sock'["recv"] = sock["recv"]
      /\ \A k \in 1..Len(sock["send"]) : sock'["send"][k] = sock["send"][k]
      /\ sock'["send"][Len(sock["send"]) + 1] = Block
  BY <1>1, <1>3, <1>4, SendingOne DEF Spoken, Ends, SendBlock
<1>6. /\ inbox' \in [Ends -> Seq(Message)]
      /\ Len(inbox'["send"]) = Len(inbox["send"]) - 1
      /\ inbox'["recv"] = inbox["recv"]
  BY <1>1, <1>3, Receiving DEF Ends, SendBlock
<1>7. TypeOK'
  BY <1>1, <1>2, <1>4, <1>5, <1>6 DEF TypeOK
<1>8. offset' <= Len(file')
  BY <1>2, <1>4
<1>9. Places' /\ Starts'
  BY <1>1, <1>2, <1>3, <1>5, Lengths DEF Places, Starts, TypeOK, Ends
<1>10. Said'
  BY <1>1, <1>2, <1>4, <1>5, <1>6, SaidMore
<1>11. Unread' = Unread
  BY <1>1, <1>2, <1>3, <1>5, <1>6, Lengths DEF Unread, Underway, TypeOK, Ends
<1>12. LockStep' /\ QuietBefore'
  BY <1>1, <1>2, <1>11 DEF LockStep, QuietBefore
<1> QED
  BY <1>2, <1>3, <1>7, <1>8, <1>9, <1>10, <1>12, Unconcerned DEF Inv, Shape

LEMMA EndSendKeeps ==
    ASSUME Inv, EndSend, UNCHANGED windowVars
    PROVE  Inv'
<1> USE DEF Inv, Shape, EndSend, parameters, emulator, fileVars, windowVars
<1>1. TypeOK /\ lab = "Lab2" /\ "send" \in Ends
  BY DEF Places, Ends
<1>2. /\ inbox' \in [Ends -> Seq(Message)]
      /\ Len(inbox'["send"]) = Len(inbox["send"]) - 1
      /\ inbox'["recv"] = inbox["recv"]
  BY <1>1, Receiving DEF Ends
<1>3. pc' = [pc EXCEPT !["send"] = "done"]
  BY DEF Goto
<1>4. TypeOK'
  BY <1>2, <1>3 DEF TypeOK
<1>5. Places' /\ Starts' /\ offset' <= Len(file')
  BY <1>1, <1>3 DEF Places, Starts, TypeOK, Ends
<1>6. Said'
  BY <1>2, Zenon DEF Said
<1>7. Unread' = Unread - 1
  BY <1>1, <1>2, <1>3, Lengths DEF Unread, Underway, TypeOK, Ends
<1>8. Unread \in Int
  BY <1>1, Lengths DEF Unread, Underway, Ends
<1>9. LockStep' /\ QuietBefore'
  BY <1>1, <1>3, <1>7, <1>8 DEF LockStep, QuietBefore, TypeOK, Ends
<1> QED
  BY <1>1, <1>4, <1>5, <1>6, <1>9, Unconcerned

\* The client of Lab6 only sends.
LEMMA BackupSendKeeps ==
    ASSUME Inv, BackupSendStep, UNCHANGED windowVars
    PROVE  Inv'
<1> USE DEF Inv, Shape, parameters, emulator, fileVars, windowVars
<1>1. TypeOK /\ "send" \in Ends
  BY DEF Ends
<1>2. lab = "Lab6" /\ pc["send"] # "done"
  BY DEF BackupSendStep, SendFileName, SendDatagram, SendFinish, Places
<1>3. PICK m \in Message : send_message("send", m)
  <2>1. Name \in Message /\ FINISH \in Message /\ Block \in Message
    BY <1>1, BlockIsMessage DEF Name, FINISH, Message
  <2> QED
    BY <2>1 DEF BackupSendStep, SendFileName, SendDatagram, SendFinish
<1>4. /\ sock' \in [Ends -> Seq(Message)]
      /\ Len(sock'["send"]) = Len(sock["send"]) + 1
      /\ sock'["recv"] = sock["recv"]
  BY <1>1, <1>3, SendingOne DEF Ends
<1>5. \E place \in {"blocks", "done"} : pc' = [pc EXCEPT !["send"] = place]
  <2>1. CASE SendFileName
    BY <2>1 DEF SendFileName, Goto
  <2>2. CASE SendDatagram
    <3>1. pc = [pc EXCEPT !["send"] = "blocks"]
      BY <2>2 DEF SendDatagram, TypeOK, Ends
    <3> QED
      BY <2>2, <3>1 DEF SendDatagram
  <2>3. CASE SendFinish
    BY <2>3 DEF SendFinish, Goto
  <2> QED
    BY <2>1, <2>2, <2>3 DEF BackupSendStep
<1>6. /\ offset' \in Nat /\ offset' <= Len(file')
      /\ UNCHANGED <<parameters, inbox, emulator, file, rest, written>>
  BY <1>1, BlockIsMessage DEF BackupSendStep, SendFileName, SendDatagram, SendFinish, TypeOK
<1>7. TypeOK'
  BY <1>4, <1>5, <1>6 DEF TypeOK
<1>8. Places' /\ Starts'
  BY <1>2, <1>4, <1>5, <1>6 DEF Places, Starts, TypeOK, Ends
<1> QED
  BY <1>2, <1>6, <1>7, <1>8, Unconcerned

LEMMA StartWindowKeeps ==
    ASSUME Inv, StartWindow, UNCHANGED fileVars
    PROVE  Inv'
<1> USE DEF Inv, Shape, StartWindow, parameters, emulator, fileVars, windowVars
<1>1. TypeOK /\ sock["send"] = <<>> /\ ~link_up["send"] /\ "send" \in Ends
  BY DEF Starts, Ends
<1>2. send_message("send", Hello) /\ Hello \in Message
  BY DEF send_message, Hello, Message
<1>3. /\ sock' \in [Ends -> Seq(Message)]
      /\ Len(sock'["send"]) = 1
      /\ sock'["recv"] = sock["recv"]
  BY <1>1, <1>2, SendingOne DEF Ends
<1>4. pc' = [pc EXCEPT !["send"] = "loop"]
  BY DEF Goto
<1>5. TypeOK'
  BY <1>3, <1>4 DEF TypeOK
<1>6. Places' /\ Starts' /\ offset' <= Len(file')
  <2>1. Places'
    BY <1>4 DEF Places, TypeOK, Ends
  <2>2. pc'["send"] = "loop" /\ pc'["recv"] = pc["recv"]
    BY <1>4 DEF TypeOK, Ends
  <2>3. Starts'
    <3>1. ~link_up'["send"] /\ link_up' = link_up /\ sock'["recv"] = sock["recv"] /\ lab' = lab
      BY <1>1, <1>3
    <3>2. Len(sock'["send"]) > 0
      BY <1>3
    <3> QED
      BY <2>2, <3>1, <3>2 DEF Starts, Ends
  <2> QED
    BY <2>1, <2>3
<1>7. Underway("send")' = Underway("send") /\ Underway("recv")' = Underway("recv")
  BY <1>1, <1>3, <1>4, Lengths DEF Underway, TypeOK, Ends
<1>8. Unread' = Unread
  BY <1>7 DEF Unread
<1>9. NothingEarly' /\ Room'
  BY <1>3, <1>8 DEF NothingEarly, Room
<1>10. Checked'
  BY <1>1, <1>4, <1>7 DEF Checked, TypeOK, Ends
<1> QED
  BY <1>5, <1>6, <1>9, <1>10, Unconcerned

LEMMA SendNextKeeps ==
    ASSUME Inv, SendNext, UNCHANGED fileVars
    PROVE  Inv'
<1>1. /\ TypeOK /\ offset <= Len(file) /\ Places /\ Starts
      /\ NothingEarly /\ Checked /\ Room
  BY DEF Inv, Shape
<1>2. /\ UNCHANGED <<lab, loss, corrupt, inbox, link_up, line, lost, alive>>
      /\ UNCHANGED <<file, offset, rest, written, window_size, j, checked, verdict>>
      /\ pc["send"] = "loop" /\ i < count /\ space # 0
      /\ space' = space - 1 /\ i' = i + 1
      /\ pc' = [pc EXCEPT !["send"] = IF i' = count THEN "drain" ELSE "loop"]
  BY DEF SendNext, HasSpace, Goto, parameters, emulator, fileVars
<1>3. lab = "Lab3" /\ "send" \in Ends
  BY <1>1, <1>2 DEF Places, Ends
<1>4. PICK m \in Message : send_message("send", m)
  BY GreetingsAreMessages DEF SendNext
<1>5. /\ sock' \in [Ends -> Seq(Message)]
      /\ Len(sock'["send"]) = Len(sock["send"]) + 1
      /\ sock'["recv"] = sock["recv"]
  BY <1>1, <1>3, <1>4, SendingOne DEF Ends
<1>6. TypeOK'
  <2>1. space' \in Nat /\ i' \in Nat
    BY <1>1, <1>2 DEF TypeOK
  <2>2. pc' \in [Ends -> {"off", "name", "size", "copy", "blocks", "first", "write",
                          "loop", "drain", "done"}]
    BY <1>1, <1>2 DEF TypeOK
  <2> QED
    BY <1>1, <1>2, <1>5, <2>1, <2>2 DEF TypeOK
<1>7. Places' /\ Starts' /\ offset' <= Len(file')
  BY <1>1, <1>2, <1>3, <1>5, Lengths DEF Places, Starts, TypeOK, Ends
<1>8. /\ Underway("send")' = Underway("send") + 1 /\ Underway("recv")' = Underway("recv")
      /\ Underway("send") \in Int /\ Underway("recv") \in Int
  BY <1>1, <1>2, <1>3, <1>5, Lengths DEF Underway, TypeOK, Ends
<1>9. Unread' = Unread + 1 /\ Unread \in Int
  BY <1>1, <1>2, <1>3, <1>5, Lengths DEF Unread, Underway, TypeOK, Ends
<1>10. NothingEarly'
  BY <1>1, <1>2, <1>5 DEF NothingEarly
<1>11. Room'
  BY <1>1, <1>2, <1>3, <1>9 DEF Room, TypeOK
<1>12. Checked'
  <2>1. pc'["send"] = IF i' = count THEN "drain" ELSE "loop"
    BY <1>1, <1>2 DEF TypeOK, Ends
  <2>2. i' = (j + Underway("send") + Len(line) + Len(inbox["recv"]) + lost)'
    BY <1>1, <1>2, <1>3, <1>5, Lengths DEF Checked, Underway, TypeOK, Ends
  <2> QED
    BY <2>1, <2>2 DEF Checked
<1> QED
  BY <1>2, <1>3, <1>6, <1>7, <1>10, <1>11, <1>12, Unconcerned DEF Inv, Shape

\* AwaitSpace and Drain take an acknowledgement.
LEMMA TakeAckKeeps ==
    ASSUME Inv, AwaitSpace \/ Drain, UNCHANGED fileVars
    PROVE  Inv'
<1>1. /\ TypeOK /\ offset <= Len(file) /\ Places /\ Starts
      /\ NothingEarly /\ Checked /\ Room
  BY DEF Inv, Shape
<1>2. /\ UNCHANGED <<lab, loss, corrupt, sock, link_up, line, lost, alive>>
      /\ UNCHANGED <<file, offset, rest, written, window_size, i, j, checked, verdict>>
      /\ pc["send"] \in {"loop", "drain"} /\ recv_message("send")
      /\ space' = space + 1
  BY DEF AwaitSpace, Drain, parameters, emulator, fileVars
<1>3. /\ pc' \in [Ends -> {"off", "name", "size", "copy", "blocks", "first", "write",
                           "loop", "drain", "done"}]
      /\ pc'["recv"] = pc["recv"]
      /\ \/ pc'["send"] = pc["send"]
         \/ pc'["send"] = "drain" /\ pc["send"] = "drain"
         \/ pc'["send"] = "done" /\ pc["send"] = "drain" /\ space' = window_size
  <2>1. CASE AwaitSpace
    BY <1>1, <2>1 DEF AwaitSpace, TypeOK
  <2>2. CASE Drain
    BY <1>1, <2>2 DEF Drain, Goto, TypeOK, Ends
  <2> QED
    BY <2>1, <2>2
<1>4. lab = "Lab3" /\ "send" \in Ends
  BY <1>1, <1>2 DEF Places, Ends
<1>5. /\ inbox' \in [Ends -> Seq(Message)]
      /\ Len(inbox'["send"]) = Len(inbox["send"]) - 1
      /\ inbox'["recv"] = inbox["recv"]
  BY <1>1, <1>2, <1>4, Receiving DEF Ends
<1>6. TypeOK'
  <2>1. space' \in Nat
    BY <1>1, <1>2 DEF TypeOK
  <2> QED
    BY <1>1, <1>2, <1>3, <1>5, <2>1 DEF TypeOK
<1>7. Places' /\ Starts' /\ offset' <= Len(file')
  BY <1>1, <1>2, <1>3, <1>4, Lengths DEF Places, Starts, TypeOK, Ends
<1>8. /\ Underway("send")' = Underway("send") /\ Underway("recv")' = Underway("recv")
      /\ Underway("send") \in Int /\ Underway("recv") \in Int
  BY <1>1, <1>2, <1>3, Lengths DEF Underway, TypeOK, Ends
<1>9. Unread' = Unread - 1 /\ Unread \in Int
  <2>1. pc["send"] # "off" /\ pc'["send"] # "off" /\ pc'["recv"] = pc["recv"]
    BY <1>2, <1>3
  <2>2. Len(line) \in Nat /\ \A e \in Ends : Len(sock[e]) \in Nat /\ Len(inbox[e]) \in Nat
    BY <1>1, Lengths
  <2> QED
    BY <1>2, <1>5, <2>1, <2>2 DEF Unread, Underway, Ends
<1>10. NothingEarly'
  BY <1>1, <1>2, <1>5 DEF NothingEarly
<1>11. Room'
  BY <1>1, <1>2, <1>4, <1>9 DEF Room, TypeOK
<1>12. Checked'
  <2>1. i' = (j + Underway("send") + Len(line) + Len(inbox["recv"]) + lost)'
    BY <1>1, <1>2, <1>3, <1>4, <1>5 DEF Checked, Underway
  <2>2. pc'["send"] = "drain" => i = count
    BY <1>1, <1>2, <1>3, <1>4 DEF Checked
  <2>3. pc'["send"] = "done" => i = count /\ space' = window_size
    BY <1>1, <1>2, <1>3, <1>4 DEF Checked
  <2> QED
    BY <1>2, <2>1, <2>2, <2>3 DEF Checked
<1> QED
  BY <1>2, <1>4, <1>6, <1>7, <1>10, <1>11, <1>12, Unconcerned DEF Inv, Shape

LEMMA SendKeeps == Inv /\ SendStep => Inv'
  BY StartSendKeeps, SendSizeKeeps, SendBlockKeeps, EndSendKeeps, BackupSendKeeps,
     StartWindowKeeps, SendNextKeeps, TakeAckKeeps
     DEF SendStep, FileSendStep, WindowSendStep
-----------------------------------------------------------------------------
(* The steps of recv.c and server.c keep it *)

\* StartRecv of Lab2 and StartCheck of Lab3 are the same init().
LEMMA StartRecvKeeps ==
    ASSUME Inv, StartRecv \/ StartCheck, UNCHANGED <<fileVars, windowVars>>
    PROVE  Inv'
<1>1. /\ TypeOK /\ offset <= Len(file) /\ Places /\ Starts /\ Said
      /\ LockStep /\ QuietBefore /\ NothingEarly /\ Checked /\ Room
  BY DEF Inv, Shape
<1>2. /\ UNCHANGED <<lab, loss, corrupt, inbox, link_up, line, lost, alive>>
      /\ UNCHANGED <<file, offset, rest, written>>
      /\ UNCHANGED <<window_size, space, i, j, checked, verdict>>
      /\ pc["recv"] = "off"
      /\ send_message("recv", Hello)
      /\ \/ lab = "Lab2" /\ pc' = [pc EXCEPT !["recv"] = "name"]
         \/ lab = "Lab3" /\ pc' = [pc EXCEPT !["recv"] = "loop"]
  BY DEF StartRecv, StartCheck, Goto, send_message, parameters, emulator, fileVars, windowVars
<1>3. /\ Hello \in Message /\ sock["recv"] = <<>> /\ Len(sock["recv"]) = 0
      /\ ~link_up["recv"] /\ "recv" \in Ends /\ "send" \in Ends
  BY <1>1, <1>2 DEF Starts, Hello, Message, Ends
<1>4. /\ sock' \in [Ends -> Seq(Message)]
      /\ Len(sock'["recv"]) = 1
      /\ sock'["send"] = sock["send"]
  <2>1. TypeOK /\ send_message("recv", Hello)
    BY <1>1, <1>2
  <2>2. /\ sock' \in [Ends -> Seq(Message)]
        /\ Len(sock'["recv"]) = Len(sock["recv"]) + 1
        /\ \A d \in Ends \ {"recv"} : sock'[d] = sock[d]
    BY <1>3, <2>1, SendingOne
  <2> QED
    BY <1>3, <2>2
<1>5. pc'["recv"] \in {"name", "loop"} /\ pc'["send"] = pc["send"]
  BY <1>1, <1>2 DEF TypeOK, Ends
<1>6. TypeOK'
  BY <1>1, <1>2, <1>4 DEF TypeOK
<1>7. Places'
  BY <1>1, <1>2 DEF Places, TypeOK, Ends
<1>8. Starts'
  <2>1. UNCHANGED <<lab, link_up>> /\ pc'["recv"] # "off"
    BY <1>2, <1>5
  <2> QED
    <3>1. /\ pc'["send"] = "off" => sock'["send"] = <<>> /\ ~link_up'["send"]
          /\ pc'["send"] # "off" /\ ~link_up'["send"] /\ lab' # "Lab6" => Len(sock'["send"]) > 0
      BY <1>1, <1>3, <1>4, <1>5, <2>1 DEF Starts
    <3>2. pc'["recv"] # "off" /\ Len(sock'["recv"]) > 0
      BY <1>4, <2>1
    <3> QED
      BY <3>1, <3>2 DEF Starts, Ends
<1>9. Said'
  BY <1>1, <1>2, <1>4 DEF Said
<1>10. Underway("send")' = Underway("send") /\ Unread' = Unread
  <2>1. UNCHANGED <<link_up, line, inbox>> /\ pc'["recv"] # "off" /\ pc["recv"] = "off"
    BY <1>2, <1>5
  <2>2. Len(line) \in Nat /\ \A e \in Ends : Len(sock[e]) \in Nat /\ Len(inbox[e]) \in Nat
    BY <1>1, Lengths
  <2> QED
    BY <1>1, <1>3, <1>4, <1>5, <2>1, <2>2 DEF Unread, Underway, TypeOK, Ends
<1>11. LockStep' /\ QuietBefore'
  BY <1>1, <1>2, <1>5, <1>10 DEF LockStep, QuietBefore
<1>12. NothingEarly'
  BY <1>1, <1>2, <1>3, <1>4 DEF NothingEarly
<1>13. Checked' /\ Room'
  BY <1>1, <1>2, <1>5, <1>10 DEF Checked, Room
<1> QED
  BY <1>1, <1>2, <1>6, <1>7, <1>8, <1>9, <1>11, <1>12, <1>13 DEF Inv, Shape

LEMMA NotNegative ==
    ASSUME TypeOK, Starts, lab # "Lab6", NEW e \in Ends
    PROVE  Underway(e) \in Nat
<1>1. Len(sock[e]) \in Nat
  BY Lengths
<1>2. pc[e] # "off" /\ ~link_up[e] => Len(sock[e]) > 0
  BY DEF Starts
<1> QED
  BY <1>1, <1>2 DEF Underway

LEMMA UnreadIs ==
    ASSUME NEW us, NEW ur, NEW l, NEW r, NEW n,
           Underway("send") = us, Underway("recv") = ur,
           Len(line) = l, Len(inbox["recv"]) = r, Len(inbox["send"]) = n
    PROVE  Unread = us + l + r + ur + n
  BY DEF Unread

LEMMA UnreadThen ==
    ASSUME NEW us, NEW ur, NEW l, NEW r, NEW n,
           Underway("send")' = us, Underway("recv")' = ur,
           Len(line)' = l, Len(inbox["recv"])' = r, Len(inbox["send"])' = n
    PROVE  Unread' = us + l + r + ur + n
  BY DEF Unread

LEMMA ReplyCounts ==
    ASSUME Underway("send") \in Int, Underway("recv") \in Int,
           Len(line) \in Int, Len(inbox["recv"]) \in Int, Len(inbox["send"]) \in Int,
           Underway("send")' = Underway("send"), Underway("recv")' = Underway("recv") + 1,
           Len(line)' = Len(line), Len(inbox["recv"])' = Len(inbox["recv"]) - 1,
           Len(inbox["send"])' = Len(inbox["send"])
    PROVE  Unread' = Unread
<1>1. PICK us \in Int, ur \in Int, l \in Int, r \in Int, n \in Int :
             /\ us = Underway("send") /\ ur = Underway("recv")
             /\ l = Len(line) /\ r = Len(inbox["recv"]) /\ n = Len(inbox["send"])
  OBVIOUS
<1>2. Unread = us + l + r + ur + n
  BY <1>1 DEF Unread
<1>3. /\ Underway("send")' = us /\ Underway("recv")' = ur + 1
      /\ Len(line)' = l /\ Len(inbox["recv"])' = r - 1 /\ Len(inbox["send"])' = n
  BY <1>1
<1>4. Unread' = Underway("send")' + Len(line)' + Len(inbox["recv"])'
                  + Underway("recv")' + Len(inbox["send"])'
  BY DEF Unread
<1>5. Unread' = us + l + (r - 1) + (ur + 1) + n
  BY <1>3, <1>4, Zenon
<1>6. us + l + (r - 1) + (ur + 1) + n = us + l + r + ur + n
  OBVIOUS
<1> QED
  BY <1>2, <1>5, <1>6, Zenon

\* A message that recv.c of Lab2 or Lab3 reads and answers.
LEMMA Answered ==
    ASSUME Inv, recv_message("recv"), NEW m \in Message, send_message("recv", m),
           UNCHANGED <<lab, link_up, line, lost, alive, file, offset>>,
           pc["recv"] # "off", pc'["recv"] # "off", pc'["send"] = pc["send"],
           lab # "Lab6"
    PROVE  /\ inbox' \in [Ends -> Seq(Message)] /\ sock' \in [Ends -> Seq(Message)]
           /\ offset' <= Len(file') /\ Starts' /\ Said'
           /\ LockStep' /\ QuietBefore' /\ NothingEarly'
           /\ Underway("send")' = Underway("send") /\ Unread' = Unread
           /\ Len(inbox'["recv"]) = Len(inbox["recv"]) - 1
<1>1. /\ TypeOK /\ offset <= Len(file) /\ Starts /\ Said
      /\ LockStep /\ QuietBefore /\ NothingEarly
  BY DEF Inv, Shape
<1>2. /\ sock' \in [Ends -> Seq(Message)]
      /\ Len(sock'["recv"]) = Len(sock["recv"]) + 1
      /\ sock'["send"] = sock["send"]
  BY <1>1, SendingOne DEF Ends
<1>3. /\ inbox' \in [Ends -> Seq(Message)]
      /\ Len(inbox["recv"]) > 0
      /\ inbox'["recv"] = Tail(inbox["recv"])
      /\ Len(inbox'["recv"]) = Len(inbox["recv"]) - 1
      /\ inbox'["send"] = inbox["send"]
  BY <1>1, Receiving DEF Ends
<1>4. /\ Len(line) \in Nat /\ \A e \in Ends : Len(sock[e]) \in Nat /\ Len(inbox[e]) \in Nat
      /\ "send" \in Ends /\ "recv" \in Ends
  BY <1>1, Lengths DEF Ends
<1>5. Starts'
  BY <1>1, <1>2, <1>4 DEF Starts, Ends
<1>6. Said'
  <2>1. lab = "Lab2" => inbox'["recv"] \in Seq(Spoken)
    <3>1. SUFFICES ASSUME lab = "Lab2"
                   PROVE  inbox'["recv"] \in Seq(Spoken)
      OBVIOUS
    <3>2. inbox["recv"] \in Seq(Spoken) /\ inbox["recv"] # <<>>
      BY <1>1, <1>3, <3>1 DEF Said
    <3> QED
      BY <1>3, <3>2, HeadTailStay
  <2> QED
    BY <1>1, <1>2, <2>1 DEF Said
<1>7. Underway("send")' = Underway("send") /\ Unread' = Unread
  <2>1. Underway("send")' = Underway("send")
    BY <1>2 DEF Underway
  <2>2. UNCHANGED <<line, link_up>> /\ pc["recv"] # "off" /\ pc'["recv"] # "off"
    OBVIOUS
  <2>3. Underway("recv")' = Underway("recv") + 1
    BY <1>2, <1>4, <2>2 DEF Underway
  <2>4. /\ Len(line)' = Len(line) /\ Len(inbox["send"])' = Len(inbox["send"])
        /\ Len(inbox["recv"])' = Len(inbox["recv"]) - 1
    BY <1>3, <2>2
  <2>5. /\ Underway("send") \in Int /\ Underway("recv") \in Int
        /\ Len(line) \in Int /\ Len(inbox["recv"]) \in Int /\ Len(inbox["send"]) \in Int
    BY <1>4 DEF Underway
  <2>6. Unread' = Unread
    BY <2>1, <2>3, <2>4, <2>5, ReplyCounts
  <2> QED
    BY <2>1, <2>6
<1>8. LockStep' /\ QuietBefore'
  BY <1>1, <1>7 DEF LockStep, QuietBefore
<1>9. NothingEarly'
  BY <1>1, <1>3, <1>4 DEF NothingEarly
<1> QED
  BY <1>1, <1>2, <1>3, <1>5, <1>6, <1>7, <1>8, <1>9

LEMMA ReceiveKeeps ==
    ASSUME Inv, ReceiveName \/ ReceiveSize \/ ReceiveBlock, UNCHANGED windowVars
    PROVE  Inv'
<1>1. TypeOK /\ Places /\ Said /\ "recv" \in Ends /\ "send" \in Ends
  BY DEF Inv, Shape, Ends
<1>2. /\ UNCHANGED <<lab, loss, corrupt, link_up, line, lost, alive, file, offset>>
      /\ UNCHANGED <<window_size, space, i, j, checked, verdict>>
      /\ pc["recv"] \in {"name", "size", "copy"} /\ recv_message("recv")
  BY DEF ReceiveName, ReceiveSize, ReceiveBlock, parameters, emulator, fileVars, windowVars
<1>3. lab = "Lab2"
  BY <1>1, <1>2 DEF Places
<1>4. PICK place \in {"size", "copy", "done"} : pc' = [pc EXCEPT !["recv"] = place]
  BY DEF ReceiveName, ReceiveSize, ReceiveBlock, Goto
<1>5. pc'["recv"] # "off" /\ pc'["send"] = pc["send"]
  BY <1>1, <1>4 DEF TypeOK, Ends
<1>6. Head(inbox["recv"]) \in Spoken /\ Head(inbox["recv"]) \in Message
  <2>1. inbox["recv"] \in Seq(Spoken) /\ inbox["recv"] # <<>>
    BY <1>1, <1>2, <1>3 DEF Said, recv_message
  <2> QED
    BY <2>1, HeadTailStay DEF Spoken
<1>7. PICK m \in Message : send_message("recv", m)
  <2>1. Note \in Message
    BY DEF Note, Message
  <2> QED
    BY <1>6, <2>1 DEF ReceiveName, ReceiveSize, ReceiveBlock, Echo
<1>8. /\ inbox' \in [Ends -> Seq(Message)] /\ sock' \in [Ends -> Seq(Message)]
      /\ offset' <= Len(file') /\ Starts' /\ Said'
      /\ LockStep' /\ QuietBefore'
  BY <1>2, <1>3, <1>5, <1>7, Answered
<1>9. rest' \in Int /\ written' \in Message
  <2>1. CASE ReceiveName
    BY <1>1, <2>1 DEF ReceiveName, fileVars, TypeOK
  <2>2. CASE ReceiveSize
    <3>1. \A t \in Spoken : t[1] \in Int
      BY DEF Spoken, Message
    <3> QED
      BY <1>1, <1>6, <2>2, <3>1 DEF ReceiveSize, TypeOK
  <2>3. CASE ReceiveBlock
    <3>1. \A t \in Message : written \o t \in Message /\ rest - Len(t) \in Int
      BY <1>1, ConcatStays DEF TypeOK, Message
    <3> QED
      BY <1>6, <2>3, <3>1 DEF ReceiveBlock
  <2> QED
    BY <2>1, <2>2, <2>3
<1>10. TypeOK'
  BY <1>1, <1>2, <1>4, <1>8, <1>9 DEF TypeOK
<1>11. Places'
  BY <1>1, <1>2, <1>3, <1>4 DEF Places, TypeOK, Ends
<1> QED
  BY <1>2, <1>3, <1>8, <1>10, <1>11, Unconcerned DEF Inv, Shape

LEMMA CStringIsMessage ==
    ASSUME NEW m \in Message
    PROVE  CString(m) \in Message
<1> DEFINE zeros == {k \in 1..Len(m) : m[k] = 0}
<1>1. CASE zeros = {}
  BY <1>1 DEF CString
<1>2. CASE zeros # {}
  <2>1. m \in Seq(Int) /\ zeros \subseteq 1..Len(m) /\ zeros \in SUBSET Nat
    BY DEF Message
  <2>2. CString(m) = SubSeq(m, 1, Min(zeros) - 1)
    BY <1>2 DEF CString
  <2> HIDE DEF zeros
  <2>3. Min(zeros) \in 1..Len(m)
    BY <1>2, <2>1, MinIsIn
  <2>4. Min(zeros) - 1 \in Int /\ \A k \in 1..Min(zeros) - 1 : m[k] \in Int
    BY <2>1, <2>3
  <2>5. SubSeq(m, 1, Min(zeros) - 1) \in Seq(Int)
    BY <2>4, SubSeqProperties
  <2> QED
    BY <2>2, <2>5 DEF Message
<1> QED
  BY <1>1, <1>2

\* The server of Lab6 only listens.
LEMMA BackupRecvKeeps ==
    ASSUME Inv, BackupRecvStep, UNCHANGED windowVars
    PROVE  Inv'
<1>1. TypeOK /\ offset <= Len(file) /\ Places /\ Starts /\ "recv" \in Ends /\ "send" \in Ends
  BY DEF Inv, Shape, Ends
<1>2. /\ UNCHANGED <<lab, loss, corrupt, sock, link_up, line, lost, alive, file, offset, rest>>
      /\ UNCHANGED <<window_size, space, i, j, checked, verdict>>
      /\ pc["recv"] \in {"first", "write"} \/ (pc["recv"] = "off" /\ lab = "Lab6")
      /\ recv_message("recv") \/ UNCHANGED inbox
  <2> USE DEF parameters, emulator, fileVars, windowVars
  <2>1. CASE Bind
    BY <2>1 DEF Bind
  <2>2. CASE TakeName
    BY <2>2 DEF TakeName
  <2>3. CASE Write
    BY <2>3 DEF Write
  <2> QED
    BY <2>1, <2>2, <2>3 DEF BackupRecvStep
<1>3. lab = "Lab6"
  BY <1>1, <1>2 DEF Places
<1>4. PICK place \in {"first", "write", "done"} : pc' = [pc EXCEPT !["recv"] = place]
  <2>1. CASE Bind
    BY <2>1 DEF Bind, Goto
  <2>2. CASE TakeName
    BY <2>2 DEF TakeName, Goto
  <2>3. CASE Write
    <3>1. CASE UNCHANGED pc
      <4>1. pc = [pc EXCEPT !["recv"] = "write"]
        BY <1>1, <2>3 DEF Write, TypeOK
      <4> QED
        BY <3>1, <4>1
    <3>2. CASE Goto("recv", "done")
      BY <3>2 DEF Goto
    <3> QED
      BY <2>3, <3>1, <3>2 DEF Write
  <2> QED
    BY <2>1, <2>2, <2>3 DEF BackupRecvStep
<1>5. inbox' \in [Ends -> Seq(Message)]
  BY <1>1, <1>2, Receiving DEF TypeOK
<1>6. written' \in Message
  <2>1. CASE UNCHANGED written
    BY <1>1, <2>1 DEF TypeOK
  <2>2. CASE Write /\ written' = written \o CString(Head(inbox["recv"]))
    <3>1. CString(Head(inbox["recv"])) \in Message
      BY <1>1, <2>2, Receiving, CStringIsMessage DEF Write
    <3> QED
      BY <1>1, <2>2, <3>1, ConcatStays DEF TypeOK, Message
  <2> QED
    BY <2>1, <2>2 DEF BackupRecvStep, Bind, TakeName, Write, fileVars
<1>7. TypeOK'
  BY <1>1, <1>2, <1>4, <1>5, <1>6 DEF TypeOK
<1>8. Places'
  BY <1>1, <1>2, <1>3, <1>4 DEF Places, TypeOK, Ends
<1>9. Starts'
  <2>1. pc'["recv"] # "off" /\ pc'["send"] = pc["send"]
    BY <1>1, <1>4 DEF TypeOK, Ends
  <2> QED
    BY <1>1, <1>2, <1>3, <2>1 DEF Starts, Ends
<1> QED
  BY <1>1, <1>2, <1>3, <1>7, <1>8, <1>9, Unconcerned DEF Inv, Shape

LEMMA CheckAndAckKeeps ==
    ASSUME Inv, CheckAndAck, UNCHANGED fileVars
    PROVE  Inv'
<1>1. TypeOK /\ Places /\ Checked /\ Room /\ "recv" \in Ends /\ "send" \in Ends
  BY DEF Inv, Shape, Ends
<1>2. /\ UNCHANGED <<lab, loss, corrupt, link_up, line, lost, alive>>
      /\ UNCHANGED <<file, offset, rest, written, window_size, space, i>>
      /\ pc["recv"] = "loop" /\ recv_message("recv")
      /\ checked' = Head(inbox["recv"])
      /\ verdict' = (verificare(checked') = checked'[4])
      /\ send_message("recv", <<j>>) /\ j' = j + 1
  BY DEF CheckAndAck, parameters, emulator, fileVars
<1>3. lab = "Lab3"
  BY <1>1, <1>2 DEF Places
<1>4. PICK place \in {"loop", "done"} : pc' = [pc EXCEPT !["recv"] = place]
  BY DEF CheckAndAck, Goto
<1>5. pc'["recv"] # "off" /\ pc'["send"] = pc["send"]
  BY <1>1, <1>4 DEF TypeOK, Ends
<1>6. <<j>> \in Message /\ checked' \in Message /\ verdict' \in BOOLEAN
  <2>1. <<j>> \in Message
    BY <1>1 DEF TypeOK, Message
  <2>2. checked' \in Message
    BY <1>1, <1>2, Receiving
  <2>3. verdict' \in BOOLEAN
    BY <1>2, Zenon
  <2> QED
    BY <2>1, <2>2, <2>3
<1>7. /\ inbox' \in [Ends -> Seq(Message)] /\ sock' \in [Ends -> Seq(Message)]
      /\ offset' <= Len(file') /\ Starts' /\ Said'
      /\ NothingEarly'
      /\ Underway("send")' = Underway("send") /\ Unread' = Unread
      /\ Len(inbox'["recv"]) = Len(inbox["recv"]) - 1
  BY <1>2, <1>3, <1>5, <1>6, Answered
<1>8. TypeOK'
  <2>1. j' \in Nat
    BY <1>1, <1>2 DEF TypeOK
  <2>2. pc' \in [Ends -> {"off", "name", "size", "copy", "blocks", "first", "write",
                          "loop", "drain", "done"}]
    BY <1>1, <1>4 DEF TypeOK
  <2>3. /\ UNCHANGED <<lab, loss, corrupt, link_up, line, lost, alive>>
        /\ UNCHANGED <<file, offset, rest, written, window_size, space, i>>
    BY <1>2
  <2> QED
    BY <1>1, <1>6, <1>7, <2>1, <2>2, <2>3 DEF TypeOK
<1>9. Places'
  BY <1>1, <1>2, <1>3, <1>4 DEF Places, TypeOK, Ends
<1>10. Room'
  BY <1>1, <1>2, <1>7 DEF Room
<1>11. Checked'
  <2>1. Len(inbox["recv"]) \in Int /\ Len(line) \in Int /\ Underway("send") \in Int
    BY <1>1, Lengths DEF Underway
  <2>2. i' = (j + Underway("send") + Len(line) + Len(inbox["recv"]) + lost)'
    <3>1. PICK us \in Int, l \in Int, r \in Int :
            us = Underway("send") /\ l = Len(line) /\ r = Len(inbox["recv"])
      BY <2>1
    <3>2. Underway("send")' = us /\ Len(line)' = l /\ Len(inbox["recv"])' = r - 1
      BY <1>2, <1>7, <3>1
    <3>3. i = j + us + l + r + lost /\ i' = i /\ lost' = lost /\ j' = j + 1
      BY <1>1, <1>2, <1>3, <3>1 DEF Checked
    <3>4. j \in Int /\ lost \in Int
      BY <1>1 DEF TypeOK
    <3>5. j + us + l + r + lost = (j + 1) + us + l + (r - 1) + lost
      BY <3>1, <3>4
    <3> QED
      BY <3>2, <3>3, <3>5, Zenon
  <2> QED
    BY <1>1, <1>2, <1>3, <1>5, <2>2 DEF Checked
<1> QED
  BY <1>2, <1>3, <1>7, <1>8, <1>9, <1>10, <1>11, Unconcerned DEF Inv, Shape

LEMMA RecvKeeps == Inv /\ RecvStep => Inv'
<1> SUFFICES ASSUME Inv, RecvStep
             PROVE  Inv'
  OBVIOUS
<1>1. CASE (FileRecvStep \/ BackupRecvStep) /\ UNCHANGED windowVars
  <2>1. CASE StartRecv
    BY <1>1, <2>1, StartRecvKeeps DEF StartRecv
  <2> QED
    BY <1>1, <2>1, ReceiveKeeps, BackupRecvKeeps DEF FileRecvStep
<1>2. CASE WindowRecvStep /\ UNCHANGED fileVars
  <2>1. CASE StartCheck
    BY <1>2, <2>1, StartRecvKeeps DEF StartCheck
  <2> QED
    BY <1>2, <2>1, CheckAndAckKeeps DEF WindowRecvStep
<1> QED
  BY <1>1, <1>2 DEF RecvStep
-----------------------------------------------------------------------------
(* The steps of the emulator and of the network keep it *)

\* Corruption replaces a unit by another number.
LEMMA CorruptedAre ==
    ASSUME NEW m \in Message, NEW c \in Corrupted(m)
    PROVE  c \in Message /\ (m \in Spoken => c \in Spoken)
<1>1. CASE c = m
  BY <1>1
<1>2. CASE c # m
  <2>1. PICK k \in 1..Len(m) : c \in {[m EXCEPT ![k] = u] : u \in Noise(m[k])}
    <3>1. c \in UNION {{[m EXCEPT ![k] = u] : u \in Noise(m[k])} : k \in 1..Len(m)}
      BY <1>2 DEF Corrupted
    <3> QED
      BY <3>1
  <2>2. PICK u \in Noise(m[k]) : c = [m EXCEPT ![k] = u]
    BY <2>1
  <2>3. m \in Seq(Int) /\ m[k] \in Int
    BY DEF Message
  <2>4. u \in Int
    BY <2>3, LabLinkAssumption DEF Noise
  <2>5. c \in Seq(Int) /\ Len(c) = Len(m)
    BY <2>2, <2>3, <2>4
  <2>6. c # <<>>
    BY <2>1, <2>3, <2>5
  <2> QED
    BY <2>5, <2>6 DEF Message, Spoken
<1> QED
  BY <1>1, <1>2

LEMMA MeetKeeps ==
    ASSUME Inv, NEW e \in Ends, Meet(e), UNCHANGED <<fileVars, windowVars>>
    PROVE  Inv'
<1>1. /\ TypeOK /\ offset <= Len(file) /\ Places /\ Starts /\ Said
      /\ LockStep /\ QuietBefore /\ NothingEarly /\ Checked /\ Room
  BY DEF Inv, Shape
<1>2. /\ UNCHANGED <<lab, loss, corrupt, pc, inbox, line, lost, alive>>
      /\ UNCHANGED <<file, offset, rest, written>>
      /\ UNCHANGED <<window_size, space, i, j, checked, verdict>>
      /\ alive /\ ~link_up[e] /\ sock[e] # <<>>
      /\ sock' = [sock EXCEPT ![e] = Tail(sock[e])]
      /\ link_up' = [link_up EXCEPT ![e] = TRUE]
  BY DEF Meet, parameters, fileVars, windowVars
<1>3. pc[e] # "off" /\ lab # "Lab6"
  BY <1>1, <1>2 DEF Starts, Places
<1>4. sock[e] \in Seq(Message)
  BY <1>1 DEF TypeOK
<1>5. /\ Tail(sock[e]) \in Seq(Message) /\ Len(Tail(sock[e])) = Len(sock[e]) - 1
      /\ Len(sock[e]) \in Nat \ {0}
      /\ \A k \in 1..Len(sock[e]) - 1 : Tail(sock[e])[k] = sock[e][k + 1]
  BY <1>2, <1>4, HeadTailStay
<1>6. /\ sock'[e] = Tail(sock[e]) /\ link_up'[e]
      /\ Len(sock'[e]) = Len(sock[e]) - 1
      /\ \A d \in Ends \ {e} : sock'[d] = sock[d] /\ link_up'[d] = link_up[d]
  BY <1>1, <1>2, <1>5 DEF TypeOK
<1>7. TypeOK'
  <2>1. sock' \in [Ends -> Seq(Message)] /\ link_up' \in [Ends -> BOOLEAN]
    BY <1>1, <1>2, <1>5 DEF TypeOK
  <2> QED
    BY <1>1, <1>2, <2>1 DEF TypeOK
<1>8. Places' /\ offset' <= Len(file')
  BY <1>1, <1>2 DEF Places
<1>9. Starts'
  <2> SUFFICES ASSUME NEW d \in Ends
               PROVE  /\ pc[d] = "off" => sock'[d] = <<>> /\ ~link_up'[d]
                      /\ pc[d] # "off" /\ ~link_up'[d] /\ lab # "Lab6" => Len(sock'[d]) > 0
    BY <1>2 DEF Starts
  <2>1. CASE d = e
    BY <1>3, <1>6, <2>1
  <2>2. CASE d # e
    BY <1>1, <1>6, <2>2 DEF Starts
  <2> QED
    BY <2>1, <2>2
<1>10. Said'
  <2> SUFFICES ASSUME lab = "Lab2", NEW k \in 1..Len(sock'["send"]), k > 1 \/ link_up'["send"]
               PROVE  sock'["send"][k] \in Spoken
    BY <1>1, <1>2 DEF Said
  <2>1. CASE e = "send"
    <3>1. k \in 1..Len(sock[e]) - 1
      BY <1>6, <2>1
    <3>2. k + 1 \in 1..Len(sock[e]) /\ k + 1 > 1
      BY <1>5, <3>1
    <3> QED
      BY <1>1, <1>5, <1>6, <2>1, <3>1, <3>2 DEF Said
  <2>2. CASE e = "recv"
    BY <1>1, <1>6, <2>2 DEF Said, Ends
  <2> QED
    BY <2>1, <2>2 DEF Ends
<1>11. Underway("send")' = Underway("send") /\ Underway("recv")' = Underway("recv")
  <2>1. \A d \in Ends : Underway(d)' = Underway(d)
    <3> SUFFICES ASSUME NEW d \in Ends
                 PROVE  Underway(d)' = Underway(d)
      BY Zenon
    <3>1. CASE d = e
      <4>1. Underway(e) = Len(sock[e]) - 1
        BY <1>2, <1>3 DEF Underway
      <4>2. Underway(e)' = Len(sock'[e])
        BY <1>2, <1>5, <1>6 DEF Underway
      <4> QED
        BY <1>6, <3>1, <4>1, <4>2
    <3>2. CASE d # e
      BY <1>2, <1>6, <3>2 DEF Underway
    <3> QED
      BY <3>1, <3>2
  <2> QED
    BY <2>1 DEF Ends
<1>12. Unread' = Unread
  BY <1>2, <1>11 DEF Unread
<1>13. LockStep' /\ QuietBefore' /\ Room'
  BY <1>1, <1>2, <1>12 DEF LockStep, QuietBefore, Room
<1>14. Checked'
  BY <1>1, <1>2, <1>11 DEF Checked
<1>15. NothingEarly'
  <2>1. CASE e = "send"
    BY <1>6, <2>1 DEF NothingEarly
  <2>2. CASE e = "recv"
    BY <1>1, <1>2, <1>5, <1>6, <2>2 DEF NothingEarly, Ends
  <2> QED
    BY <2>1, <2>2 DEF Ends
<1> QED
  BY <1>7, <1>8, <1>9, <1>10, <1>13, <1>14, <1>15 DEF Inv, Shape

LEMMA ForwardKeeps ==
    ASSUME Inv, Forward, UNCHANGED <<fileVars, windowVars>>
    PROVE  Inv'
<1>1. /\ TypeOK /\ offset <= Len(file) /\ Places /\ Starts /\ Said
      /\ LockStep /\ QuietBefore /\ NothingEarly /\ Checked /\ Room
      /\ "send" \in Ends /\ "recv" \in Ends
  BY DEF Inv, Shape, Ends
<1>2. /\ UNCHANGED <<lab, loss, corrupt, pc, inbox, link_up, alive>>
      /\ UNCHANGED <<file, offset, rest, written>>
      /\ UNCHANGED <<window_size, space, i, j, checked, verdict>>
      /\ alive /\ link_up["send"] /\ sock["send"] # <<>>
      /\ sock' = [sock EXCEPT !["send"] = Tail(sock["send"])]
      /\ \/ lost' = lost + 1 /\ line' = line
         \/ lost' = lost /\ \E m \in Corrupted(Head(sock["send"])) : line' = Append(line, m)
  BY DEF Forward, parameters, fileVars, windowVars
<1>3. pc["send"] # "off" /\ lab # "Lab6" /\ sock["send"] \in Seq(Message)
  BY <1>1, <1>2 DEF Starts, Places, TypeOK
<1>4. /\ Tail(sock["send"]) \in Seq(Message)
      /\ Len(Tail(sock["send"])) = Len(sock["send"]) - 1
      /\ Len(sock["send"]) \in Nat \ {0}
      /\ Head(sock["send"]) \in Message /\ Head(sock["send"]) = sock["send"][1]
      /\ \A k \in 1..Len(sock["send"]) - 1 : Tail(sock["send"])[k] = sock["send"][k + 1]
  BY <1>2, <1>3, HeadTailStay
<1>5. /\ sock' \in [Ends -> Seq(Message)]
      /\ sock'["send"] = Tail(sock["send"]) /\ sock'["recv"] = sock["recv"]
      /\ Len(sock'["send"]) = Len(sock["send"]) - 1
  BY <1>1, <1>2, <1>4 DEF TypeOK, Ends
<1>6. \/ /\ lost' = lost + 1 /\ line' = line
      \/ /\ lost' = lost
         /\ \E m \in Message : /\ line' = Append(line, m)
                               /\ lab = "Lab2" => m \in Spoken
  <2>1. lab = "Lab2" => Head(sock["send"]) \in Spoken
    BY <1>1, <1>2, <1>4 DEF Said
  <2> QED
    BY <1>2, <1>4, <2>1, CorruptedAre
<1>7. /\ line' \in Seq(Message) /\ lost' \in Nat
      /\ lab = "Lab2" => line' \in Seq(Spoken)
      /\ Len(line') + lost' = Len(line) + lost + 1
      /\ Len(line') <= Len(line) + 1 /\ Len(line') \in Nat
  <2>1. line \in Seq(Message) /\ lost \in Nat /\ Len(line) \in Nat
    BY <1>1 DEF TypeOK
  <2>2. CASE lost' = lost + 1 /\ line' = line
    BY <1>1, <2>1, <2>2 DEF Said
  <2>3. ASSUME lost' = lost, NEW m \in Message, line' = Append(line, m),
               lab = "Lab2" => m \in Spoken
        PROVE  /\ line' \in Seq(Message) /\ lost' \in Nat
               /\ lab = "Lab2" => line' \in Seq(Spoken)
               /\ Len(line') + lost' = Len(line) + lost + 1
               /\ Len(line') <= Len(line) + 1 /\ Len(line') \in Nat
    <3>1. line' \in Seq(Message) /\ Len(line') = Len(line) + 1
      BY <2>1, <2>3, AppendStays
    <3>2. lab = "Lab2" => line' \in Seq(Spoken)
      BY <1>1, <2>3, AppendStays DEF Said
    <3> QED
      BY <2>1, <2>3, <3>1, <3>2
  <2> QED
    BY <1>6, <2>2, <2>3
<1>8. TypeOK'
  BY <1>1, <1>2, <1>5, <1>7 DEF TypeOK
<1>9. Places' /\ offset' <= Len(file')
  BY <1>1, <1>2 DEF Places
<1>10. Starts'
  BY <1>1, <1>2, <1>3, <1>5 DEF Starts, Ends
<1>11. Said'
  <2> SUFFICES ASSUME lab = "Lab2", NEW k \in 1..Len(sock'["send"])
               PROVE  sock'["send"][k] \in Spoken
    BY <1>1, <1>2, <1>7 DEF Said
  <2>1. k \in 1..Len(sock["send"]) - 1
    BY <1>5
  <2>2. k + 1 \in 1..Len(sock["send"]) /\ sock'["send"][k] = sock["send"][k + 1]
    BY <1>4, <1>5, <2>1
  <2> QED
    BY <1>1, <1>2, <2>2 DEF Said
<1>12. PICK us \in Int, ur \in Int, l \in Int, r \in Int, n \in Int :
              /\ Underway("send") = us /\ Underway("recv") = ur
              /\ Len(line) = l /\ Len(inbox["recv"]) = r /\ Len(inbox["send"]) = n
  <2>1. /\ Len(line) \in Int /\ Len(inbox["recv"]) \in Int /\ Len(inbox["send"]) \in Int
        /\ Len(sock["send"]) \in Int /\ Len(sock["recv"]) \in Int
    BY <1>1, Lengths
  <2>2. Underway("send") \in Int /\ Underway("recv") \in Int
    BY <2>1 DEF Underway
  <2> QED
    BY <2>1, <2>2
<1>13. Underway("send")' = us - 1 /\ Underway("recv")' = ur
  <2>1. Underway("send") = Len(sock["send"]) /\ Underway("send")' = Len(sock'["send"])
    BY <1>2, <1>4, <1>5 DEF Underway
  <2>2. Underway("recv")' = Underway("recv")
    BY <1>2, <1>5 DEF Underway
  <2> QED
    BY <1>5, <1>12, <2>1, <2>2
<1>14. PICK k \in Int, gone \in Int, gone1 \in Int :
              /\ Len(line)' = k /\ lost = gone /\ lost' = gone1
              /\ k + gone1 = l + gone + 1 /\ k <= l + 1
  <2>1. lost \in Int /\ lost' \in Int
    BY <1>1, <1>7 DEF TypeOK
  <2> QED
    BY <1>7, <1>12, <2>1
<1>15. Unread = us + l + r + ur + n /\ Unread' = (us - 1) + k + r + ur + n
  <2>1. Len(inbox["recv"])' = r /\ Len(inbox["send"])' = n
    BY <1>2, <1>12
  <2> QED
    BY <1>12, <1>13, <1>14, <2>1, UnreadIs, UnreadThen
<1>16. /\ (us - 1) + k + r + ur + n <= us + l + r + ur + n
       /\ ((us - 1) + k + r + ur + n) + gone1 = (us + l + r + ur + n) + gone
       /\ (us - 1) + k + r + ur + n \in Int /\ us + l + r + ur + n \in Int
  BY <1>14
<1>17. Unread' <= Unread /\ Unread \in Int /\ Unread' \in Int
       /\ Unread' + lost' = Unread + lost
  BY <1>14, <1>15, <1>16, Zenon
<1>18. LockStep' /\ QuietBefore'
  BY <1>1, <1>2, <1>3, <1>17 DEF LockStep, QuietBefore
<1>19. NothingEarly' /\ Room'
  BY <1>1, <1>2, <1>17 DEF NothingEarly, Room
<1>20. Checked'
  <2>1. lab = "Lab3" => i = j + us + l + r + gone
    BY <1>1, <1>12, <1>14 DEF Checked
  <2>2. j \in Int
    BY <1>1 DEF TypeOK
  <2>3. lab = "Lab3" => i = j + (us - 1) + k + r + gone1
    BY <1>14, <2>1, <2>2
  <2>4. Len(inbox["recv"])' = r
    BY <1>2, <1>12
  <2>5. lab = "Lab3" => i' = (j + Underway("send") + Len(line) + Len(inbox["recv"]) + lost)'
    BY <1>2, <1>13, <1>14, <2>3, <2>4
  <2> QED
    BY <1>1, <1>2, <2>5 DEF Checked
<1> QED
  BY <1>8, <1>9, <1>10, <1>11, <1>18, <1>19, <1>20 DEF Inv, Shape

LEMMA AbortKeeps ==
    ASSUME Inv, Abort, UNCHANGED <<fileVars, windowVars>>
    PROVE  Inv'
<1>1. UNCHANGED <<lab, loss, corrupt, pc, sock, inbox, link_up, line, lost>>
      /\ UNCHANGED <<file, offset, rest, written>>
      /\ UNCHANGED <<window_size, space, i, j, checked, verdict>>
      /\ alive' = FALSE
  BY DEF Abort, parameters, fileVars, windowVars
<1>2. TypeOK' /\ Places' /\ Starts' /\ Said' /\ offset' <= Len(file')
  BY <1>1 DEF Inv, Shape, TypeOK, Places, Starts, Said
<1>3. Underway("send")' = Underway("send") /\ Unread' = Unread
  BY <1>1 DEF Unread, Underway
<1>4. LockStep' /\ QuietBefore' /\ NothingEarly' /\ Checked' /\ Room'
  BY <1>1, <1>3 DEF Inv, LockStep, QuietBefore, NothingEarly, Checked, Room
<1> QED
  BY <1>2, <1>4 DEF Inv, Shape

\* In Lab6 nothing is counted.
LEMMA CarryKeeps ==
    ASSUME Inv, Carry, UNCHANGED <<fileVars, windowVars>>
    PROVE  Inv'
<1>1. /\ TypeOK /\ offset <= Len(file) /\ Places /\ Starts
      /\ "send" \in Ends /\ "recv" \in Ends
  BY DEF Inv, Shape, Ends
<1>2. /\ UNCHANGED <<lab, loss, corrupt, pc, link_up, line, alive>>
      /\ UNCHANGED <<file, offset, rest, written>>
      /\ UNCHANGED <<window_size, space, i, j, checked, verdict>>
      /\ lab = "Lab6" /\ sock["send"] # <<>>
      /\ sock' = [sock EXCEPT !["send"] = Tail(sock["send"])]
      /\ \/ lost' = lost + 1 /\ inbox' = inbox
         \/ /\ lost' = lost
            /\ inbox' = [inbox EXCEPT !["recv"] = Append(inbox["recv"], Head(sock["send"]))]
  BY DEF Carry, parameters, fileVars, windowVars
<1>3. /\ Tail(sock["send"]) \in Seq(Message) /\ Head(sock["send"]) \in Message
  BY <1>1, <1>2, HeadTailStay DEF TypeOK
<1>4. Append(inbox["recv"], Head(sock["send"])) \in Seq(Message)
  BY <1>1, <1>3, AppendStays DEF TypeOK
<1>5. /\ sock' \in [Ends -> Seq(Message)] /\ inbox' \in [Ends -> Seq(Message)]
      /\ lost' \in Nat
  <2>1. sock' \in [Ends -> Seq(Message)]
    BY <1>1, <1>2, <1>3 DEF TypeOK
  <2>2. lost' \in Nat
    BY <1>1, <1>2 DEF TypeOK
  <2>3. CASE inbox' = inbox
    BY <1>1, <2>1, <2>2, <2>3 DEF TypeOK
  <2>4. CASE inbox' = [inbox EXCEPT !["recv"] = Append(inbox["recv"], Head(sock["send"]))]
    BY <1>1, <1>4, <2>1, <2>2, <2>4 DEF TypeOK
  <2> QED
    BY <1>2, <2>3, <2>4
<1>6. TypeOK'
  BY <1>1, <1>2, <1>5 DEF TypeOK
<1>7. Places' /\ offset' <= Len(file')
  BY <1>1, <1>2 DEF Places
<1>8. Starts'
  <2>1. pc["send"] # "off" /\ sock'["recv"] = sock["recv"]
    BY <1>1, <1>2 DEF Starts, TypeOK, Ends
  <2> QED
    BY <1>1, <1>2, <2>1 DEF Starts, Ends
<1> QED
  BY <1>2, <1>6, <1>7, <1>8, Unconcerned DEF Inv, Shape

LEMMA DeliverKeeps ==
    ASSUME Inv, Deliver, UNCHANGED <<fileVars, windowVars>>
    PROVE  Inv'
<1>1. /\ TypeOK /\ offset <= Len(file) /\ Places /\ Starts /\ Said
      /\ LockStep /\ QuietBefore /\ NothingEarly /\ Checked /\ Room
      /\ "send" \in Ends /\ "recv" \in Ends
  BY DEF Inv, Shape, Ends
<1>2. /\ UNCHANGED <<lab, loss, corrupt, pc, sock, link_up, alive>>
      /\ UNCHANGED <<file, offset, rest, written>>
      /\ UNCHANGED <<window_size, space, i, j, checked, verdict>>
      /\ line # <<>> /\ line' = Tail(line)
      /\ \/ /\ inbox' = [inbox EXCEPT !["recv"] = Append(inbox["recv"], Head(line))]
            /\ lost' = lost
         \/ /\ lost' = lost + 1
            /\ inbox' = inbox
  BY DEF Deliver, parameters, fileVars, windowVars
<1>3. /\ line \in Seq(Message) /\ inbox["recv"] \in Seq(Message) /\ inbox["send"] \in Seq(Message)
      /\ lost \in Nat
  BY <1>1 DEF TypeOK
<1>4. /\ Tail(line) \in Seq(Message) /\ Len(Tail(line)) = Len(line) - 1
      /\ Len(line) \in Nat \ {0} /\ Head(line) \in Message
  BY <1>2, <1>3, HeadTailStay
<1>5. lab = "Lab2" => Head(line) \in Spoken /\ Tail(line) \in Seq(Spoken)
  BY <1>1, <1>2, HeadTailStay DEF Said
<1>6. /\ inbox' \in [Ends -> Seq(Message)] /\ lost' \in Nat
      /\ inbox'["send"] = inbox["send"]
      /\ lab = "Lab2" => inbox'["recv"] \in Seq(Spoken)
      /\ Len(inbox'["recv"]) + lost' = Len(inbox["recv"]) + lost + 1
      /\ Len(inbox'["recv"]) <= Len(inbox["recv"]) + 1
  <2>1. CASE inbox' = inbox /\ lost' = lost + 1
    <3>1. Len(inbox["recv"]) \in Nat
      BY <1>3
    <3> QED
      BY <1>1, <1>3, <2>1, <3>1 DEF TypeOK, Said
  <2>2. CASE /\ inbox' = [inbox EXCEPT !["recv"] = Append(inbox["recv"], Head(line))]
             /\ lost' = lost
    <3> DEFINE grown == Append(inbox["recv"], Head(line))
    <3>1. grown \in Seq(Message) /\ Len(grown) = Len(inbox["recv"]) + 1
      BY <1>3, <1>4, AppendStays
    <3>2. lab = "Lab2" => grown \in Seq(Spoken)
      BY <1>1, <1>5, AppendStays DEF Said
    <3> HIDE DEF grown
    <3>3. inbox' = [inbox EXCEPT !["recv"] = grown]
      BY <2>2 DEF grown
    <3>4. /\ inbox' \in [Ends -> Seq(Message)]
          /\ inbox'["recv"] = grown /\ inbox'["send"] = inbox["send"]
      BY <1>1, <3>1, <3>3 DEF TypeOK, Ends
    <3>5. Len(inbox["recv"]) \in Nat
      BY <1>3
    <3>6. (Len(inbox["recv"]) + 1) + lost = Len(inbox["recv"]) + lost + 1
      BY <1>3, <3>5
    <3>7. Len(inbox'["recv"]) + lost' = Len(inbox["recv"]) + lost + 1
      BY <2>2, <3>1, <3>4, <3>6
    <3>8. Len(inbox'["recv"]) <= Len(inbox["recv"]) + 1
      BY <3>1, <3>4, <3>5
    <3> QED
      BY <1>3, <2>2, <3>2, <3>4, <3>7, <3>8
  <2> QED
    BY <1>2, <2>1, <2>2
<1>7. TypeOK'
  BY <1>1, <1>2, <1>4, <1>6 DEF TypeOK
<1>8. Places' /\ offset' <= Len(file') /\ Starts'
  BY <1>1, <1>2 DEF Places, Starts
<1>9. Said'
  BY <1>1, <1>2, <1>5, <1>6 DEF Said
<1>10. PICK us \in Int, ur \in Int, l \in Int, r \in Int, n \in Int :
              /\ Underway("send") = us /\ Underway("recv") = ur
              /\ Len(line) = l /\ Len(inbox["recv"]) = r /\ Len(inbox["send"]) = n
  <2>1. /\ Len(line) \in Int /\ Len(inbox["recv"]) \in Int /\ Len(inbox["send"]) \in Int
        /\ Len(sock["send"]) \in Int /\ Len(sock["recv"]) \in Int
    BY <1>1, Lengths
  <2>2. Underway("send") \in Int /\ Underway("recv") \in Int
    BY <2>1 DEF Underway
  <2> QED
    BY <2>1, <2>2
<1>11. PICK k \in Int, gone \in Int, gone1 \in Int :
              /\ Len(inbox["recv"])' = k /\ lost = gone /\ lost' = gone1
              /\ k + gone1 = r + gone + 1 /\ k <= r + 1
  <2>1. inbox'["recv"] \in Seq(Message)
    BY <1>1, <1>6
  <2>2. lost \in Int /\ lost' \in Int /\ Len(inbox'["recv"]) \in Int
    BY <1>3, <1>6, <2>1
  <2> QED
    BY <1>6, <1>10, <2>2
<1>12. Underway("send")' = us /\ Underway("recv")' = ur
  BY <1>2, <1>10 DEF Underway
<1>13. Len(line)' = l - 1 /\ Len(inbox["send"])' = n
  BY <1>2, <1>4, <1>6, <1>10
<1>14. Unread = us + l + r + ur + n /\ Unread' = us + (l - 1) + k + ur + n
  BY <1>10, <1>11, <1>12, <1>13, UnreadIs, UnreadThen
<1>15. /\ us + (l - 1) + k + ur + n <= us + l + r + ur + n
       /\ (us + (l - 1) + k + ur + n) + gone1 = (us + l + r + ur + n) + gone
       /\ us + (l - 1) + k + ur + n \in Int /\ us + l + r + ur + n \in Int
  BY <1>11
<1>16. Unread' <= Unread /\ Unread \in Int /\ Unread' \in Int
       /\ Unread' + lost' = Unread + lost
  BY <1>11, <1>14, <1>15, Zenon
\* Before send.c is started there is nothing in the line.
<1>17. lab = "Lab2" => pc["send"] # "off"
  <2> SUFFICES ASSUME lab = "Lab2", pc["send"] = "off"
               PROVE  FALSE
    OBVIOUS
  <2>1. us \in Nat /\ ur \in Nat
    BY <1>1, <1>10, NotNegative
  <2>2. r \in Nat /\ n \in Nat /\ l > 0
    BY <1>3, <1>4, <1>10
  <2>3. us + l + r + ur + n = 0
    BY <1>1, <1>14 DEF QuietBefore
  <2> QED
    BY <2>1, <2>2, <2>3
<1>18. LockStep' /\ QuietBefore'
  BY <1>1, <1>2, <1>16, <1>17 DEF LockStep, QuietBefore
<1>19. NothingEarly' /\ Room'
  BY <1>1, <1>2, <1>16 DEF NothingEarly, Room
<1>20. Checked'
  <2>1. lab = "Lab3" => i = j + us + l + r + gone
    BY <1>1, <1>10, <1>11 DEF Checked
  <2>2. j \in Int
    BY <1>1 DEF TypeOK
  <2>3. lab = "Lab3" => i = j + us + (l - 1) + k + gone1
    BY <1>11, <2>1, <2>2
  <2>4. lab = "Lab3" => i' = (j + Underway("send") + Len(line) + Len(inbox["recv"]) + lost)'
    BY <1>2, <1>11, <1>12, <1>13, <2>3
  <2> QED
    BY <1>1, <1>2, <2>4 DEF Checked
<1> QED
  BY <1>7, <1>8, <1>9, <1>18, <1>19, <1>20 DEF Inv, Shape

LEMMA BringBackKeeps ==
    ASSUME Inv, BringBack, UNCHANGED <<fileVars, windowVars>>
    PROVE  Inv'
<1>1. /\ TypeOK /\ offset <= Len(file) /\ Places /\ Starts /\ Said
      /\ LockStep /\ QuietBefore /\ NothingEarly /\ Checked /\ Room
      /\ "send" \in Ends /\ "recv" \in Ends
  BY DEF Inv, Shape, Ends
<1>2. /\ UNCHANGED <<lab, loss, corrupt, pc, link_up, line, lost, alive>>
      /\ UNCHANGED <<file, offset, rest, written>>
      /\ UNCHANGED <<window_size, space, i, j, checked, verdict>>
      /\ alive /\ link_up["recv"] /\ sock["recv"] # <<>>
      /\ sock' = [sock EXCEPT !["recv"] = Tail(sock["recv"])]
      /\ inbox' = [inbox EXCEPT !["send"] =
                     IF link_up["send"] THEN Append(inbox["send"], Head(sock["recv"]))
                     ELSE inbox["send"]]
  BY DEF BringBack, parameters, emulator, fileVars, windowVars
<1>3. sock["recv"] \in Seq(Message) /\ inbox["send"] \in Seq(Message)
  BY <1>1 DEF TypeOK
<1>4. /\ Tail(sock["recv"]) \in Seq(Message) /\ Len(Tail(sock["recv"])) = Len(sock["recv"]) - 1
      /\ Len(sock["recv"]) \in Nat \ {0} /\ Head(sock["recv"]) \in Message
  BY <1>2, <1>3, HeadTailStay
<1>5. /\ sock' \in [Ends -> Seq(Message)] /\ sock'["send"] = sock["send"]
      /\ Len(sock'["recv"]) = Len(sock["recv"]) - 1
  BY <1>1, <1>2, <1>4 DEF TypeOK, Ends
<1> DEFINE grown == IF link_up["send"] THEN Append(inbox["send"], Head(sock["recv"]))
                    ELSE inbox["send"]
<1>6. /\ grown \in Seq(Message)
      /\ Len(grown) = Len(inbox["send"]) + (IF link_up["send"] THEN 1 ELSE 0)
  <2>1. Len(inbox["send"]) \in Nat
    BY <1>3
  <2>2. CASE link_up["send"]
    BY <1>3, <1>4, <2>2, AppendStays
  <2>3. CASE ~link_up["send"]
    BY <1>3, <2>1, <2>3
  <2> QED
    BY <2>2, <2>3
<1> HIDE DEF grown
<1>7. inbox' = [inbox EXCEPT !["send"] = grown]
  BY <1>2 DEF grown
<1>8. /\ inbox' \in [Ends -> Seq(Message)] /\ inbox'["recv"] = inbox["recv"]
      /\ Len(inbox'["send"]) = Len(inbox["send"]) + (IF link_up["send"] THEN 1 ELSE 0)
  BY <1>1, <1>6, <1>7 DEF TypeOK, Ends
<1>9. TypeOK'
  BY <1>1, <1>2, <1>5, <1>8 DEF TypeOK
<1>10. Places' /\ offset' <= Len(file')
  BY <1>1, <1>2 DEF Places
<1>11. Starts'
  <2>1. pc["recv"] # "off" /\ lab # "Lab6"
    BY <1>1, <1>2 DEF Starts, Places
  <2> QED
    BY <1>1, <1>2, <1>5, <2>1 DEF Starts, Ends
<1>12. Said'
  BY <1>1, <1>2, <1>5, <1>8 DEF Said
<1>13. PICK us \in Int, ur \in Int, l \in Int, r \in Int, n \in Int :
              /\ Underway("send") = us /\ Underway("recv") = ur
              /\ Len(line) = l /\ Len(inbox["recv"]) = r /\ Len(inbox["send"]) = n
  <2>1. /\ Len(line) \in Int /\ Len(inbox["recv"]) \in Int /\ Len(inbox["send"]) \in Int
        /\ Len(sock["send"]) \in Int /\ Len(sock["recv"]) \in Int
    BY <1>1, Lengths
  <2>2. Underway("send") \in Int /\ Underway("recv") \in Int
    BY <2>1 DEF Underway
  <2> QED
    BY <2>1, <2>2
<1>14. Underway("send")' = us /\ Underway("recv")' = ur - 1
  <2>1. Underway("send")' = us
    BY <1>2, <1>5, <1>13 DEF Underway
  <2>2. Underway("recv") = Len(sock["recv"]) /\ Underway("recv")' = Len(sock'["recv"])
    BY <1>2, <1>4, <1>5 DEF Underway
  <2> QED
    BY <1>5, <1>13, <2>1, <2>2
<1>15. PICK k \in Int : /\ Len(inbox["send"])' = k /\ k <= n + 1
                        /\ link_up["send"] => k = n + 1
  <2>1. CASE link_up["send"]
    BY <1>8, <1>13, <2>1
  <2>2. CASE ~link_up["send"]
    BY <1>8, <1>13, <2>2
  <2> QED
    BY <2>1, <2>2
<1>16. Len(line)' = l /\ Len(inbox["recv"])' = r
  BY <1>2, <1>8, <1>13
<1>17. Unread = us + l + r + ur + n /\ Unread' = us + l + r + (ur - 1) + k
  BY <1>13, <1>14, <1>15, <1>16, UnreadIs, UnreadThen
<1>18. /\ us + l + r + (ur - 1) + k <= us + l + r + ur + n
       /\ k = n + 1 => us + l + r + (ur - 1) + k = us + l + r + ur + n
       /\ us + l + r + (ur - 1) + k \in Int /\ us + l + r + ur + n \in Int
  BY <1>15
<1>19. /\ Unread' <= Unread /\ Unread \in Int /\ Unread' \in Int
       /\ link_up["send"] => Unread' = Unread
  BY <1>15, <1>17, <1>18, Zenon
\* A reply is to a message, and the emulator knows who sent that.
<1>20. lab = "Lab3" => link_up["send"]
  BY <1>1, <1>2, <1>4 DEF NothingEarly
<1>21. lab = "Lab2" => pc["send"] # "off"
  <2> SUFFICES ASSUME lab = "Lab2", pc["send"] = "off"
               PROVE  FALSE
    OBVIOUS
  <2>1. us \in Nat
    BY <1>1, <1>13, NotNegative
  <2>2. ur > 0
    <3>1. Underway("recv") = Len(sock["recv"])
      BY <1>2 DEF Underway
    <3> QED
      BY <1>4, <1>13, <3>1
  <2>3. l \in Nat /\ r \in Nat /\ n \in Nat
    BY <1>1, <1>13, Lengths
  <2>4. us + l + r + ur + n = 0
    BY <1>1, <1>17 DEF QuietBefore
  <2> QED
    BY <2>1, <2>2, <2>3, <2>4
<1>22. LockStep' /\ QuietBefore'
  BY <1>1, <1>2, <1>19, <1>21 DEF LockStep, QuietBefore
<1>23. NothingEarly' /\ Room'
  BY <1>1, <1>2, <1>19, <1>20 DEF NothingEarly, Room
<1>24. Checked'
  BY <1>1, <1>2, <1>13, <1>14, <1>16 DEF Checked
<1> QED
  BY <1>9, <1>10, <1>11, <1>12, <1>22, <1>23, <1>24 DEF Inv, Shape
-----------------------------------------------------------------------------
(* The theorems *)

LEMMA NextInv == Inv /\ [Next]_vars => Inv'
<1> SUFFICES ASSUME Inv, [Next]_vars
             PROVE  Inv'
  OBVIOUS
<1>1. CASE Link
  <2>1. UNCHANGED <<fileVars, windowVars>>
    BY <1>1 DEF Link
  <2> QED
    BY <1>1, <2>1, MeetKeeps, ForwardKeeps, DeliverKeeps, BringBackKeeps, CarryKeeps
       DEF Link, LinkStep
<1>2. CASE Breaks
  BY <1>2, AbortKeeps DEF Breaks
<1>3. CASE SendStep
  BY <1>3, SendKeeps
<1>4. CASE RecvStep
  BY <1>4, RecvKeeps
<1>5. CASE UNCHANGED vars
  <2>1. /\ UNCHANGED <<lab, loss, corrupt, pc, sock, inbox, link_up, line, lost, alive>>
        /\ UNCHANGED <<file, offset, rest, written>>
        /\ UNCHANGED <<window_size, space, i, j, checked, verdict>>
    BY <1>5 DEF vars, linkVars, parameters, emulator, fileVars, windowVars
  <2>2. TypeOK' /\ Places' /\ Starts' /\ Said' /\ offset' <= Len(file')
    BY <2>1 DEF Inv, Shape, TypeOK, Places, Starts, Said
  <2>3. Underway("send")' = Underway("send") /\ Unread' = Unread
    BY <2>1 DEF Unread, Underway
  <2>4. LockStep' /\ QuietBefore' /\ NothingEarly' /\ Checked' /\ Room'
    BY <2>1, <2>3 DEF Inv, LockStep, QuietBefore, NothingEarly, Checked, Room
  <2> QED
    BY <2>2, <2>4 DEF Inv, Shape
<1> QED
  BY <1>1, <1>2, <1>3, <1>4, <1>5 DEF Next

\* The invariant above holds in every behaviour of the programs.
THEOREM LabInvariance == Spec => []Inv
<1> QED
  BY InitInv, NextInv, PTL DEF Spec

\* The variables of the programs, the emulator and the network keep their types:
\* recv.c of Lab2 always has a size in the message it takes for one.
THEOREM LabTypeCorrect == Spec => []TypeOK
<1>1. Inv => TypeOK
  BY DEF Inv, Shape
<1> QED
  BY <1>1, LabInvariance, PTL

\* Stop and wait, for any file and any size of blocks: of the messages of send.c
\* and the replies to them at most one is anywhere.
THEOREM KeepsLockStep == Spec => []LockStep
<1>1. Inv => LockStep
  BY DEF Inv
<1> QED
  BY <1>1, LabInvariance, PTL

\* For any window and any number of messages the room taken in the window is
\* exactly what is on the way, not acknowledged or lost, so that it never
\* overflows, and send.c ends only when recv.c has checked every message.
THEOREM KeepsAccount == Spec => []Accounted
<1>1. Inv => Accounted
  <2> SUFFICES ASSUME Inv, lab = "Lab3"
               PROVE  /\ window_size - space = Unread + lost
                      /\ space \in 0..window_size
                      /\ pc["send"] = "done" => j = count /\ lost = 0
    BY Zenon DEF Accounted
  <2>1. TypeOK /\ Starts /\ Checked /\ Room /\ "send" \in Ends /\ "recv" \in Ends
    BY DEF Inv, Shape, Ends
  <2>2. PICK us \in Nat, ur \in Nat, l \in Nat, r \in Nat, n \in Nat :
               /\ Underway("send") = us /\ Underway("recv") = ur
               /\ Len(line) = l /\ Len(inbox["recv"]) = r /\ Len(inbox["send"]) = n
    <3>1. /\ Len(line) \in Nat /\ Len(inbox["recv"]) \in Nat /\ Len(inbox["send"]) \in Nat
          /\ Underway("send") \in Nat /\ Underway("recv") \in Nat
      BY <2>1, Lengths, NotNegative
    <3> QED
      BY <3>1
  <2>3. Unread = us + l + r + ur + n
    BY <2>2, UnreadIs
  <2>4. window_size - space = Unread + lost
    BY <2>1 DEF Room
  <2>5. space \in Nat /\ window_size \in Nat /\ lost \in Nat /\ j \in Nat
    BY <2>1 DEF TypeOK
  <2>6. us + l + r + ur + n + lost >= 0 /\ window_size - space = us + l + r + ur + n + lost
    BY <2>2, <2>3, <2>4, <2>5
  <2>7. space \in 0..window_size
    BY <2>5, <2>6
  <2>8. ASSUME pc["send"] = "done"
        PROVE  j = count /\ lost = 0
    <3>1. space = window_size /\ i = count /\ i = j + us + l + r + lost
      BY <2>1, <2>2, <2>8 DEF Checked
    <3>2. us + l + r + ur + n + lost = 0
      BY <2>5, <2>6, <3>1
    <3>3. us = 0 /\ l = 0 /\ r = 0 /\ lost = 0
      BY <2>2, <2>5, <3>2
    <3> QED
      BY <2>5, <3>1, <3>3
  <2> QED
    BY <2>4, <2>7, <2>8
<1> QED
  BY <1>1, LabInvariance, PTL
-----------------------------------------------------------------------------
(* What is on the way stays what it is *)

LEMMA WaySent ==
    ASSUME TypeOK, NEW S, NEW T, OnTheWay(S, T), NEW m \in S, UNCHANGED <<line, link_up>>,
           inbox'["recv"] = inbox["recv"],
           Len(sock'["send"]) = Len(sock["send"]) + 1,
           \A k \in 1..Len(sock["send"]) : sock'["send"][k] = sock["send"][k],
           sock'["send"][Len(sock["send"]) + 1] = m
    PROVE  OnTheWay(S, T)'
<1>1. line' \in Seq(T) /\ inbox'["recv"] \in Seq(T)
  BY DEF OnTheWay
<1>2. ASSUME NEW k \in 1..Len(sock'["send"]), k > 1 \/ link_up["send"]
      PROVE  sock'["send"][k] \in S
  <2>1. Len(sock["send"]) \in Nat
    BY Lengths DEF Ends
  <2>2. CASE k = Len(sock["send"]) + 1
    BY <2>2
  <2>3. CASE k \in 1..Len(sock["send"])
    BY <1>2, <2>3 DEF OnTheWay
  <2> QED
    BY <2>1, <2>2, <2>3
<1> QED
  BY <1>1, <1>2 DEF OnTheWay

LEMMA WayRead ==
    ASSUME TypeOK, NEW S, NEW T, OnTheWay(S, T), UNCHANGED <<line, link_up>>,
           recv_message("recv"), sock'["send"] = sock["send"]
    PROVE  OnTheWay(S, T)' /\ Head(inbox["recv"]) \in T
<1>1. /\ inbox["recv"] \in Seq(T) /\ inbox["recv"] # <<>>
      /\ inbox'["recv"] = Tail(inbox["recv"])
  BY Receiving DEF OnTheWay, recv_message, Ends
<1>2. Tail(inbox["recv"]) \in Seq(T) /\ Head(inbox["recv"]) \in T
  BY <1>1, HeadTailStay
<1> QED
  BY <1>1, <1>2 DEF OnTheWay

LEMMA WayMet ==
    ASSUME TypeOK, NEW S, NEW T, OnTheWay(S, T), NEW e \in Ends, Meet(e)
    PROVE  OnTheWay(S, T)'
<1>1. /\ sock[e] # <<>> /\ sock' = [sock EXCEPT ![e] = Tail(sock[e])]
      /\ link_up' = [link_up EXCEPT ![e] = TRUE] /\ UNCHANGED <<inbox, line>>
      /\ sock \in [Ends -> Seq(Message)] /\ link_up \in [Ends -> BOOLEAN]
  BY DEF Meet, TypeOK
<1>2. /\ Len(sock[e]) \in Nat \ {0} /\ Len(Tail(sock[e])) = Len(sock[e]) - 1
      /\ \A k \in 1..Len(sock[e]) - 1 : Tail(sock[e])[k] = sock[e][k + 1]
  BY <1>1, HeadTailStay
<1>3. ASSUME NEW k \in 1..Len(sock'["send"]), k > 1 \/ link_up'["send"]
      PROVE  sock'["send"][k] \in S
  <2>1. CASE e = "send"
    <3>1. k \in 1..Len(sock[e]) - 1 /\ sock'["send"] = Tail(sock[e])
      BY <1>1, <1>2, <2>1
    <3>2. k + 1 \in 1..Len(sock[e]) /\ k + 1 > 1
      BY <1>2, <3>1
    <3> QED
      BY <1>2, <2>1, <3>1, <3>2 DEF OnTheWay
  <2>2. CASE e = "recv"
    <3>1. sock'["send"] = sock["send"] /\ link_up'["send"] = link_up["send"]
      BY <1>1, <2>2 DEF Ends
    <3> QED
      BY <1>3, <3>1 DEF OnTheWay
  <2> QED
    BY <2>1, <2>2 DEF Ends
<1> QED
  BY <1>1, <1>3 DEF OnTheWay

LEMMA WayForward ==
    ASSUME TypeOK, NEW S, NEW T, OnTheWay(S, T), \A m \in S : Corrupted(m) \subseteq T, Forward
    PROVE  OnTheWay(S, T)'
<1>1. /\ UNCHANGED <<inbox, link_up>> /\ link_up["send"]
      /\ sock["send"] # <<>> /\ sock["send"] \in Seq(Message)
      /\ sock' = [sock EXCEPT !["send"] = Tail(sock["send"])]
      /\ \/ line' = line
         \/ \E m \in Corrupted(Head(sock["send"])) : line' = Append(line, m)
  BY DEF Forward, TypeOK, Ends
<1>2. /\ Len(sock["send"]) \in Nat \ {0} /\ Head(sock["send"]) = sock["send"][1]
      /\ Len(Tail(sock["send"])) = Len(sock["send"]) - 1
      /\ \A k \in 1..Len(sock["send"]) - 1 : Tail(sock["send"])[k] = sock["send"][k + 1]
  BY <1>1, HeadTailStay
<1>3. sock'["send"] = Tail(sock["send"])
  BY <1>1 DEF TypeOK, Ends
<1>4. \A k \in 1..Len(sock["send"]) : sock["send"][k] \in S
  BY <1>1 DEF OnTheWay
<1>5. ASSUME NEW k \in 1..Len(sock'["send"])
      PROVE  sock'["send"][k] \in S
  <2>1. k + 1 \in 1..Len(sock["send"]) /\ k \in 1..Len(sock["send"]) - 1
    BY <1>2, <1>3
  <2> QED
    BY <1>2, <1>3, <1>4, <2>1
<1>6. Corrupted(Head(sock["send"])) \subseteq T
  <2>1. 1 \in 1..Len(sock["send"])
    BY <1>2
  <2> QED
    BY <1>2, <1>4, <2>1
<1>7. line' \in Seq(T)
  BY <1>1, <1>6, AppendStays DEF OnTheWay
<1> QED
  BY <1>1, <1>5, <1>7 DEF OnTheWay

LEMMA WayDeliver ==
    ASSUME TypeOK, NEW S, NEW T, OnTheWay(S, T), Deliver
    PROVE  OnTheWay(S, T)'
<1>1. /\ UNCHANGED <<sock, link_up>> /\ line # <<>> /\ line' = Tail(line)
      /\ \/ inbox' = inbox
         \/ inbox' = [inbox EXCEPT !["recv"] = Append(inbox["recv"], Head(line))]
      /\ inbox \in [Ends -> Seq(Message)]
  BY DEF Deliver, TypeOK
<1>2. Head(line) \in T /\ Tail(line) \in Seq(T)
  BY <1>1, HeadTailStay DEF OnTheWay
<1>3. inbox'["recv"] \in Seq(T)
  <2>1. CASE inbox' = inbox
    BY <2>1 DEF OnTheWay
  <2>2. CASE inbox' = [inbox EXCEPT !["recv"] = Append(inbox["recv"], Head(line))]
    <3>1. inbox'["recv"] = Append(inbox["recv"], Head(line))
      BY <1>1, <2>2 DEF Ends
    <3> QED
      BY <1>2, <3>1, AppendStays DEF OnTheWay
  <2> QED
    BY <1>1, <2>1, <2>2
<1> QED
  BY <1>1, <1>2, <1>3 DEF OnTheWay

LEMMA WayLink ==
    ASSUME TypeOK, NEW S, NEW T, OnTheWay(S, T), \A m \in S : Corrupted(m) \subseteq T,
           LinkStep \/ Abort
    PROVE  OnTheWay(S, T)'
<1>1. CASE BringBack
  <2>1. /\ UNCHANGED <<line, link_up>>
        /\ sock' = [sock EXCEPT !["recv"] = Tail(sock["recv"])]
        /\ \E r : inbox' = [inbox EXCEPT !["send"] = r]
    BY <1>1 DEF BringBack, emulator
  <2>2. sock'["send"] = sock["send"] /\ inbox'["recv"] = inbox["recv"]
    BY <2>1 DEF TypeOK, Ends
  <2> QED
    BY <2>1, <2>2 DEF OnTheWay
<1>2. CASE Abort
  BY <1>2 DEF Abort, OnTheWay
<1> QED
  BY <1>1, <1>2, WayMet, WayForward, WayDeliver DEF LinkStep
-----------------------------------------------------------------------------
(* Lab3: recv.c takes for good what was sent, and nothing else *)

LEMMA SealedIs == Sealed = <<1, 0, 0, 1>>
<1>1. verificare(Hello_world) = 1
  BY DEF Hello_world, verificare
<1>2. Append(<<1, 0, 0>>, 1) = <<1, 0, 0, 1>>
  <2> DEFINE a == <<1, 0, 0>>
             b == <<1, 0, 0, 1>>
  <2>1. a \in Seq(Int) /\ Len(a) = 3 /\ a[1] = 1 /\ a[2] = 0 /\ a[3] = 0
    OBVIOUS
  <2>2. b \in Seq(Int) /\ Len(b) = 4 /\ b[1] = 1 /\ b[2] = 0 /\ b[3] = 0 /\ b[4] = 1
    OBVIOUS
  <2> HIDE DEF a, b
  <2>3. /\ Append(a, 1) \in Seq(Int) /\ Len(Append(a, 1)) = Len(a) + 1
        /\ Append(a, 1)[Len(a) + 1] = 1 /\ \A k \in 1..Len(a) : Append(a, 1)[k] = a[k]
    <3>1. 1 \in Int
      OBVIOUS
    <3>2. a \in Seq(Int)
      BY <2>1
    <3> QED
      BY <3>1, <3>2
  <2>4. Len(Append(a, 1)) = Len(b) /\ \A k \in 1..Len(Append(a, 1)) : Append(a, 1)[k] = b[k]
    <3>1. Append(a, 1)[1] = 1 /\ Append(a, 1)[2] = 0 /\ Append(a, 1)[3] = 0 /\ Append(a, 1)[4] = 1
      BY <2>1, <2>3
    <3>2. Len(Append(a, 1)) = 4
      BY <2>1, <2>3
    <3> QED
      BY <2>2, <3>1, <3>2
  <2>5. Append(a, 1) = b
    BY <2>2, <2>3, <2>4, SeqEqual, Zenon
  <2> QED
    BY <2>5 DEF a, b
<1> QED
  BY <1>1, <1>2 DEF Sealed, Hello_world

LEMMA GreetingBegins ==
    ASSUME NEW g \in Greetings
    PROVE  /\ g \in Message /\ Len(g) \in Nat /\ Len(g) >= 4
           /\ g[1] = 1 /\ g[2] = 0 /\ g[3] = 0 /\ g[4] = 1
<1>1. PICK tail \in Tails : g = Sealed \o tail
  BY DEF Greetings
<1>2. tail \in Seq(Int)
  BY WindowAssumption
<1>3. Sealed = <<1, 0, 0, 1>>
  BY SealedIs
<1> DEFINE s == <<1, 0, 0, 1>>
<1>4. /\ s \in Seq(Int) /\ Len(s) = 4
      /\ s[1] = 1 /\ s[2] = 0 /\ s[3] = 0 /\ s[4] = 1
  OBVIOUS
<1> HIDE DEF s
<1>5. /\ Len(s \o tail) = Len(s) + Len(tail) /\ Len(tail) \in Nat
      /\ \A k \in 1..Len(s) : (s \o tail)[k] = s[k]
  BY <1>2, <1>4, ConcatStays, LenProperties
<1>6. g = s \o tail
  BY <1>1, <1>3 DEF s
<1> QED
  BY <1>4, <1>5, <1>6, GreetingsAreMessages

LEMMA CorruptedIsReceived ==
    ASSUME lab = "Lab3", NEW g \in Greetings
    PROVE  Corrupted(g) \subseteq Received
<1> SUFFICES ASSUME NEW c \in Corrupted(g)
             PROVE  c \in Received
  OBVIOUS
<1>1. g \in Message /\ Len(g) \in Nat
  BY GreetingBegins
<1>2. c \in Message
  BY <1>1, CorruptedAre
<1>3. CASE c = g
  <2>1. \A n \in 1..Len(g) : c[n] = IF n = 0 THEN 1 - g[n] ELSE g[n]
    BY <1>1, <1>3
  <2> QED
    BY <1>2, <1>3, <2>1 DEF Received
<1>4. CASE c # g
  <2>1. PICK k \in 1..Len(g) : c \in {[g EXCEPT ![k] = u] : u \in Noise(g[k])}
    <3>1. c \in UNION {{[g EXCEPT ![k] = u] : u \in Noise(g[k])} : k \in 1..Len(g)}
      BY <1>4 DEF Corrupted
    <3> QED
      BY <3>1
  <2>2. c = [g EXCEPT ![k] = 1 - g[k]]
    BY <2>1 DEF Noise
  <2>3. g \in Seq(Int)
    BY <1>1 DEF Message
  <2>4. Len(c) = Len(g) /\ \A n \in 1..Len(g) : c[n] = IF n = k THEN 1 - g[n] ELSE g[n]
    BY <2>2, <2>3
  <2>5. k \in Nat
    BY <1>1
  <2> QED
    BY <1>2, <2>4, <2>5, Zenon DEF Received
<1> QED
  BY <1>3, <1>4

\* One flipped unit of the four changes the parity.
LEMMA FlipIsFound ==
    ASSUME NEW m \in Received
    PROVE  (verificare(m) = m[4]) <=> SubSeq(m, 1, 4) = Sealed
<1>1. PICK g \in Greetings, k \in Nat :
        /\ m \in Message /\ Len(m) = Len(g)
        /\ \A n \in 1..Len(g) : m[n] = IF n = k THEN 1 - g[n] ELSE g[n]
  BY DEF Received
<1>2. /\ Len(g) \in Nat /\ Len(g) >= 4
      /\ g[1] = 1 /\ g[2] = 0 /\ g[3] = 0 /\ g[4] = 1
  BY GreetingBegins
<1>3. 1 \in 1..Len(g) /\ 2 \in 1..Len(g) /\ 3 \in 1..Len(g) /\ 4 \in 1..Len(g)
  BY <1>2
<1>4. /\ m[1] = (IF k = 1 THEN 0 ELSE 1) /\ m[2] = (IF k = 2 THEN 1 ELSE 0)
      /\ m[3] = (IF k = 3 THEN 1 ELSE 0) /\ m[4] = (IF k = 4 THEN 0 ELSE 1)
  BY <1>1, <1>2, <1>3
<1> DEFINE s == SubSeq(m, 1, 4)
           t == <<1, 0, 0, 1>>
<1>5. Sealed = t
  BY SealedIs
<1>6. t \in Seq(Int) /\ Len(t) = 4 /\ t[1] = 1 /\ t[2] = 0 /\ t[3] = 0 /\ t[4] = 1
  OBVIOUS
<1>7. s \in Seq(Int) /\ Len(s) = 4 /\ s[1] = m[1] /\ s[2] = m[2] /\ s[3] = m[3] /\ s[4] = m[4]
  <2>1. \A n \in 1..4 : m[n] \in Int
    BY <1>4
  <2>2. /\ s \in Seq(Int) /\ Len(s) = IF 1 <= 4 THEN 4 - 1 + 1 ELSE 0
        /\ \A n \in 1..4 - 1 + 1 : s[n] = m[1 + n - 1]
    BY <2>1, SubSeqProperties
  <2> HIDE DEF s
  <2>3. \A n \in 1..4 : s[n] = m[n] /\ Len(s) = 4
    BY <2>2
  <2> QED
    BY <2>2, <2>3
<1> HIDE DEF s, t
<1>8. (verificare(m) = m[4]) <=> k \notin 1..4
  <2>1. CASE k = 1
    BY <1>4, <2>1 DEF verificare
  <2>2. CASE k = 2
    BY <1>4, <2>2 DEF verificare
  <2>3. CASE k = 3
    BY <1>4, <2>3 DEF verificare
  <2>4. CASE k = 4
    BY <1>4, <2>4 DEF verificare
  <2>5. CASE k \notin 1..4
    BY <1>4, <2>5 DEF verificare
  <2> QED
    BY <2>1, <2>2, <2>3, <2>4, <2>5
<1>9. s = t <=> k \notin 1..4
  <2>1. ASSUME k \notin 1..4
        PROVE  s = t
    <3>1. \A n \in 1..Len(s) : s[n] = t[n]
      BY <1>4, <1>6, <1>7, <2>1
    <3> QED
      BY <1>6, <1>7, <3>1, SeqEqual
  <2>2. ASSUME s = t
        PROVE  k \notin 1..4
    BY <1>4, <1>6, <1>7, <2>2
  <2> QED
    BY <2>1, <2>2
<1> QED
  BY <1>5, <1>8, <1>9 DEF s

LEMMA GreetedInit == Init => Greeted
<1> SUFFICES ASSUME Init
             PROVE  Greeted
  OBVIOUS
<1> USE DEF Init, LinkInit, WindowInit
<1>1. OnTheWay(Greetings, Received)
  BY EmptySeq DEF OnTheWay, Ends
<1>2. SubSeq(Sealed, 1, 4) = Sealed
  BY DEF Sealed, Hello_world, verificare
<1> QED
  BY <1>1, <1>2 DEF Greeted, Flagged

LEMMA StepKeepsLab == [Next]_vars => lab' = lab /\ corrupt' = corrupt
  BY DEF Next, Link, LinkStep, Meet, Forward, Deliver, BringBack, Carry, Breaks, Abort,
         SendStep, FileSendStep, StartSend, SendSize, SendBlock, EndSend,
         BackupSendStep, SendFileName, SendDatagram, SendFinish,
         WindowSendStep, StartWindow, SendNext, AwaitSpace, Drain,
         RecvStep, FileRecvStep, StartRecv, ReceiveName, ReceiveSize, ReceiveBlock,
         BackupRecvStep, Bind, TakeName, Write, WindowRecvStep, StartCheck, CheckAndAck,
         parameters, vars, linkVars

LEMMA GreetedKeeps == Inv /\ Greeted /\ [Next]_vars => Greeted'
<1> SUFFICES ASSUME Inv, Greeted, [Next]_vars
             PROVE  Greeted'
  OBVIOUS
<1>1. TypeOK /\ Places /\ Starts /\ "send" \in Ends /\ "recv" \in Ends
  BY DEF Inv, Shape, Ends
<1>2. lab' = lab
  BY StepKeepsLab
<1>3. ASSUME UNCHANGED windowVars
      PROVE  Flagged'
  BY <1>3 DEF windowVars, Flagged, Greeted
<1>4. CASE lab # "Lab3"
  <2>1. UNCHANGED windowVars
    <3>1. ~WindowSendStep /\ ~WindowRecvStep
      BY <1>1, <1>4 DEF WindowSendStep, WindowRecvStep, StartWindow, SendNext, AwaitSpace,
                        Drain, StartCheck, CheckAndAck, Places
    <3> QED
      BY <3>1 DEF Next, Link, Breaks, SendStep, RecvStep, vars
  <2> QED
    BY <1>2, <1>3, <1>4, <2>1 DEF Greeted
<1>5. CASE lab = "Lab3"
  <2>1. OnTheWay(Greetings, Received)
    BY <1>5 DEF Greeted
  <2>2. SUFFICES OnTheWay(Greetings, Received)' /\ Flagged'
    BY DEF Greeted
  <2>3. CASE Link \/ Breaks
    <3>1. LinkStep \/ Abort
      BY <1>5, <2>3 DEF Link, Breaks, Carry
    <3>2. OnTheWay(Greetings, Received)'
      BY <1>1, <1>5, <2>1, <3>1, WayLink, CorruptedIsReceived
    <3> QED
      BY <1>3, <2>3, <3>2 DEF Link, Breaks
  <2>4. CASE SendStep
    <3>1. WindowSendStep
      BY <1>1, <1>5, <2>4 DEF SendStep, FileSendStep, StartSend, SendSize, SendBlock, EndSend,
             BackupSendStep, SendFileName, SendDatagram, SendFinish, Places
    <3>2. Flagged'
      BY <3>1 DEF WindowSendStep, StartWindow, SendNext, AwaitSpace, Drain, windowVars,
                  Flagged, Greeted
    <3>3. CASE StartWindow
      <4>1. /\ pc["send"] = "off" /\ SendAll("send", <<Hello>>)
            /\ UNCHANGED <<inbox, line, link_up>>
        BY <3>3 DEF StartWindow, emulator
      <4>2. sock["send"] = <<>> /\ ~link_up["send"]
        BY <1>1, <4>1 DEF Starts
      <4>3. Len(sock'["send"]) = 1
        <5>1. send_message("send", Hello) /\ Hello \in Message
          BY <4>1 DEF send_message, Hello, Message
        <5>2. Len(sock["send"]) = 0
          BY <4>2
        <5>3. Len(sock'["send"]) = Len(sock["send"]) + 1
          BY <1>1, <5>1, SendingOne, Zenon
        <5> QED
          BY <5>2, <5>3
      <4>4. \A k \in 1..1 : ~(k > 1)
        OBVIOUS
      <4> QED
        BY <2>1, <3>2, <4>1, <4>2, <4>3, <4>4 DEF OnTheWay
    <3>4. CASE SendNext
      <4>1. PICK m \in Greetings : send_message("send", m)
        BY <3>4 DEF SendNext
      <4>2. UNCHANGED <<inbox, line, link_up>>
        BY <3>4 DEF SendNext, emulator
      <4> QED
        BY <1>1, <2>1, <3>2, <4>1, <4>2, SendingOne, GreetingsAreMessages, WaySent
    <3>5. CASE AwaitSpace \/ Drain
      <4>1. UNCHANGED <<sock, line, link_up>> /\ recv_message("send")
        BY <3>5 DEF AwaitSpace, Drain, emulator
      <4>2. inbox'["recv"] = inbox["recv"]
        BY <1>1, <4>1, Receiving DEF Ends
      <4> QED
        BY <2>1, <3>2, <4>1, <4>2 DEF OnTheWay
    <3> QED
      BY <3>1, <3>3, <3>4, <3>5 DEF WindowSendStep
  <2>5. CASE RecvStep
    <3>1. WindowRecvStep
      BY <1>1, <1>5, <2>5 DEF RecvStep, FileRecvStep, StartRecv, ReceiveName, ReceiveSize,
             ReceiveBlock, BackupRecvStep, Bind, TakeName, Write, Places
    <3>2. CASE StartCheck
      <4>1. SendAll("recv", <<Hello>>) /\ UNCHANGED <<inbox, line, link_up, windowVars>>
        BY <3>2 DEF StartCheck, emulator
      <4>2. sock'["send"] = sock["send"]
        BY <1>1, <4>1 DEF SendAll, TypeOK, Ends
      <4> QED
        BY <1>3, <2>1, <4>1, <4>2 DEF OnTheWay
    <3>3. CASE CheckAndAck
      <4>1. /\ recv_message("recv") /\ send_message("recv", <<j>>)
            /\ checked' = Head(inbox["recv"])
            /\ verdict' = (verificare(checked') = checked'[4])
            /\ UNCHANGED <<line, link_up>>
        BY <3>3 DEF CheckAndAck, emulator
      <4>2. sock'["send"] = sock["send"]
        BY <1>1, <4>1 DEF send_message, SendAll, TypeOK, Ends
      <4>3. OnTheWay(Greetings, Received)' /\ Head(inbox["recv"]) \in Received
        BY <1>1, <2>1, <4>1, <4>2, WayRead
      <4>4. (verificare(checked') = checked'[4]) <=> SubSeq(checked', 1, 4) = Sealed
        BY <4>1, <4>3, FlipIsFound
      <4> QED
        BY <4>1, <4>3, <4>4 DEF Flagged
    <3> QED
      BY <3>1, <3>2, <3>3 DEF WindowRecvStep
  <2>6. CASE UNCHANGED vars
    BY <1>3, <2>1, <2>6 DEF vars, linkVars, emulator, windowVars, OnTheWay
  <2> QED
    BY <2>3, <2>4, <2>5, <2>6 DEF Next
<1> QED
  BY <1>4, <1>5
-----------------------------------------------------------------------------
(* Lab2: recv.c has what send.c has sent of the file *)

LEMMA Part ==
    ASSUME NEW s \in Seq(Int), NEW a \in Nat, NEW b \in Nat, a <= b, b <= Len(s)
    PROVE  /\ SubSeq(s, a + 1, b) \in Seq(Int)
           /\ Len(SubSeq(s, a + 1, b)) = b - a
           /\ \A k \in 1..b - a : SubSeq(s, a + 1, b)[k] = s[a + k]
<1>1. a + 1 \in Int /\ b \in Int /\ \A k \in a + 1..b : s[k] \in Int
  OBVIOUS
<1> DEFINE p == SubSeq(s, a + 1, b)
<1>2. /\ p \in Seq(Int)
      /\ Len(p) = IF a + 1 <= b THEN b - (a + 1) + 1 ELSE 0
      /\ \A k \in 1..b - (a + 1) + 1 : p[k] = s[a + 1 + k - 1]
  BY <1>1, SubSeqProperties
<1> HIDE DEF p
<1>3. Len(p) = b - a /\ \A k \in 1..b - a : p[k] = s[a + k]
  BY <1>2
<1> QED
  BY <1>2, <1>3 DEF p

LEMMA PrefixGrows ==
    ASSUME NEW s \in Seq(Int), NEW a \in Nat, NEW b \in Nat, a <= b, b <= Len(s)
    PROVE  SubSeq(s, 1, a) \o SubSeq(s, a + 1, b) = SubSeq(s, 1, b)
<1> DEFINE p == SubSeq(s, 1, a)
           q == SubSeq(s, a + 1, b)
           r == SubSeq(s, 1, b)
<1>1. Len(s) \in Nat
  OBVIOUS
<1>2. p \in Seq(Int) /\ Len(p) = a /\ \A k \in 1..a : p[k] = s[k]
  <2>1. /\ SubSeq(s, 0 + 1, a) \in Seq(Int) /\ Len(SubSeq(s, 0 + 1, a)) = a - 0
        /\ \A k \in 1..a - 0 : SubSeq(s, 0 + 1, a)[k] = s[0 + k]
    BY <1>1, Part
  <2>2. SubSeq(s, 0 + 1, a) = p
    OBVIOUS
  <2> QED
    BY <2>1, <2>2
<1>3. q \in Seq(Int) /\ Len(q) = b - a /\ \A k \in 1..b - a : q[k] = s[a + k]
  BY Part
<1>4. r \in Seq(Int) /\ Len(r) = b /\ \A k \in 1..b : r[k] = s[k]
  <2>1. /\ SubSeq(s, 0 + 1, b) \in Seq(Int) /\ Len(SubSeq(s, 0 + 1, b)) = b - 0
        /\ \A k \in 1..b - 0 : SubSeq(s, 0 + 1, b)[k] = s[0 + k]
    BY <1>1, Part
  <2>2. SubSeq(s, 0 + 1, b) = r
    OBVIOUS
  <2> QED
    BY <2>1, <2>2
<1> HIDE DEF p, q, r
<1>5. /\ p \o q \in Seq(Int) /\ Len(p \o q) = Len(p) + Len(q)
      /\ \A k \in 1..Len(p) + Len(q) : (p \o q)[k] = IF k <= Len(p) THEN p[k] ELSE q[k - Len(p)]
  BY <1>2, <1>3, ConcatProperties
<1>6. Len(p \o q) = b
  BY <1>2, <1>3, <1>5
<1>7. ASSUME NEW k \in 1..b
      PROVE  (p \o q)[k] = r[k]
  <2>1. k \in 1..Len(p) + Len(q)
    BY <1>2, <1>3
  <2>2. CASE k <= a
    <3>1. k \in 1..a /\ k <= Len(p)
      BY <1>2, <2>2
    <3>2. (p \o q)[k] = p[k]
      BY <1>5, <2>1, <3>1
    <3> QED
      BY <1>2, <1>4, <3>1, <3>2
  <2>3. CASE ~(k <= a)
    <3>1. k - a \in 1..b - a /\ a + (k - a) = k
      BY <2>3
    <3>2. (p \o q)[k] = q[k - a]
      BY <1>2, <1>5, <2>1, <2>3
    <3> QED
      BY <1>3, <1>4, <3>1, <3>2
  <2> QED
    BY <2>2, <2>3
<1>8. p \o q = r
  BY <1>4, <1>5, <1>6, <1>7, SeqEqual
<1> QED
  BY <1>8 DEF p, q, r

LEMMA PrefixOfAll ==
    ASSUME NEW s \in Seq(Int)
    PROVE  SubSeq(s, 1, Len(s)) = s /\ SubSeq(s, 1, 0) = <<>>
<1> DEFINE r == SubSeq(s, 1, Len(s))
<1>1. Len(s) \in Nat
  OBVIOUS
<1>2. r \in Seq(Int) /\ Len(r) = Len(s) /\ \A k \in 1..Len(s) : r[k] = s[k]
  <2>1. /\ SubSeq(s, 0 + 1, Len(s)) \in Seq(Int) /\ Len(SubSeq(s, 0 + 1, Len(s))) = Len(s) - 0
        /\ \A k \in 1..Len(s) - 0 : SubSeq(s, 0 + 1, Len(s))[k] = s[0 + k]
    BY <1>1, Part
  <2>2. SubSeq(s, 0 + 1, Len(s)) = r
    OBVIOUS
  <2> QED
    BY <1>1, <2>1, <2>2
<1> HIDE DEF r
<1>3. r = s
  BY <1>2, SeqEqual
<1>4. SubSeq(s, 1, 0) = <<>>
  BY SubSeqEmpty
<1> QED
  BY <1>3, <1>4 DEF r

\* What send.c reads of the file at once: nothing only at its end.
LEMMA BlockIs ==
    ASSUME TypeOK, offset <= Len(file)
    PROVE  /\ Block = SubSeq(file, offset + 1, offset + Len(Block))
           /\ Len(Block) = Min({MAX_LEN - 1, Len(file) - offset})
           /\ offset + Len(Block) = Len(file) \/ Len(Block) > 0
<1>1. file \in Seq(Int) /\ Len(file) \in Nat /\ offset \in Nat /\ MAX_LEN \in Nat /\ MAX_LEN > 1
  BY FileAssumption DEF TypeOK, Message
<1> DEFINE last == IF offset + MAX_LEN - 1 <= Len(file) THEN offset + MAX_LEN - 1 ELSE Len(file)
<1>2. Min({offset + MAX_LEN - 1, Len(file)}) = last
  <2>1. offset + MAX_LEN - 1 \in Int /\ Len(file) \in Int
    BY <1>1
  <2> QED
    BY <2>1, MinOfTwo, Zenon
<1>3. /\ last \in Nat /\ last <= Len(file) /\ offset <= last
      /\ last - offset = IF MAX_LEN - 1 <= Len(file) - offset THEN MAX_LEN - 1
                         ELSE Len(file) - offset
      /\ last = Len(file) \/ last - offset > 0
  BY <1>1
<1>4. Min({MAX_LEN - 1, Len(file) - offset}) = last - offset
  <2>1. MAX_LEN - 1 \in Int /\ Len(file) - offset \in Int
    BY <1>1
  <2>2. Min({MAX_LEN - 1, Len(file) - offset})
          = IF MAX_LEN - 1 <= Len(file) - offset THEN MAX_LEN - 1 ELSE Len(file) - offset
    BY <2>1, MinOfTwo, Zenon
  <2> QED
    BY <1>3, <2>2
<1> HIDE DEF last
<1>5. Block = SubSeq(file, offset + 1, last)
  BY <1>2 DEF Block
<1>6. Len(Block) = last - offset
  BY <1>1, <1>3, <1>5, Part
<1>7. offset + Len(Block) = last
  BY <1>1, <1>3, <1>6
<1> QED
  BY <1>3, <1>4, <1>5, <1>6, <1>7

LEMMA AtMostOne ==
    ASSUME Inv, lab = "Lab2"
    PROVE  \E us, ur, l, r, n \in Nat :
             /\ Underway("send") = us /\ Underway("recv") = ur
             /\ Len(line) = l /\ Len(inbox["recv"]) = r /\ Len(inbox["send"]) = n
             /\ us + l + r + ur + n <= 1
             /\ pc["send"] = "off" => us + l + r + ur + n = 0
<1>1. TypeOK /\ Starts /\ LockStep /\ QuietBefore /\ "send" \in Ends /\ "recv" \in Ends
  BY DEF Inv, Shape, Ends
<1>2. PICK us, ur, l, r, n \in Nat :
        /\ Underway("send") = us /\ Underway("recv") = ur
        /\ Len(line) = l /\ Len(inbox["recv"]) = r /\ Len(inbox["send"]) = n
  <2>1. /\ Underway("send") \in Nat /\ Underway("recv") \in Nat
        /\ Len(line) \in Nat /\ Len(inbox["recv"]) \in Nat /\ Len(inbox["send"]) \in Nat
    BY <1>1, Lengths, NotNegative
  <2> QED
    BY <2>1
<1>3. Unread = us + l + r + ur + n
  BY <1>2, UnreadIs
<1>4. us + l + r + ur + n <= 1 /\ (pc["send"] = "off" => us + l + r + ur + n = 0)
  BY <1>1, <1>3 DEF LockStep, QuietBefore
<1> QED
  BY <1>2, <1>4

\* With no message on the way to the emulator there is at most that of init().
LEMMA NothingAhead ==
    ASSUME Inv, lab = "Lab2", Underway("send") = 0
    PROVE  \A k \in 1..Len(sock["send"]) : ~(k > 1 \/ link_up["send"])
<1>1. TypeOK /\ Starts /\ "send" \in Ends /\ Len(sock["send"]) \in Nat
  BY Lengths DEF Inv, Shape, Ends
<1>2. CASE pc["send"] = "off"
  BY <1>1, <1>2 DEF Starts
<1>3. CASE pc["send"] # "off"
  BY <1>1, <1>3 DEF Underway
<1> QED
  BY <1>2, <1>3

\* send.c takes a reply and sends the next message: nothing else is anywhere.
LEMMA NextMessage ==
    ASSUME Inv, lab = "Lab2", recv_message("send"), NEW m \in Message, send_message("send", m),
           UNCHANGED <<line, link_up>>, pc'["recv"] = pc["recv"]
    PROVE  /\ \A k \in 1..Len(sock'["send"]) : k > 1 \/ link_up'["send"] => sock'["send"][k] = m
           /\ line' = <<>> /\ inbox'["recv"] = <<>>
           /\ Replies' = 0 /\ Replies > 0
<1>1. TypeOK /\ "send" \in Ends /\ "recv" \in Ends
  BY DEF Inv, Shape, Ends
<1>2. /\ Len(inbox["send"]) > 0 /\ Len(inbox'["send"]) = Len(inbox["send"]) - 1
      /\ inbox'["recv"] = inbox["recv"]
  BY <1>1, Receiving
<1>3. /\ Underway("send") = 0 /\ Underway("recv") = 0
      /\ Len(line) = 0 /\ Len(inbox["recv"]) = 0 /\ Len(inbox["send"]) = 1
  <2>1. PICK us, ur, l, r, n \in Nat :
          /\ Underway("send") = us /\ Underway("recv") = ur
          /\ Len(line) = l /\ Len(inbox["recv"]) = r /\ Len(inbox["send"]) = n
          /\ us + l + r + ur + n <= 1
    BY AtMostOne
  <2>2. n > 0
    BY <1>2, <2>1
  <2>3. us = 0 /\ ur = 0 /\ l = 0 /\ r = 0 /\ n = 1
    BY <2>1, <2>2
  <2> QED
    BY <2>1, <2>3
<1>4. line = <<>> /\ inbox["recv"] = <<>>
  <2>1. line \in Seq(Message) /\ inbox["recv"] \in Seq(Message)
    BY <1>1 DEF TypeOK
  <2> QED
    BY <1>3, <2>1
<1>5. /\ Len(sock'["send"]) = Len(sock["send"]) + 1 /\ sock'["recv"] = sock["recv"]
      /\ \A k \in 1..Len(sock["send"]) : sock'["send"][k] = sock["send"][k]
      /\ sock'["send"][Len(sock["send"]) + 1] = m
  BY <1>1, SendingOne
<1>6. ASSUME NEW k \in 1..Len(sock'["send"]), k > 1 \/ link_up["send"]
      PROVE  sock'["send"][k] = m
  <2>1. Len(sock["send"]) \in Nat
    BY <1>1, Lengths
  <2>2. CASE k \in 1..Len(sock["send"])
    BY <1>3, <1>6, <2>2, NothingAhead
  <2>3. CASE k = Len(sock["send"]) + 1
    BY <1>5, <2>3
  <2> QED
    BY <1>5, <2>1, <2>2, <2>3
<1>7. Underway("recv")' = Underway("recv")
  BY <1>5 DEF Underway
<1>8. Replies' = 0 /\ Replies > 0
  BY <1>2, <1>3, <1>7 DEF Replies
<1> QED
  BY <1>2, <1>4, <1>6, <1>8

\* recv.c takes a message: none other is on the way.
LEMMA TakenMessage ==
    ASSUME Inv, lab = "Lab2", recv_message("recv"), UNCHANGED <<line, link_up>>,
           sock'["send"] = sock["send"]
    PROVE  /\ \A k \in 1..Len(sock'["send"]) : ~(k > 1 \/ link_up'["send"])
           /\ line' = <<>> /\ inbox'["recv"] = <<>>
<1>1. TypeOK /\ "send" \in Ends /\ "recv" \in Ends
  BY DEF Inv, Shape, Ends
<1>2. /\ Len(inbox["recv"]) > 0 /\ Len(inbox'["recv"]) = Len(inbox["recv"]) - 1
      /\ inbox' \in [Ends -> Seq(Message)]
  BY <1>1, Receiving
<1>3. Underway("send") = 0 /\ Len(line) = 0 /\ Len(inbox["recv"]) = 1
  <2>1. PICK us, ur, l, r, n \in Nat :
          /\ Underway("send") = us /\ Underway("recv") = ur
          /\ Len(line) = l /\ Len(inbox["recv"]) = r /\ Len(inbox["send"]) = n
          /\ us + l + r + ur + n <= 1
    BY AtMostOne
  <2>2. r > 0
    BY <1>2, <2>1
  <2>3. us = 0 /\ l = 0 /\ r = 1
    BY <2>1, <2>2
  <2> QED
    BY <2>1, <2>3
<1>4. line = <<>> /\ inbox'["recv"] = <<>>
  <2>1. line \in Seq(Message) /\ inbox'["recv"] \in Seq(Message)
    BY <1>1, <1>2 DEF TypeOK
  <2> QED
    BY <1>2, <1>3, <2>1
<1> QED
  BY <1>3, <1>4, NothingAhead

\* The emulator loses replies at most.
LEMMA RepliesPass ==
    ASSUME Inv, LinkStep \/ Abort
    PROVE  Replies' <= Replies
<1>1. TypeOK /\ Starts /\ "send" \in Ends /\ "recv" \in Ends /\ Places
  BY DEF Inv, Shape, Ends
<1>2. /\ Len(sock["recv"]) \in Nat /\ Len(inbox["send"]) \in Nat
      /\ sock["recv"] \in Seq(Message) /\ inbox["send"] \in Seq(Message)
  BY <1>1, Lengths DEF TypeOK
<1>3. CASE BringBack
  <2>1. /\ UNCHANGED <<pc, link_up>> /\ link_up["recv"] /\ sock["recv"] # <<>>
        /\ sock' = [sock EXCEPT !["recv"] = Tail(sock["recv"])]
        /\ \/ inbox' = [inbox EXCEPT !["send"] = Append(inbox["send"], Head(sock["recv"]))]
           \/ inbox' = [inbox EXCEPT !["send"] = inbox["send"]]
    BY <1>3 DEF BringBack, emulator
  <2>2. Len(sock'["recv"]) = Len(sock["recv"]) - 1 /\ Head(sock["recv"]) \in Message
    <3>1. sock'["recv"] = Tail(sock["recv"])
      BY <1>1, <2>1 DEF TypeOK
    <3> QED
      BY <1>2, <2>1, <3>1, HeadTailStay
  <2>3. Len(inbox'["send"]) <= Len(inbox["send"]) + 1 /\ Len(inbox'["send"]) \in Nat
    <3>1. CASE inbox'["send"] = Append(inbox["send"], Head(sock["recv"]))
      <4>1. Len(Append(inbox["send"], Head(sock["recv"]))) = Len(inbox["send"]) + 1
        BY <1>2, <2>2, AppendStays
      <4> QED
        BY <1>2, <3>1, <4>1
    <3>2. CASE inbox'["send"] = inbox["send"]
      BY <1>2, <3>2
    <3>3. \/ inbox'["send"] = Append(inbox["send"], Head(sock["recv"]))
          \/ inbox'["send"] = inbox["send"]
      BY <1>1, <2>1 DEF TypeOK
    <3> QED
      BY <3>1, <3>2, <3>3
  <2>4. Underway("recv") = Len(sock["recv"]) /\ Underway("recv")' = Len(sock["recv"]) - 1
    BY <1>2, <2>1, <2>2 DEF Underway
  <2> QED
    BY <1>2, <2>3, <2>4 DEF Replies
<1>4. ASSUME NEW e \in Ends, Meet(e)
      PROVE  Replies' <= Replies
  <2>1. /\ UNCHANGED <<pc, inbox>> /\ ~link_up[e] /\ sock[e] # <<>>
        /\ sock' = [sock EXCEPT ![e] = Tail(sock[e])]
        /\ link_up' = [link_up EXCEPT ![e] = TRUE]
        /\ sock[e] \in Seq(Message)
    BY <1>1, <1>4 DEF Meet, TypeOK
  <2>2. CASE e = "recv"
    <3>1. /\ pc["recv"] # "off" /\ link_up'["recv"] /\ ~link_up["recv"]
          /\ sock'["recv"] = Tail(sock["recv"])
      BY <1>1, <2>1, <2>2 DEF Starts, TypeOK
    <3>2. Len(sock'["recv"]) = Len(sock["recv"]) - 1
      BY <2>1, <2>2, <3>1, HeadTailStay
    <3>3. Underway("recv")' = Underway("recv")
      BY <1>2, <2>1, <3>1, <3>2 DEF Underway
    <3>4. Underway("recv") \in Int
      BY <1>2 DEF Underway
    <3> QED
      BY <1>2, <2>1, <3>3, <3>4 DEF Replies
  <2>3. CASE e = "send"
    <3>1. sock'["recv"] = sock["recv"] /\ link_up'["recv"] = link_up["recv"]
      BY <1>1, <2>1, <2>3 DEF Ends, TypeOK
    <3>2. Underway("recv")' = Underway("recv")
      BY <2>1, <3>1 DEF Underway
    <3>3. Underway("recv") \in Int
      BY <1>2 DEF Underway
    <3> QED
      BY <1>2, <2>1, <3>2, <3>3 DEF Replies
  <2> QED
    BY <2>2, <2>3 DEF Ends
<1>5. CASE Forward \/ Deliver \/ Abort
  <2>1. UNCHANGED <<pc, link_up>> /\ sock'["recv"] = sock["recv"] /\ inbox'["send"] = inbox["send"]
    <3>1. CASE Forward
      BY <1>1, <3>1 DEF Forward, TypeOK, Ends
    <3>2. CASE Deliver
      BY <1>1, <3>2 DEF Deliver, TypeOK, Ends
    <3>3. CASE Abort
      BY <3>3 DEF Abort
    <3> QED
      BY <1>5, <3>1, <3>2, <3>3
  <2>2. Underway("recv")' = Underway("recv") /\ Underway("recv") \in Int
    BY <1>2, <2>1 DEF Underway
  <2> QED
    BY <1>2, <2>1, <2>2 DEF Replies
<1> QED
  BY <1>3, <1>4, <1>5 DEF LinkStep
LEMMA CopyingInit == Init => Copying
<1> SUFFICES ASSUME Init
             PROVE  Copying
  OBVIOUS
<1> USE DEF Init, LinkInit, FileInit
<1>1. OnTheWay(Due, Due)
  BY EmptySeq DEF OnTheWay, Ends
<1>2. Replies = 0 /\ Turns
  BY DEF Replies, Underway, Turns, Ends
<1>3. Copied
  <2>1. <<>> = SubSeq(file, 1, 0)
    BY SubSeqEmpty
  <2> QED
    BY <2>1 DEF Copied, Ends
<1> QED
  BY <1>1, <1>2, <1>3 DEF Copying

LEMMA CopyingLink ==
    ASSUME Inv, Copying, lab = "Lab2", ~corrupt, Link \/ Breaks \/ UNCHANGED vars
    PROVE  Copying'
<1>1. TypeOK
  BY DEF Inv, Shape
<1>2. /\ OnTheWay(Due, Due) /\ (Replies > 0 => Replied) /\ Turns /\ Copied
  BY DEF Copying
<1>3. UNCHANGED <<pc, fileVars>>
  BY DEF Link, LinkStep, Meet, Forward, Deliver, BringBack, Carry, Breaks, Abort, vars, linkVars
<1>4. Replied' = Replied /\ Turns' /\ Copied' /\ Due' = Due
  <2>1. UNCHANGED <<pc, file, offset, rest, written>>
    BY <1>3 DEF fileVars
  <2>2. (Replied <=> Replied') /\ Turns' /\ Copied'
    BY <1>2, <2>1 DEF Replied, Turns, Copied
  <2>3. Due' = Due
    BY <2>1 DEF Due
  <2>4. Replied' = Replied
    BY <2>2 DEF Replied
  <2> QED
    BY <2>2, <2>3, <2>4
<1>5. CASE LinkStep \/ Abort
  <2>1. PICK S : S = Due
    OBVIOUS
  <2>2. OnTheWay(S, S)
    BY <1>2, <2>1 DEF OnTheWay
  <2>3. \A m \in S : Corrupted(m) \subseteq S
    BY DEF Corrupted
  <2>4. OnTheWay(S, S)'
    BY <1>1, <1>5, <2>2, <2>3, WayLink
  <2>5. OnTheWay(Due, Due)'
    BY <1>4, <2>1, <2>4 DEF OnTheWay
  <2>6. Replies' > 0 => Replies > 0
    <3>1. Replies' <= Replies /\ Replies \in Int /\ Replies' \in Int
      <4>1. TypeOK'
        BY <1>5, NextInv DEF Next, Link, Breaks, Inv, Shape
      <4> QED
        BY <1>1, <1>5, <4>1, RepliesPass, Lengths DEF Replies, Underway, Ends, TypeOK
    <3> QED
      BY <3>1
  <2> QED
    BY <1>2, <1>4, <2>5, <2>6 DEF Copying
<1>6. CASE UNCHANGED vars
  <2>1. UNCHANGED <<sock, line, inbox, link_up>>
    BY <1>6 DEF vars, linkVars, emulator
  <2>2. OnTheWay(Due, Due)'
    BY <1>2, <1>4, <2>1 DEF OnTheWay
  <2>3. Replies' = Replies
    BY <1>3, <2>1 DEF Replies, Underway
  <2> QED
    BY <1>2, <1>4, <2>2, <2>3 DEF Copying
<1>7. LinkStep \/ Abort \/ UNCHANGED vars
  BY DEF Link, Breaks, Carry
<1> QED
  BY <1>5, <1>6, <1>7

LEMMA CopyingStart ==
    ASSUME Inv, Copying, lab = "Lab2", ~corrupt, StartSend \/ StartRecv
    PROVE  Copying'
<1>1. TypeOK /\ Starts /\ "send" \in Ends /\ "recv" \in Ends
  BY DEF Inv, Shape, Ends
<1>2. /\ OnTheWay(Due, Due) /\ (Replies > 0 => Replied) /\ Turns /\ Copied
  BY DEF Copying
<1>3. /\ UNCHANGED <<inbox, line, link_up, file, offset, rest, written>>
  BY DEF StartSend, StartRecv, emulator, fileVars
<1>4. CASE StartSend
  <2>1. /\ pc["send"] = "off" /\ SendAll("send", <<Hello, Name>>)
        /\ pc' = [pc EXCEPT !["send"] = "name"]
    BY <1>4 DEF StartSend, Goto
  <2>2. pc'["send"] = "name" /\ pc'["recv"] = pc["recv"]
    BY <1>1, <2>1 DEF TypeOK, Ends
  <2>3. pc["recv"] \in {"off", "name"} /\ offset = 0
    BY <1>2, <2>1 DEF Turns
  <2>4. sock["send"] = <<>> /\ ~link_up["send"]
    BY <1>1, <2>1 DEF Starts
  <2>5. Len(sock'["send"]) = 2 /\ sock'["send"][2] = Name /\ sock'["recv"] = sock["recv"]
    <3> DEFINE ms == <<Hello, Name>>
    <3>1. ms \in Seq(Message) /\ Len(ms) = 2 /\ ms[2] = Name
      BY DEF Hello, Name, Message
    <3> HIDE DEF ms
    <3>2. /\ Len(sock'["send"]) = Len(sock["send"]) + Len(ms)
          /\ \A d \in Ends \ {"send"} : sock'[d] = sock[d]
          /\ \A k \in 1..Len(ms) : sock'["send"][Len(sock["send"]) + k] = ms[k]
      BY <1>1, <2>1, <3>1, Sending, Zenon DEF ms
    <3>3. Len(sock["send"]) = 0
      BY <2>4
    <3> QED
      BY <3>1, <3>2, <3>3 DEF Ends
  <2>6. line = <<>> /\ inbox["recv"] = <<>> /\ Replies = 0
    <3>1. PICK us, ur, l, r, n \in Nat :
            /\ Underway("send") = us /\ Underway("recv") = ur
            /\ Len(line) = l /\ Len(inbox["recv"]) = r /\ Len(inbox["send"]) = n
            /\ us + l + r + ur + n = 0
      BY <2>1, AtMostOne
    <3>2. ur = 0 /\ l = 0 /\ r = 0 /\ n = 0
      BY <3>1
    <3>3. line \in Seq(Message) /\ inbox["recv"] \in Seq(Message)
      BY <1>1 DEF TypeOK
    <3>4. line = <<>> /\ inbox["recv"] = <<>>
      BY <3>1, <3>2, <3>3
    <3>5. Replies = 0
      BY <3>1, <3>2 DEF Replies
    <3> QED
      BY <3>4, <3>5
  <2>7. Due' = {Name}
    BY <2>2, <2>3 DEF Due
  <2>8. OnTheWay(Due, Due)'
    <3>1. \A k \in 1..Len(sock'["send"]) : k > 1 \/ link_up'["send"] => sock'["send"][k] = Name
      BY <1>3, <2>4, <2>5
    <3>2. line' = <<>> /\ inbox'["recv"] = <<>>
      BY <1>3, <2>6
    <3>3. line' \in Seq(Due') /\ inbox'["recv"] \in Seq(Due')
      BY <3>2, EmptySeq
    <3> QED
      BY <2>7, <3>1, <3>3 DEF OnTheWay
  <2>9. Replies' = 0
    <3>1. Underway("recv")' = Underway("recv")
      BY <1>3, <2>2, <2>5 DEF Underway
    <3> QED
      BY <1>3, <2>6, <3>1 DEF Replies
  <2>10. Turns' /\ Copied'
    BY <1>2, <1>3, <2>2, <2>3 DEF Turns, Copied
  <2> QED
    BY <2>8, <2>9, <2>10 DEF Copying
<1>5. CASE StartRecv
  <2>1. pc["recv"] = "off" /\ SendAll("recv", <<Hello>>) /\ pc' = [pc EXCEPT !["recv"] = "name"]
    BY <1>5 DEF StartRecv, Goto
  <2>2. pc'["recv"] = "name" /\ pc'["send"] = pc["send"]
    BY <1>1, <2>1 DEF TypeOK, Ends
  <2>3. sock["recv"] = <<>> /\ ~link_up["recv"]
    BY <1>1, <2>1 DEF Starts
  <2>4. Len(sock'["recv"]) = 1 /\ sock'["send"] = sock["send"]
    <3>1. send_message("recv", Hello) /\ Hello \in Message
      BY <2>1 DEF send_message, Hello, Message
    <3>2. Len(sock["recv"]) = 0
      BY <2>3
    <3>3. Len(sock'["recv"]) = Len(sock["recv"]) + 1 /\ \A d \in Ends \ {"recv"} : sock'[d] = sock[d]
      BY <1>1, <3>1, SendingOne, Zenon
    <3> QED
      BY <3>2, <3>3 DEF Ends
  <2>5. Due' = Due
    BY <1>3, <2>1, <2>2 DEF Due
  <2>6. OnTheWay(Due, Due)'
    BY <1>2, <1>3, <2>4, <2>5 DEF OnTheWay
  <2>7. Replies' = Replies
    <3>1. Underway("recv") = 0 /\ Underway("recv")' = 0
      BY <1>3, <2>1, <2>2, <2>3, <2>4 DEF Underway
    <3> QED
      BY <1>3, <3>1 DEF Replies
  <2>8. ~Replied
    BY <2>1 DEF Replied
  <2>9. Turns' /\ Copied'
    BY <1>2, <1>3, <2>1, <2>2 DEF Turns, Copied
  <2> QED
    BY <1>2, <2>6, <2>7, <2>8, <2>9 DEF Copying
<1> QED
  BY <1>4, <1>5

LEMMA CopyingSend ==
    ASSUME Inv, Copying, lab = "Lab2", ~corrupt, SendSize \/ SendBlock \/ EndSend
    PROVE  Copying'
<1>1. TypeOK /\ offset <= Len(file) /\ "send" \in Ends /\ "recv" \in Ends
  BY DEF Inv, Shape, Ends
<1>2. /\ OnTheWay(Due, Due) /\ (Replies > 0 => Replied) /\ Turns /\ Copied
  BY DEF Copying
<1>3. /\ UNCHANGED <<line, link_up, file, rest, written>> /\ recv_message("send")
      /\ pc["send"] \in {"name", "copy"}
  BY DEF SendSize, SendBlock, EndSend, emulator, fileVars
<1>4. /\ file \in Seq(Int) /\ Len(file) \in Nat /\ offset \in Nat /\ written \in Seq(Int)
      /\ Len(written) \in Nat /\ rest \in Int
  BY <1>1 DEF TypeOK, Message
<1>5. Replies > 0
  <2>1. PICK us, ur, l, r, n \in Nat :
          Underway("recv") = ur /\ Len(inbox["send"]) = n
    BY AtMostOne
  <2>2. n > 0
    BY <1>1, <1>3, <2>1, Receiving
  <2> QED
    BY <2>1, <2>2 DEF Replies
<1>6. Replied
  BY <1>2, <1>5
<1>7. ASSUME NEW m \in Message, send_message("send", m), pc'["recv"] = pc["recv"], Due' = {m},
             Turns', Copied'
      PROVE  Copying'
  <2>1. /\ \A k \in 1..Len(sock'["send"]) : k > 1 \/ link_up'["send"] => sock'["send"][k] = m
        /\ line' = <<>> /\ inbox'["recv"] = <<>> /\ Replies' = 0
    BY <1>3, <1>7, NextMessage
  <2>2. line' \in Seq(Due') /\ inbox'["recv"] \in Seq(Due')
    BY <2>1, EmptySeq
  <2>3. OnTheWay(Due, Due)'
    BY <1>7, <2>1, <2>2 DEF OnTheWay
  <2> QED
    BY <1>7, <2>1, <2>3 DEF Copying
<1>8. CASE SendSize
  <2>1. /\ pc["send"] = "name" /\ send_message("send", <<Len(file)>>)
        /\ pc' = [pc EXCEPT !["send"] = "copy"] /\ offset' = offset
    BY <1>8 DEF SendSize, Goto, fileVars
  <2>2. pc'["send"] = "copy" /\ pc'["recv"] = pc["recv"] /\ pc["recv"] = "size"
    BY <1>1, <1>6, <2>1 DEF TypeOK, Ends, Replied
  <2>3. offset = 0
    BY <1>2, <2>1, <2>2 DEF Turns
  <2>4. Due' = {<<Len(file)>>}
    BY <1>3, <2>2 DEF Due
  <2>5. <<Len(file)>> \in Message
    BY <1>4 DEF Message
  <2>6. Turns' /\ Copied'
    BY <1>2, <1>3, <2>1, <2>2, <2>3 DEF Turns, Copied
  <2> QED
    BY <1>7, <2>1, <2>2, <2>4, <2>5, <2>6
<1>9. CASE SendBlock
  <2>1. /\ pc["send"] = "copy" /\ Block # <<>> /\ send_message("send", Block)
        /\ offset' = offset + Len(Block) /\ pc' = pc
    BY <1>9 DEF SendBlock
  <2>2. pc["recv"] \in {"copy", "done"} /\ Len(written) = offset
    BY <1>6, <2>1 DEF Replied
  <2>3. /\ Block \in Message /\ offset + Len(Block) <= Len(file)
        /\ Len(Block) \in Nat /\ Len(Block) > 0
    <3>1. Block \in Message /\ offset + Len(Block) <= Len(file) /\ Len(Block) \in Nat
      BY <1>1, BlockIsMessage
    <3>2. Block \in Seq(Int)
      BY <3>1 DEF Message
    <3> QED
      BY <2>1, <3>1, <3>2
  <2>4. pc["recv"] = "copy"
    <3>1. Len(written) # Len(file)
      BY <1>4, <2>2, <2>3
    <3> QED
      BY <1>2, <2>2, <3>1 DEF Copied
  <2>5. Block = SubSeq(file, Len(written) + 1, offset')
    BY <1>1, <1>4, <2>1, <2>2, BlockIs
  <2>6. Due' = {Block}
    <3>1. Len(written') < offset'
      BY <1>3, <1>4, <2>1, <2>2, <2>3
    <3> QED
      BY <1>3, <2>1, <2>4, <2>5, <3>1 DEF Due
  <2>7. Turns' /\ Copied'
    <3>1. Len(written) <= offset'
      BY <1>4, <2>1, <2>2, <2>3
    <3> QED
      BY <1>2, <1>3, <2>1, <2>2, <2>4, <3>1 DEF Turns, Copied
  <2> QED
    BY <1>7, <2>1, <2>3, <2>6, <2>7
<1>10. CASE EndSend
  <2>1. /\ pc["send"] = "copy" /\ Block = <<>> /\ UNCHANGED <<sock, offset>>
        /\ pc' = [pc EXCEPT !["send"] = "done"]
    BY <1>10 DEF EndSend, Goto, fileVars
  <2>2. pc'["send"] = "done" /\ pc'["recv"] = pc["recv"]
    BY <1>1, <2>1 DEF TypeOK, Ends
  <2>3. offset = Len(file)
    <3>1. offset + Len(Block) = Len(file) \/ Len(Block) > 0
      BY <1>1, BlockIs
    <3>2. Len(Block) = 0
      BY <2>1
    <3> QED
      BY <1>4, <3>1, <3>2
  <2>4. pc["recv"] = "done"
    <3>1. pc["recv"] \in {"copy", "done"} /\ Len(written) = Len(file)
      BY <1>6, <2>1, <2>3 DEF Replied
    <3>2. ~(Len(file) - Len(written) > 0)
      BY <1>4, <3>1
    <3> QED
      BY <1>2, <3>1, <3>2 DEF Copied
  <2>5. inbox' \in [Ends -> Seq(Message)] /\ inbox'["recv"] = inbox["recv"]
        /\ Len(inbox'["send"]) = Len(inbox["send"]) - 1
    BY <1>1, <1>3, Receiving DEF Ends
  <2>6. /\ \A k \in 1..Len(sock["send"]) : ~(k > 1 \/ link_up["send"])
        /\ line = <<>> /\ inbox["recv"] = <<>> /\ Replies' = 0
    <3>1. PICK us, ur, l, r, n \in Nat :
            /\ Underway("send") = us /\ Underway("recv") = ur
            /\ Len(line) = l /\ Len(inbox["recv"]) = r /\ Len(inbox["send"]) = n
            /\ us + l + r + ur + n <= 1
      BY AtMostOne
    <3>2. n > 0
      BY <1>1, <1>3, <3>1, Receiving
    <3>3. us = 0 /\ ur = 0 /\ l = 0 /\ r = 0 /\ n = 1
      BY <3>1, <3>2
    <3>4. line \in Seq(Message) /\ inbox["recv"] \in Seq(Message)
      BY <1>1 DEF TypeOK
    <3>5. line = <<>> /\ inbox["recv"] = <<>>
      BY <3>1, <3>3, <3>4
    <3>6. Underway("recv")' = Underway("recv")
      BY <1>3, <2>1, <2>2 DEF Underway
    <3>7. Replies' = 0
      BY <2>5, <3>1, <3>3, <3>6 DEF Replies
    <3> QED
      BY <3>1, <3>3, <3>5, <3>7, NothingAhead
  <2>7. OnTheWay(Due, Due)'
    <3>1. line' = <<>> /\ inbox'["recv"] = <<>>
      BY <1>3, <2>5, <2>6
    <3>2. line' \in Seq(Due') /\ inbox'["recv"] \in Seq(Due')
      BY <3>1, EmptySeq
    <3> QED
      BY <1>3, <2>1, <2>6, <3>2 DEF OnTheWay
  <2>8. Turns' /\ Copied'
    BY <1>2, <1>3, <2>1, <2>2, <2>4 DEF Turns, Copied
  <2> QED
    BY <2>6, <2>7, <2>8 DEF Copying
<1> QED
  BY <1>8, <1>9, <1>10

LEMMA CopyingReceive ==
    ASSUME Inv, Copying, lab = "Lab2", ~corrupt, ReceiveName \/ ReceiveSize \/ ReceiveBlock
    PROVE  Copying'
<1>1. TypeOK /\ offset <= Len(file) /\ "send" \in Ends /\ "recv" \in Ends
  BY DEF Inv, Shape, Ends
<1>2. /\ OnTheWay(Due, Due) /\ (Replies > 0 => Replied) /\ Turns /\ Copied
  BY DEF Copying
<1>3. /\ UNCHANGED <<line, link_up, file, offset>> /\ recv_message("recv")
      /\ pc["recv"] \in {"name", "size", "copy"}
  BY DEF ReceiveName, ReceiveSize, ReceiveBlock, emulator, fileVars
<1>4. /\ file \in Seq(Int) /\ Len(file) \in Nat /\ offset \in Nat /\ written \in Seq(Int)
      /\ Len(written) \in Nat /\ rest \in Int
  BY <1>1 DEF TypeOK, Message
<1>5. sock'["send"] = sock["send"]
  BY <1>1 DEF ReceiveName, ReceiveSize, ReceiveBlock, Echo, send_message, SendAll, TypeOK, Ends
<1>6. Head(inbox["recv"]) \in Due
  <2>1. inbox["recv"] \in Seq(Due) /\ inbox["recv"] # <<>>
    BY <1>2, <1>3 DEF OnTheWay, recv_message
  <2> QED
    BY <2>1, HeadTailStay
<1>7. OnTheWay(Due, Due)'
  <2>1. /\ \A k \in 1..Len(sock'["send"]) : ~(k > 1 \/ link_up'["send"])
        /\ line' = <<>> /\ inbox'["recv"] = <<>>
    BY <1>3, <1>5, TakenMessage
  <2>2. line' \in Seq(Due') /\ inbox'["recv"] \in Seq(Due')
    BY <2>1, EmptySeq
  <2> QED
    BY <2>1, <2>2 DEF OnTheWay
<1>8. CASE ReceiveName
  <2>1. pc["recv"] = "name" /\ pc' = [pc EXCEPT !["recv"] = "size"] /\ UNCHANGED <<rest, written>>
    BY <1>8 DEF ReceiveName, Goto, fileVars
  <2>2. pc'["recv"] = "size" /\ pc'["send"] = pc["send"]
    BY <1>1, <2>1 DEF TypeOK, Ends
  <2>3. pc["send"] = "name"
    BY <1>6, <2>1 DEF Due
  <2>4. Replied' /\ Turns' /\ Copied'
    BY <1>2, <1>3, <2>1, <2>2, <2>3 DEF Replied, Turns, Copied
  <2> QED
    BY <1>7, <2>4 DEF Copying
<1>9. CASE ReceiveSize
  <2>1. /\ pc["recv"] = "size" /\ rest' = Head(inbox["recv"])[1] /\ written' = written
        /\ pc' = [pc EXCEPT !["recv"] = IF rest' = 0 THEN "done" ELSE "copy"]
    BY <1>9 DEF ReceiveSize, Goto
  <2>2. pc'["recv"] = (IF rest' = 0 THEN "done" ELSE "copy") /\ pc'["send"] = pc["send"]
    BY <1>1, <2>1 DEF TypeOK, Ends
  <2>3. pc["send"] = "copy" /\ Head(inbox["recv"]) = <<Len(file)>>
    BY <1>6, <2>1 DEF Due
  <2>4. rest' = Len(file) /\ written = <<>> /\ Len(written) = 0 /\ offset = 0
    <3>1. <<Len(file)>>[1] = Len(file)
      OBVIOUS
    <3>2. written = <<>>
      BY <1>2, <2>1 DEF Copied
    <3>3. offset = 0
      BY <1>2, <2>1, <2>3 DEF Turns
    <3> QED
      BY <2>1, <2>3, <3>1, <3>2, <3>3
  <2>5. Len(file) = 0 => file = <<>>
    BY <1>4
  <2>6. Replied' /\ Turns'
    BY <1>3, <2>1, <2>2, <2>3, <2>4 DEF Replied, Turns
  <2>7. Copied'
    <3>1. written' = SubSeq(file', 1, Len(written')) /\ Len(written') <= offset'
      BY <1>2, <1>3, <2>1 DEF Copied
    <3>2. CASE Len(file) = 0
      BY <1>3, <2>1, <2>2, <2>4, <2>5, <3>1, <3>2 DEF Copied
    <3>3. CASE Len(file) # 0
      BY <1>3, <1>4, <2>1, <2>2, <2>4, <3>1, <3>3 DEF Copied
    <3> QED
      BY <3>2, <3>3
  <2> QED
    BY <1>7, <2>6, <2>7 DEF Copying
<1>10. CASE ReceiveBlock
  <2> DEFINE b == Head(inbox["recv"])
  <2>1. /\ pc["recv"] = "copy" /\ rest' = rest - Len(b) /\ written' = written \o b
        /\ pc' = [pc EXCEPT !["recv"] = IF rest' = 0 THEN "done" ELSE "copy"]
    BY <1>10 DEF ReceiveBlock, Goto, EndsAt
  <2>2. pc'["recv"] = (IF rest' = 0 THEN "done" ELSE "copy") /\ pc'["send"] = pc["send"]
    BY <1>1, <2>1 DEF TypeOK, Ends
  <2>3. /\ pc["send"] = "copy" /\ Len(written) < offset
        /\ b = SubSeq(file, Len(written) + 1, offset)
    BY <1>6, <2>1 DEF Due
  <2> HIDE DEF b
  <2>4. Len(b) = offset - Len(written) /\ rest = Len(file) - Len(written)
    BY <1>1, <1>2, <1>4, <2>1, <2>3, Part DEF Copied
  <2>5. written' = SubSeq(file, 1, offset)
    <3>1. written = SubSeq(file, 1, Len(written))
      BY <1>2 DEF Copied
    <3>2. SubSeq(file, 1, Len(written)) \o SubSeq(file, Len(written) + 1, offset)
            = SubSeq(file, 1, offset)
      <4>1. Len(written) <= offset /\ offset <= Len(file)
        BY <1>1, <1>4, <2>3
      <4> QED
        BY <1>4, <4>1, PrefixGrows, Zenon
    <3> QED
      BY <2>1, <2>3, <3>1, <3>2
  <2>6. Len(written') = offset
    <3>1. SubSeq(file, 0 + 1, offset) = SubSeq(file, 1, offset)
      OBVIOUS
    <3>2. Len(SubSeq(file, 0 + 1, offset)) = offset - 0
      BY <1>1, <1>4, Part
    <3> QED
      BY <1>4, <2>5, <3>1, <3>2
  <2>7. rest' = Len(file) - offset
    BY <1>4, <2>1, <2>3, <2>4
  <2>8. offset = Len(file) => written' = file
    BY <1>4, <2>5, PrefixOfAll
  <2>9. Replied' /\ Turns'
    BY <1>3, <2>2, <2>3, <2>6 DEF Replied, Turns
  <2>10. Copied'
    <3>1. written' = SubSeq(file', 1, Len(written')) /\ Len(written') <= offset'
      BY <1>3, <1>4, <2>5, <2>6
    <3>2. CASE offset = Len(file)
      BY <1>3, <1>4, <2>2, <2>7, <2>8, <3>1, <3>2 DEF Copied
    <3>3. CASE offset # Len(file)
      BY <1>1, <1>3, <1>4, <2>2, <2>6, <2>7, <3>1, <3>3 DEF Copied
    <3> QED
      BY <3>2, <3>3
  <2> QED
    BY <1>7, <2>9, <2>10 DEF Copying
<1> QED
  BY <1>8, <1>9, <1>10

LEMMA CopyingKeeps == Inv /\ Copying /\ [Next]_vars => Copying'
<1> SUFFICES ASSUME Inv, Copying, [Next]_vars
             PROVE  Copying'
  OBVIOUS
<1>1. lab' = lab /\ corrupt' = corrupt
  BY StepKeepsLab
<1>2. CASE ~(lab = "Lab2" /\ ~corrupt)
  BY <1>1, <1>2 DEF Copying
<1>3. CASE lab = "Lab2" /\ ~corrupt
  <2>1. Places
    BY DEF Inv, Shape
  <2>2. ~BackupSendStep /\ ~BackupRecvStep
    BY <1>3, <2>1 DEF BackupSendStep, SendFileName, SendDatagram, SendFinish,
                      BackupRecvStep, Bind, TakeName, Write, Places
  <2>3. ~WindowSendStep /\ ~WindowRecvStep
    BY <1>3, <2>1 DEF WindowSendStep, StartWindow, SendNext, AwaitSpace, Drain,
                      WindowRecvStep, StartCheck, CheckAndAck, Places
  <2> QED
    BY <1>3, <2>2, <2>3, CopyingLink, CopyingStart, CopyingSend, CopyingReceive
       DEF Next, SendStep, RecvStep, FileSendStep, FileRecvStep
<1> QED
  BY <1>2, <1>3
-----------------------------------------------------------------------------
(* Lab6: the blocks of a file *)

\* Induction: a set that holds a, and with a number the next, holds all up to b.
LEMMA Climbs ==
    ASSUME NEW a \in Nat, NEW b \in Nat, NEW S, a \in S,
           \A n \in a..b : n \in S /\ n < b => n + 1 \in S
    PROVE  \A n \in a..b : n \in S
<1> DEFINE Missing == {n \in a..b : n \notin S}
<1> SUFFICES ASSUME Missing # {}
             PROVE  FALSE
  OBVIOUS
<1>1. PICK x \in Missing : \A y \in Missing : x <= y
  <2>1. Missing \in SUBSET Nat
    OBVIOUS
  <2> QED
    BY <2>1, MinIsIn
<1>2. x # a /\ x - 1 \in a..b /\ x - 1 < b
  OBVIOUS
<1>3. x - 1 \in S
  BY <1>1, <1>2
<1> QED
  BY <1>2, <1>3

\* What FlattenSeq makes of a sequence of messages, one after the other.
Joins(flat, seqs) ==
    /\ flat \in [1..Len(seqs) -> Message]
    /\ flat[1] = seqs[1]
    /\ \A k \in 2..Len(seqs) : flat[k] = flat[k - 1] \o seqs[k]

LEMMA CanBeJoined ==
    ASSUME NEW seqs \in Seq(Message), Len(seqs) > 0
    PROVE  \E flat : Joins(flat, seqs)
<1> DEFINE Joined(g, m) == /\ g \in [1..m -> Message] /\ g[1] = seqs[1]
                         /\ \A k \in 2..m : g[k] = g[k - 1] \o seqs[k]
           S == {m \in 1..Len(seqs) : \E g : Joined(g, m)}
<1>1. Len(seqs) \in Nat /\ \A k \in 1..Len(seqs) : seqs[k] \in Message
  OBVIOUS
<1>2. 1 \in S
  <2> DEFINE g == [k \in 1..1 |-> seqs[1]]
  <2>1. g \in [1..1 -> Message] /\ g[1] = seqs[1] /\ \A k \in 2..1 : FALSE
    BY <1>1
  <2>2. Joined(g, 1)
    BY <2>1
  <2>3. 1 \in 1..Len(seqs)
    BY <1>1
  <2> QED
    BY <2>2, <2>3
<1>3. ASSUME NEW m \in 1..Len(seqs), m \in S, m < Len(seqs)
      PROVE  m + 1 \in S
  <2>1. PICK g : Joined(g, m)
    BY <1>3
  <2> DEFINE e == g[m] \o seqs[m + 1]
             h == [k \in 1..m + 1 |-> IF k = m + 1 THEN e ELSE g[k]]
  <2>2. m + 1 \in 1..Len(seqs) /\ m \in Nat /\ m \in 1..m
    BY <1>1, <1>3
  <2>3. e \in Message
    <3>1. g[m] \in Message /\ seqs[m + 1] \in Message
      BY <1>1, <2>1, <2>2
    <3> QED
      BY <3>1, ConcatStays DEF Message
  <2>3a. e = g[m] \o seqs[m + 1]
    OBVIOUS
  <2> HIDE DEF e
  <2>4. h \in [1..m + 1 -> Message]
    <3>1. \A k \in 1..m + 1 : k # m + 1 => g[k] \in Message
      BY <2>1, <2>2
    <3> QED
      BY <2>3, <3>1
  <2>5. h[m + 1] = e /\ \A k \in 1..m : h[k] = g[k]
    BY <2>2
  <2> HIDE DEF h
  <2>6. h[1] = seqs[1]
    <3>1. 1 \in 1..m
      BY <2>2
    <3> QED
      BY <2>1, <2>5, <3>1
  <2>7. ASSUME NEW k \in 2..m + 1
        PROVE  h[k] = h[k - 1] \o seqs[k]
    <3>1. CASE k = m + 1
      <4>1. k - 1 = m
        BY <2>2, <3>1
      <4> QED
        BY <2>2, <2>3a, <2>5, <3>1, <4>1
    <3>2. CASE k # m + 1
      <4>1. k \in 2..m /\ k \in 1..m /\ k - 1 \in 1..m
        BY <2>2, <3>2
      <4> QED
        BY <2>1, <2>5, <4>1
    <3> QED
      BY <3>1, <3>2
  <2>8. Joined(h, m + 1)
    BY <2>4, <2>6, <2>7
  <2> QED
    BY <2>2, <2>8
<1>4. Len(seqs) \in S
  <2> HIDE DEF S
  <2>1. \A n \in 1..Len(seqs) : n \in S
    BY <1>1, <1>2, <1>3, Climbs
  <2> QED
    BY <1>1, <2>1
<1> QED
  BY <1>4 DEF Joins

LEMMA Flattened ==
    ASSUME NEW seqs \in Seq(Message), Len(seqs) > 0
    PROVE  \E flat : Joins(flat, seqs) /\ FlattenSeq(seqs) = flat[Len(seqs)]
<1> DEFINE Next1(f) == [k \in 1..Len(seqs) |-> IF k = 1 THEN seqs[k] ELSE f[k - 1] \o seqs[k]]
           c == CHOOSE f : f = Next1(f)
<1>1. Len(seqs) \in Nat /\ \A k \in 1..Len(seqs) : seqs[k] \in Message
  OBVIOUS
<1>2. FlattenSeq(seqs) = c[Len(seqs)]
  BY DEF FlattenSeq
<1>3. \E f : f = Next1(f)
  <2>1. PICK g : Joins(g, seqs)
    BY CanBeJoined
  <2>2. ASSUME NEW k \in 1..Len(seqs)
        PROVE  g[k] = IF k = 1 THEN seqs[k] ELSE g[k - 1] \o seqs[k]
    <3>1. CASE k = 1
      BY <2>1, <3>1 DEF Joins
    <3>2. CASE k # 1
      <4>1. k \in 2..Len(seqs)
        BY <3>2
      <4> QED
        BY <2>1, <3>2, <4>1 DEF Joins
    <3> QED
      BY <3>1, <3>2
  <2>3. g = [k \in 1..Len(seqs) |-> g[k]]
    BY <2>1 DEF Joins
  <2>4. g = Next1(g)
    BY <2>2, <2>3, Zenon
  <2> QED
    BY <2>4
<1>4. c = Next1(c)
  BY <1>3
<1> HIDE DEF c
<1>5. \A k \in 1..Len(seqs) : c[k] = IF k = 1 THEN seqs[k] ELSE c[k - 1] \o seqs[k]
  BY <1>4
<1> DEFINE S == {k \in 1..Len(seqs) : c[k] \in Message}
<1>6. 1 \in S
  BY <1>1, <1>5
<1>7. ASSUME NEW k \in 1..Len(seqs), k \in S, k < Len(seqs)
      PROVE  k + 1 \in S
  <2>1. k + 1 \in 1..Len(seqs) /\ k + 1 # 1 /\ (k + 1) - 1 = k
    BY <1>1, <1>7
  <2>2. c[k + 1] = c[k] \o seqs[k + 1]
    BY <1>5, <2>1
  <2>3. c[k] \in Message /\ seqs[k + 1] \in Message
    BY <1>1, <1>7, <2>1
  <2> QED
    BY <2>1, <2>2, <2>3, ConcatStays DEF Message
<1>8. \A k \in 1..Len(seqs) : c[k] \in Message
  <2>1. \A k \in 1..Len(seqs) : k \in S
    <3> HIDE DEF S
    <3> QED
      BY <1>1, <1>6, <1>7, Climbs
  <2> QED
    BY <2>1
<1>9. c \in [1..Len(seqs) -> Message]
  BY <1>4, <1>8
<1>10. c[1] = seqs[1] /\ \A k \in 2..Len(seqs) : c[k] = c[k - 1] \o seqs[k]
  <2>1. 1 \in 1..Len(seqs) /\ \A k \in 2..Len(seqs) : k \in 1..Len(seqs) /\ k # 1
    BY <1>1
  <2> QED
    BY <1>5, <2>1
<1> QED
  BY <1>2, <1>9, <1>10 DEF Joins

LEMMA Ceiling ==
    ASSUME NEW l \in Nat, NEW m \in Nat \ {0}
    PROVE  /\ (l + m - 1) \div m \in Nat
           /\ ((l + m - 1) \div m) * m >= l
           /\ ((l + m - 1) \div m) * m < l + m
<1> DEFINE n == l + m - 1
<1>1. n \in Nat /\ n \div m \in Nat /\ n % m \in 0..m - 1 /\ n = m * (n \div m) + (n % m)
  OBVIOUS
<1> DEFINE q == n \div m
           r == n % m
<1>2. q \in Nat /\ r \in 0..m - 1 /\ l + m - 1 = m * q + r
  BY <1>1
<1> HIDE DEF q, r
<1>3. q * m = m * q
  BY <1>2
<1>4. q * m >= l /\ q * m < l + m
  BY <1>2, <1>3
<1> QED
  BY <1>2, <1>4 DEF q

\* A block is a part of the file that is not empty, and begins where the one
\* before it ends.
LEMMA BlockFacts ==
    ASSUME TypeOK
    PROVE  /\ Blocks \in Nat
           /\ Blocks * (MAX_LEN - 1) >= Len(file)
           /\ Len(file) = 0 => Blocks = 0
           /\ \A k \in 1..Blocks :
                \E a, b \in Nat :
                  /\ a = (k - 1) * (MAX_LEN - 1) /\ b = Min({k * (MAX_LEN - 1), Len(file)})
                  /\ a < b /\ b <= Len(file)
                  /\ b = Len(file) \/ b = k * (MAX_LEN - 1)
                  /\ BlockAt(k) = SubSeq(file, a + 1, b)
                  /\ BlockAt(k) \in Message
<1> DEFINE l == Len(file)
           m == MAX_LEN - 1
           B == Blocks
<1>1. file \in Seq(Int) /\ l \in Nat /\ m \in Nat \ {0} /\ MAX_LEN \in Nat
  BY FileAssumption DEF TypeOK, Message
<1>2. B = (l + m - 1) \div m
  <2>1. Len(file) + MAX_LEN - 2 = l + m - 1
    BY <1>1
  <2> QED
    BY <2>1 DEF Blocks
<1>3. \A k : BlockAt(k) = SubSeq(file, (k - 1) * m + 1, Min({k * m, l}))
  BY DEF BlockAt
<1> HIDE DEF l, m, B
<1>4. B \in Nat /\ B * m >= l /\ B * m < l + m
  BY <1>1, <1>2, Ceiling
<1>5. l = 0 => B = 0
  <2> SUFFICES ASSUME l = 0, B >= 1
               PROVE  FALSE
    BY <1>4
  <2>1. B * m >= m
    <3>1. PICK c \in Nat : B = c + 1
      <4>1. B - 1 \in Nat /\ B = (B - 1) + 1
        BY <1>4
      <4> QED
        BY <4>1
    <3>2. c * m \in Nat /\ (c + 1) * m = c * m + m
      BY <1>1
    <3> QED
      BY <1>1, <3>1, <3>2
  <2> QED
    BY <1>1, <1>4, <2>1
<1>6. ASSUME NEW k \in 1..B
      PROVE  \E a, b \in Nat :
               /\ a = (k - 1) * m /\ b = Min({k * m, l}) /\ a < b /\ b <= l
               /\ b = l \/ b = k * m
               /\ BlockAt(k) = SubSeq(file, a + 1, b) /\ BlockAt(k) \in Message
  <2>1. PICK c \in Nat, d \in Nat : k = c + 1 /\ B = k + d
    <3>1. k - 1 \in Nat /\ B - k \in Nat /\ k = (k - 1) + 1 /\ B = k + (B - k)
      BY <1>4
    <3> QED
      BY <3>1
  <2> DEFINE a == c * m
             b == IF a + m <= l THEN a + m ELSE l
  <2>2. a \in Nat /\ (k - 1) * m = a /\ k * m = a + m
    <3>1. c * m \in Nat /\ (c + 1) * m = c * m + m
      BY <1>1
    <3>2. k - 1 = c
      BY <2>1
    <3> QED
      BY <2>1, <3>1, <3>2
  <2>3. a < l
    <3>1. d * m \in Nat /\ (k + d) * m = k * m + d * m
      BY <1>1, <1>4
    <3>2. B * m = a + m + d * m
      BY <2>1, <2>2, <3>1
    <3> HIDE DEF a
    <3> DEFINE e == d * m
    <3>3. e \in Nat /\ a + m + e < l + m
      BY <1>4, <3>1, <3>2
    <3> HIDE DEF e
    <3> QED
      BY <1>1, <2>2, <3>3
  <2> HIDE DEF a
  <2>4. b \in Nat /\ a < b /\ b <= l /\ (b = l \/ b = k * m)
    BY <1>1, <2>2, <2>3
  <2>5. Min({k * m, l}) = b
    <3>1. k * m \in Int /\ l \in Int
      BY <1>1, <2>2
    <3>2. Min({k * m, l}) = IF k * m <= l THEN k * m ELSE l
      BY <3>1, MinOfTwo, Zenon
    <3> QED
      BY <2>2, <3>2
  <2> HIDE DEF b
  <2>6. BlockAt(k) = SubSeq(file, a + 1, b)
    BY <1>3, <2>2, <2>5
  <2>7. SubSeq(file, a + 1, b) \in Seq(Int)
    BY <1>1, <2>2, <2>4, Part DEF l
  <2>8. BlockAt(k) \in Message
    BY <2>6, <2>7 DEF Message
  <2> QED
    BY <2>2, <2>4, <2>5, <2>6, <2>8
<1> QED
  BY <1>4, <1>5, <1>6, Zenon DEF l, m, B

\* A block is kept or not.
Piece(kept, k) == IF k \in kept THEN CString(BlockAt(k)) ELSE <<>>

LEMMA Pieces ==
    ASSUME TypeOK, NEW kept \in SUBSET (1..Blocks)
    PROVE  /\ Blocks = 0 => WithBlocks(kept) = <<>>
           /\ Blocks > 0 =>
                \E flat \in [1..Blocks -> Message] :
                  /\ WithBlocks(kept) = flat[Blocks]
                  /\ flat[1] = Piece(kept, 1)
                  /\ \A k \in 2..Blocks : flat[k] = flat[k - 1] \o Piece(kept, k)
<1> DEFINE seqs == [k \in 1..Blocks |-> IF k \in kept THEN CString(BlockAt(k)) ELSE <<>>]
<1>1. Blocks \in Nat /\ \A k \in 1..Blocks : CString(BlockAt(k)) \in Message
  BY BlockFacts, CStringIsMessage
<1>2. \A k \in 1..Blocks : Piece(kept, k) \in Message
  <2>1. <<>> \in Message
    BY DEF Message
  <2> QED
    BY <1>1, <2>1 DEF Piece
<1>3. seqs = [k \in 1..Blocks |-> Piece(kept, k)]
  BY DEF Piece
<1>4. seqs \in Seq(Message) /\ Len(seqs) = Blocks /\ \A k \in 1..Blocks : seqs[k] = Piece(kept, k)
  BY <1>1, <1>2, <1>3
<1>5. WithBlocks(kept) = FlattenSeq(seqs)
  BY DEF WithBlocks
<1> HIDE DEF seqs
<1>6. CASE Blocks = 0
  <2>1. seqs = <<>> /\ Len(seqs) = 0
    BY <1>4, <1>6
  <2>2. FlattenSeq(seqs) = seqs
    BY <2>1 DEF FlattenSeq
  <2> QED
    BY <1>5, <1>6, <2>1, <2>2
<1>7. CASE Blocks > 0
  <2>1. PICK flat : Joins(flat, seqs) /\ FlattenSeq(seqs) = flat[Len(seqs)]
    BY <1>4, <1>7, Flattened
  <2>2. flat \in [1..Blocks -> Message] /\ WithBlocks(kept) = flat[Blocks]
    BY <1>4, <1>5, <2>1 DEF Joins
  <2>3. 1 \in 1..Blocks /\ \A k \in 2..Blocks : k \in 1..Blocks
    BY <1>1, <1>7
  <2>4. flat[1] = seqs[1] /\ \A k \in 2..Blocks : flat[k] = flat[k - 1] \o seqs[k]
    BY <1>4, <2>1 DEF Joins
  <2>5. flat[1] = Piece(kept, 1)
    BY <1>4, <2>3, <2>4
  <2>6. ASSUME NEW k \in 2..Blocks
        PROVE  flat[k] = flat[k - 1] \o Piece(kept, k)
    <3>1. seqs[k] = Piece(kept, k)
      BY <1>4, <2>3
    <3> QED
      BY <2>4, <3>1, Zenon
  <2> QED
    <3>1. \E f \in [1..Blocks -> Message] :
            /\ WithBlocks(kept) = f[Blocks] /\ f[1] = Piece(kept, 1)
            /\ \A k \in 2..Blocks : f[k] = f[k - 1] \o Piece(kept, k)
      BY <2>2, <2>5, <2>6, Zenon
    <3>2. Blocks # 0
      BY <1>7
    <3> QED
      BY <3>1, <3>2
<1> QED
  BY <1>1, <1>6, <1>7

LEMMA NoBlocks ==
    ASSUME TypeOK
    PROVE  WithBlocks({}) = <<>>
<1>1. Blocks \in Nat /\ {} \in SUBSET (1..Blocks)
  BY BlockFacts
<1>2. CASE Blocks = 0
  BY <1>1, <1>2, Pieces
<1>3. CASE Blocks > 0
  <2>1. PICK flat \in [1..Blocks -> Message] :
          /\ WithBlocks({}) = flat[Blocks] /\ flat[1] = Piece({}, 1)
          /\ \A k \in 2..Blocks : flat[k] = flat[k - 1] \o Piece({}, k)
    BY <1>1, <1>3, Pieces
  <2>1a. \A k : Piece({}, k) = <<>>
    BY DEF Piece
  <2>1b. flat[1] = <<>> /\ \A k \in 2..Blocks : flat[k] = flat[k - 1] \o <<>>
    BY <2>1, <2>1a, Zenon
  <2> DEFINE S == {k \in 1..Blocks : flat[k] = <<>>}
  <2>2. 1 \in S
    BY <1>1, <1>3, <2>1b
  <2>3. ASSUME NEW k \in 1..Blocks, k \in S, k < Blocks
        PROVE  k + 1 \in S
    <3>1. k + 1 \in 2..Blocks /\ (k + 1) - 1 = k /\ k + 1 \in 1..Blocks
      BY <1>1, <2>3
    <3>2. flat[k + 1] = <<>> \o <<>>
      BY <2>1b, <2>3, <3>1
    <3>3. <<>> \o <<>> = <<>>
      BY ConcatEmptySeq, EmptySeq
    <3> QED
      BY <3>1, <3>2, <3>3
  <2>4. Blocks \in S
    <3> HIDE DEF S
    <3>1. \A k \in 1..Blocks : k \in S
      BY <1>1, <2>2, <2>3, Climbs
    <3> QED
      BY <1>1, <1>3, <3>1
  <2> QED
    BY <2>1, <2>4
<1> QED
  BY <1>1, <1>2, <1>3

\* A block behind those kept is added at the end.
LEMMA OneMore ==
    ASSUME TypeOK, NEW k \in 1..Blocks, NEW kept \in SUBSET (1..Blocks), \A n \in kept : n < k
    PROVE  WithBlocks(kept \cup {k}) = WithBlocks(kept) \o CString(BlockAt(k))
<1>1. Blocks \in Nat /\ Blocks > 0 /\ CString(BlockAt(k)) \in Message
  <2>1. Blocks \in Nat /\ CString(BlockAt(k)) \in Message
    BY BlockFacts, CStringIsMessage
  <2> QED
    BY <2>1
<1> DEFINE all == kept \cup {k}
           block == CString(BlockAt(k))
<1>2. PICK flat \in [1..Blocks -> Message] :
        /\ WithBlocks(kept) = flat[Blocks] /\ flat[1] = Piece(kept, 1)
        /\ \A n \in 2..Blocks : flat[n] = flat[n - 1] \o Piece(kept, n)
  BY <1>1, Pieces
<1>3. PICK more \in [1..Blocks -> Message] :
        /\ WithBlocks(all) = more[Blocks] /\ more[1] = Piece(all, 1)
        /\ \A n \in 2..Blocks : more[n] = more[n - 1] \o Piece(all, n)
  <2>1. all \in SUBSET (1..Blocks)
    OBVIOUS
  <2> QED
    BY <1>1, <2>1, Pieces
<1>4. \A n \in 1..Blocks :
        /\ n < k => Piece(all, n) = Piece(kept, n)
        /\ n = k => Piece(all, n) = block /\ Piece(kept, n) = <<>>
        /\ n > k => Piece(all, n) = <<>> /\ Piece(kept, n) = <<>>
  BY DEF Piece
<1> HIDE DEF all, block
<1>5. \A x \in Message : x \o <<>> = x /\ <<>> \o x = x
  BY ConcatEmptySeq DEF Message
<1>6. <<>> \in Message
  BY DEF Message
<1> DEFINE Right(n) == \/ n < k /\ more[n] = flat[n]
                       \/ ~(n < k) /\ more[n] = flat[n] \o block
           S == {n \in 1..Blocks : Right(n)}
<1>6a. k \in Nat /\ block \in Message
  BY <1>1 DEF block
<1> HIDE DEF Right
<1>7. 1 \in S
  <2>1. 1 \in 1..Blocks
    BY <1>1
  <2>2. CASE 1 < k
    <3>1. Piece(all, 1) = Piece(kept, 1)
      BY <1>4, <2>1, <2>2
    <3>2. more[1] = flat[1]
      BY <1>2, <1>3, <3>1
    <3>3. Right(1)
      BY <2>2, <3>2, Zenon DEF Right
    <3> QED
      BY <2>1, <3>3
  <2>3. CASE k = 1
    <3>1. Piece(all, 1) = block /\ Piece(kept, 1) = <<>> /\ ~(1 < k)
      BY <1>4, <2>1, <2>3
    <3>2. <<>> \o block = block
      BY <1>5, <1>6a
    <3>3. Right(1)
      BY <1>2, <1>3, <3>1, <3>2, Zenon DEF Right
    <3> QED
      BY <2>1, <3>3
  <2> QED
    BY <2>2, <2>3
<1>8. ASSUME NEW n \in 1..Blocks, n \in S, n < Blocks
      PROVE  n + 1 \in S
  <2>1. n + 1 \in 2..Blocks /\ n + 1 \in 1..Blocks /\ (n + 1) - 1 = n /\ n \in Nat
    BY <1>1, <1>8
  <2>2. /\ flat[n + 1] = flat[n] \o Piece(kept, n + 1)
        /\ more[n + 1] = more[n] \o Piece(all, n + 1)
    BY <1>2, <1>3, <2>1, Zenon
  <2>3. flat[n] \in Message /\ flat[n] \o block \in Message
    <3>1. flat[n] \in Message
      BY <1>2
    <3>2. flat[n] \in Seq(Int) /\ block \in Seq(Int)
      BY <1>6a, <3>1 DEF Message
    <3> QED
      BY <3>1, <3>2, ConcatStays DEF Message
  <2>4. Right(n)
    BY <1>8
  <2>5. CASE n + 1 < k
    <3>1. Piece(all, n + 1) = Piece(kept, n + 1) /\ n < k
      BY <1>4, <1>6a, <2>1, <2>5
    <3>2. more[n] = flat[n]
      BY <2>4, <3>1, Zenon DEF Right
    <3>3. more[n + 1] = flat[n + 1]
      BY <2>2, <3>1, <3>2, Zenon
    <3>4. Right(n + 1)
      BY <2>5, <3>3, Zenon DEF Right
    <3> QED
      BY <2>1, <3>4
  <2>6. CASE n + 1 = k
    <3>1. Piece(all, n + 1) = block /\ Piece(kept, n + 1) = <<>> /\ n < k /\ ~(n + 1 < k)
      BY <1>4, <1>6a, <2>1, <2>6
    <3>2. flat[n + 1] = flat[n]
      BY <1>5, <2>2, <2>3, <3>1, Zenon
    <3>3. Right(n + 1)
      BY <2>2, <2>4, <3>1, <3>2, Zenon DEF Right
    <3> QED
      BY <2>1, <3>3
  <2>7. CASE n + 1 > k
    <3>1. Piece(all, n + 1) = <<>> /\ Piece(kept, n + 1) = <<>> /\ ~(n < k) /\ ~(n + 1 < k)
      BY <1>4, <1>6a, <2>1, <2>7
    <3>2. flat[n + 1] = flat[n] /\ more[n] = flat[n] \o block
      BY <1>5, <2>2, <2>3, <2>4, <3>1, Zenon DEF Right
    <3>3. more[n + 1] = flat[n] \o block
      BY <1>5, <2>2, <2>3, <3>1, <3>2, Zenon
    <3>4. Right(n + 1)
      BY <3>1, <3>2, <3>3, Zenon DEF Right
    <3> QED
      BY <2>1, <3>4
  <2> QED
    BY <1>6a, <2>1, <2>5, <2>6, <2>7
<1>9. Blocks \in S
  <2> HIDE DEF S
  <2>1. \A n \in 1..Blocks : n \in S
    BY <1>1, <1>7, <1>8, Climbs
  <2> QED
    BY <1>1, <2>1
<1>10. ~(Blocks < k)
  BY <1>1
<1>11. more[Blocks] = flat[Blocks] \o block
  BY <1>9, <1>10, Zenon DEF Right
<1> QED
  BY <1>2, <1>3, <1>11, Zenon DEF all, block

\* A block without zeros and without FINISH is written as it is.
LEMMA TakenAs ==
    ASSUME TypeOK, Plain
    PROVE  \A k \in 1..Blocks : CString(BlockAt(k)) = BlockAt(k) /\ ~Finished(BlockAt(k))
<1>1. \A m : (\A n \in 1..Len(m) : m[n] # 0) => CString(m) = m
  BY DEF CString
<1>2. ASSUME NEW k \in 1..Blocks
      PROVE  CString(BlockAt(k)) = BlockAt(k) /\ ~Finished(BlockAt(k))
  <2>1. PICK a, b \in Nat : a < b /\ b <= Len(file) /\ BlockAt(k) = SubSeq(file, a + 1, b)
    BY BlockFacts
  <2>2. file \in Seq(Int) /\ Len(file) \in Nat
    BY DEF TypeOK, Message
  <2> DEFINE s == BlockAt(k)
  <2>3. /\ s \in Seq(Int) /\ Len(s) = b - a
        /\ \A n \in 1..b - a : s[n] = file[a + n]
    BY <2>1, <2>2, Part
  <2> HIDE DEF s
  <2>4. \A n \in 1..Len(s) : s[n] # 0 /\ s[n] # -2
    <3> SUFFICES ASSUME NEW n \in 1..Len(s)
                 PROVE  s[n] # 0 /\ s[n] # -2
      OBVIOUS
    <3>1. a + n \in 1..Len(file) /\ s[n] = file[a + n]
      BY <2>1, <2>2, <2>3
    <3> QED
      BY <3>1 DEF Plain
  <2>5. CString(s) = s
    BY <1>1, <2>4
  <2>6. s # FINISH
    <3>1. 1 \in 1..Len(s)
      BY <2>1, <2>3
    <3>2. FINISH[1] = -2
      BY DEF FINISH
    <3> QED
      BY <2>4, <3>1, <3>2
  <2>7. ~Finished(s)
    BY <2>5, <2>6 DEF Finished
  <2> QED
    BY <2>5, <2>7 DEF s
<1> QED
  BY <1>2

\* All blocks are the file, if the server writes each as it is.
LEMMA AllBlocks ==
    ASSUME TypeOK, Plain
    PROVE  WithBlocks(1..Blocks) = file
<1> DEFINE m == MAX_LEN - 1
           end(k) == Min({k * m, Len(file)})
<1>1. /\ Blocks \in Nat /\ 1..Blocks \in SUBSET (1..Blocks)
      /\ Blocks * m >= Len(file) /\ (Len(file) = 0 => Blocks = 0)
  BY BlockFacts
<1>2. file \in Seq(Int) /\ Len(file) \in Nat /\ m \in Nat \ {0}
  BY FileAssumption DEF TypeOK, Message
<1>3. CASE Blocks = 0
  <2>1. WithBlocks(1..Blocks) = <<>>
    BY <1>1, <1>3, Pieces
  <2>2. 0 * m = 0
    BY <1>2
  <2>3. Len(file) = 0
    BY <1>1, <1>2, <1>3, <2>2
  <2> QED
    BY <1>2, <2>1, <2>3
<1>4. CASE Blocks > 0
  <2>1. PICK flat \in [1..Blocks -> Message] :
          /\ WithBlocks(1..Blocks) = flat[Blocks] /\ flat[1] = Piece(1..Blocks, 1)
          /\ \A k \in 2..Blocks : flat[k] = flat[k - 1] \o Piece(1..Blocks, k)
    BY <1>1, <1>4, Pieces
  <2>2. \A k \in 1..Blocks : Piece(1..Blocks, k) = BlockAt(k)
    BY TakenAs DEF Piece
  <2>3. \A k \in 1..Blocks : \E a \in Nat :
          /\ a = (k - 1) * m /\ a < end(k) /\ end(k) \in Nat /\ end(k) <= Len(file)
          /\ BlockAt(k) = SubSeq(file, a + 1, end(k))
          /\ end(k) = Len(file) \/ end(k) = k * m
    BY BlockFacts
  <2> HIDE DEF m
  <2> DEFINE S == {k \in 1..Blocks : flat[k] = SubSeq(file, 1, end(k))}
  <2>4. 1 \in S
    <3>1. 1 \in 1..Blocks /\ (1 - 1) * m = 0
      BY <1>1, <1>2, <1>4
    <3>2. BlockAt(1) = SubSeq(file, 0 + 1, end(1))
      BY <2>3, <3>1
    <3>3. SubSeq(file, 0 + 1, end(1)) = SubSeq(file, 1, end(1))
      OBVIOUS
    <3> QED
      BY <2>1, <2>2, <3>1, <3>2, <3>3
  <2>5. ASSUME NEW k \in 1..Blocks, k \in S, k < Blocks
        PROVE  k + 1 \in S
    <3>1. k + 1 \in 2..Blocks /\ k + 1 \in 1..Blocks /\ (k + 1) - 1 = k
      BY <1>1, <2>5
    <3>2. PICK a \in Nat :
            /\ a = k * m /\ a < end(k + 1) /\ end(k + 1) \in Nat /\ end(k + 1) <= Len(file)
            /\ BlockAt(k + 1) = SubSeq(file, a + 1, end(k + 1))
      BY <2>3, <3>1
    <3>3. end(k) = a
      <4>1. a \in Int /\ Len(file) \in Int /\ a <= Len(file)
        BY <1>2, <3>2
      <4>2. Min({a, Len(file)}) = IF a <= Len(file) THEN a ELSE Len(file)
        BY <4>1, MinOfTwo, Zenon
      <4> QED
        BY <3>2, <4>1, <4>2
    <3>4. flat[k + 1] = flat[k] \o BlockAt(k + 1)
      BY <2>1, <2>2, <3>1
    <3>5. flat[k] = SubSeq(file, 1, a)
      BY <2>5, <3>3
    <3> HIDE DEF end
    <3>6. SubSeq(file, 1, a) \o SubSeq(file, a + 1, end(k + 1)) = SubSeq(file, 1, end(k + 1))
      <4>1. a <= end(k + 1)
        BY <3>2
      <4> QED
        BY <1>2, <3>2, <4>1, PrefixGrows, Zenon
    <3> QED
      BY <3>1, <3>2, <3>4, <3>5, <3>6
  <2>6. Blocks \in S
    <3> HIDE DEF S
    <3>1. \A k \in 1..Blocks : k \in S
      BY <1>1, <2>4, <2>5, Climbs
    <3> QED
      BY <1>1, <1>4, <3>1
  <2>7. end(Blocks) = Len(file)
    <3>1. Blocks \in 1..Blocks
      BY <1>1, <1>4
    <3>2. /\ end(Blocks) <= Len(file) /\ end(Blocks) \in Nat
          /\ end(Blocks) = Len(file) \/ end(Blocks) = Blocks * m
      BY <2>3, <3>1
    <3> HIDE DEF end
    <3> QED
      BY <1>1, <1>2, <3>2 DEF m
  <2>8. SubSeq(file, 1, Len(file)) = file
    BY <1>2, PrefixOfAll
  <2> QED
    BY <2>1, <2>6, <2>7, <2>8
<1> QED
  BY <1>1, <1>3, <1>4
-----------------------------------------------------------------------------
(* Lab6: the server writes the blocks that arrive, in their order *)

LEMMA DatagramIs ==
    ASSUME TypeOK
    PROVE  \A k \in Nat : Datagram(k) \in Message
<1>1. Name \in Message /\ FINISH \in Message
  BY DEF Name, FINISH, Message
<1>2. Blocks \in Nat /\ \A k \in 1..Blocks : BlockAt(k) \in Message
  BY BlockFacts, Zenon
<1> QED
  BY <1>1, <1>2 DEF Datagram

\* They depend on the file alone.
LEMMA SameBlocks ==
    ASSUME file' = file
    PROVE  /\ Blocks' = Blocks /\ BeforeFinish' = BeforeFinish
           /\ \A k : BlockAt(k)' = BlockAt(k) /\ Datagram(k)' = Datagram(k)
           /\ \A kept : WithBlocks(kept)' = WithBlocks(kept)
<1>1. Blocks' = Blocks /\ \A k : BlockAt(k)' = BlockAt(k)
  BY DEF Blocks, BlockAt
<1>2. Readable' = Readable
  BY <1>1 DEF Readable
<1>3. BeforeFinish' = BeforeFinish
  BY <1>2 DEF BeforeFinish
<1>4. \A k : Datagram(k)' = Datagram(k)
  BY <1>1, Zenon DEF Datagram
<1>5. \A kept : WithBlocks(kept)' = WithBlocks(kept)
  BY <1>1, Zenon DEF WithBlocks
<1> QED
  BY <1>1, <1>3, <1>4, <1>5

LEMMA NumberedThen ==
    ASSUME file' = file, NEW f, NEW taken, NEW sent, NEW q, Numbered(f, q, taken, sent)
    PROVE  /\ q = inbox'["recv"] => Numbered(f, inbox["recv"], taken, sent)'
           /\ q = sock'["send"] => Numbered(f, sock["send"], taken, sent)'
  BY SameBlocks DEF Numbered

LEMMA NumberedMore ==
    ASSUME NEW f \in Seq(Nat), NEW q \in Seq(Message), NEW taken \in Nat, NEW sent \in Nat,
           Numbered(f, q, taken, sent), NEW k \in Nat, NEW m \in Message, m = Datagram(k),
           NEW then \in Nat, sent <= then, taken <= k, k < then, \A n \in 1..Len(f) : f[n] < k
    PROVE  Numbered(Append(f, k), Append(q, m), taken, then)
<1>1. /\ Len(f) \in Nat /\ Len(f) = Len(q)
      /\ \A n \in 1..Len(f) : f[n] \in Nat /\ taken <= f[n] /\ f[n] < sent /\ q[n] = Datagram(f[n])
      /\ \A n, l \in 1..Len(f) : n < l => f[n] < f[l]
  BY DEF Numbered
<1>2. /\ Len(Append(f, k)) = Len(f) + 1 /\ Append(f, k)[Len(f) + 1] = k
      /\ \A n \in 1..Len(f) : Append(f, k)[n] = f[n]
  BY AppendStays
<1>3. /\ Len(Append(q, m)) = Len(q) + 1 /\ Append(q, m)[Len(q) + 1] = m
      /\ \A n \in 1..Len(q) : Append(q, m)[n] = q[n]
  BY AppendStays
<1> DEFINE g == Append(f, k)
           r == Append(q, m)
<1> HIDE DEF g, r
<1>4. ASSUME NEW n \in 1..Len(g)
      PROVE  taken <= g[n] /\ g[n] < then /\ r[n] = Datagram(g[n])
  <2>1. CASE n = Len(f) + 1
    BY <1>1, <1>2, <1>3, <2>1 DEF g, r
  <2>2. CASE n \in 1..Len(f)
    <3>1. g[n] = f[n] /\ r[n] = q[n]
      BY <1>1, <1>2, <1>3, <2>2 DEF g, r
    <3> QED
      BY <1>1, <2>2, <3>1
  <2> QED
    BY <1>1, <1>2, <2>1, <2>2 DEF g
<1>5. ASSUME NEW n \in 1..Len(g), NEW l \in 1..Len(g), n < l
      PROVE  g[n] < g[l]
  <2>1. n \in 1..Len(f) /\ g[n] = f[n]
    BY <1>1, <1>2, <1>5 DEF g
  <2>2. CASE l = Len(f) + 1
    BY <1>2, <2>1, <2>2 DEF g
  <2>3. CASE l \in 1..Len(f)
    BY <1>1, <1>2, <1>5, <2>1, <2>3 DEF g
  <2> QED
    BY <1>1, <1>2, <2>2, <2>3 DEF g
<1>6. Len(g) = Len(r)
  BY <1>1, <1>2, <1>3 DEF g, r
<1> QED
  BY <1>4, <1>5, <1>6 DEF Numbered, g, r

LEMMA NumberedTail ==
    ASSUME NEW f \in Seq(Nat), NEW q \in Seq(Message), NEW taken \in Nat, NEW sent \in Nat,
           Numbered(f, q, taken, sent), q # <<>>, NEW then \in Nat, then <= f[1] + 1
    PROVE  /\ f # <<>> /\ Tail(f) \in Seq(Nat) /\ Head(f) = f[1]
           /\ 1 \in 1..Len(f) /\ f[1] \in Nat /\ q[1] = Datagram(f[1]) /\ Head(q) = q[1]
           /\ Numbered(Tail(f), Tail(q), then, sent)
<1>1. /\ Len(f) \in Nat /\ Len(f) = Len(q)
      /\ \A n \in 1..Len(f) : f[n] \in Nat /\ taken <= f[n] /\ f[n] < sent /\ q[n] = Datagram(f[n])
      /\ \A n, l \in 1..Len(f) : n < l => f[n] < f[l]
  BY DEF Numbered
<1>2. /\ Len(q) \in Nat \ {0} /\ Head(q) = q[1] /\ Len(Tail(q)) = Len(q) - 1
      /\ \A n \in 1..Len(q) - 1 : Tail(q)[n] = q[n + 1]
  BY HeadTailStay
<1>3. f # <<>> /\ 1 \in 1..Len(f)
  BY <1>1, <1>2
<1>4. /\ Head(f) = f[1] /\ Tail(f) \in Seq(Nat) /\ Len(Tail(f)) = Len(f) - 1
      /\ \A n \in 1..Len(f) - 1 : Tail(f)[n] = f[n + 1]
  BY <1>3, HeadTailStay
<1> DEFINE g == Tail(f)
           r == Tail(q)
<1> HIDE DEF g, r
<1>5. Len(g) = Len(f) - 1 /\ Len(r) = Len(f) - 1
  BY <1>1, <1>2, <1>4 DEF g, r
<1>6. ASSUME NEW n \in 1..Len(f) - 1
      PROVE  n + 1 \in 1..Len(f) /\ g[n] = f[n + 1] /\ r[n] = q[n + 1]
  BY <1>1, <1>2, <1>4 DEF g, r
<1>7. ASSUME NEW n \in 1..Len(g)
      PROVE  then <= g[n] /\ g[n] < sent /\ r[n] = Datagram(g[n])
  <2>1. n + 1 \in 1..Len(f) /\ g[n] = f[n + 1] /\ r[n] = q[n + 1] /\ 1 < n + 1
    BY <1>5, <1>6
  <2>2. f[1] < f[n + 1]
    BY <1>1, <1>3, <2>1
  <2> QED
    BY <1>1, <1>3, <2>1, <2>2
<1>8. ASSUME NEW n \in 1..Len(g), NEW l \in 1..Len(g), n < l
      PROVE  g[n] < g[l]
  <2>1. /\ n + 1 \in 1..Len(f) /\ l + 1 \in 1..Len(f) /\ n + 1 < l + 1
        /\ g[n] = f[n + 1] /\ g[l] = f[l + 1]
    BY <1>5, <1>6, <1>8
  <2> QED
    BY <1>1, <2>1
<1>9. Numbered(g, r, then, sent)
  BY <1>5, <1>7, <1>8 DEF Numbered
<1> QED
  BY <1>1, <1>2, <1>3, <1>4, <1>9 DEF g, r

\* What the sender is about to send.
LEMMA SenderIs ==
    ASSUME TypeOK, offset <= Len(file), pc["send"] = "blocks", NEW sent, Sender(sent)
    PROVE  /\ sent \in 1..Blocks + 1
           /\ Block # <<>> => /\ sent \in 1..Blocks /\ Block = Datagram(sent)
                              /\ offset + Len(Block) = Min({sent * (MAX_LEN - 1), Len(file)})
           /\ Block = <<>> => sent = Blocks + 1 /\ Datagram(sent) = FINISH
<1> DEFINE m == MAX_LEN - 1
           l == Len(file)
<1>1. /\ sent \in 1..Blocks + 1
      /\ offset = Min({(sent - 1) * m, l})
  BY DEF Sender
<1>2. file \in Seq(Int) /\ l \in Nat /\ m \in Nat \ {0} /\ offset \in Nat /\ MAX_LEN \in Nat
  BY FileAssumption DEF TypeOK, Message
<1>3. Blocks \in Nat /\ Blocks * m >= l
  BY BlockFacts
<1>4. /\ Block = SubSeq(file, offset + 1, offset + Len(Block))
      /\ Len(Block) = Min({m, l - offset})
      /\ offset + Len(Block) = l \/ Len(Block) > 0
      /\ Len(Block) \in Nat /\ offset + Len(Block) <= l
      /\ Block \in Seq(Int)
  <2>1. Block \in Message /\ offset + Len(Block) <= Len(file) /\ Len(Block) \in Nat
    BY BlockIsMessage
  <2> QED
    BY <2>1, BlockIs DEF Message
<1>5. Len(Block) = IF m <= l - offset THEN m ELSE l - offset
  <2>1. m \in Int /\ l - offset \in Int
    BY <1>2
  <2>2. Min({m, l - offset}) = IF m <= l - offset THEN m ELSE l - offset
    BY <2>1, MinOfTwo, Zenon
  <2> QED
    BY <1>4, <2>2
<1>6. CASE sent \in 1..Blocks
  <2>1. PICK a, b \in Nat :
          /\ a = (sent - 1) * m /\ b = Min({sent * m, l}) /\ a < b /\ b <= l
          /\ BlockAt(sent) = SubSeq(file, a + 1, b)
    BY <1>6, BlockFacts
  <2>2. offset = a
    <3>1. a \in Int /\ l \in Int
      BY <1>2
    <3>2. Min({a, l}) = IF a <= l THEN a ELSE l
      BY <3>1, MinOfTwo, Zenon
    <3> QED
      BY <1>1, <1>2, <2>1, <3>2
  <2>3. offset + Len(Block) = b
    <3>1. sent * m = a + m
      <4>1. PICK c \in Nat : sent = c + 1
        <5>1. sent - 1 \in Nat /\ sent = (sent - 1) + 1
          BY <1>3, <1>6
        <5> QED
          BY <5>1
      <4>2. (c + 1) * m = c * m + m
        BY <1>2
      <4>3. sent - 1 = c
        BY <4>1
      <4> QED
        BY <2>1, <4>1, <4>2, <4>3
    <3>2. a + m \in Int /\ l \in Int
      BY <1>2
    <3>3. Min({a + m, l}) = IF a + m <= l THEN a + m ELSE l
      BY <3>2, MinOfTwo, Zenon
    <3>4. b = IF a + m <= l THEN a + m ELSE l
      BY <2>1, <3>1, <3>3
    <3>5. a \in Nat /\ b \in Nat /\ l \in Nat /\ m \in Nat
      BY <1>2
    <3>6. Len(Block) = IF m <= l - a THEN m ELSE l - a
      BY <1>5, <2>2, Zenon
    <3> HIDE DEF m, l
    <3>7. a + Len(Block) = b
      BY <3>4, <3>5, <3>6
    <3> QED
      BY <2>2, <3>7
  <2>4. Block = BlockAt(sent)
    BY <1>4, <2>1, <2>2, <2>3
  <2>5. Len(Block) > 0
    BY <1>4, <2>1, <2>2, <2>3
  <2>6. Block # <<>>
    BY <2>5
  <2>7. Datagram(sent) = BlockAt(sent)
    BY <1>3, <1>6 DEF Datagram
  <2> QED
    BY <1>1, <1>6, <2>1, <2>3, <2>4, <2>6, <2>7
<1>7. CASE sent = Blocks + 1
  <2>1. sent - 1 = Blocks
    BY <1>3, <1>7
  <2>2. Blocks * m \in Int /\ l \in Int
    BY <1>2, <1>3
  <2>3. Min({Blocks * m, l}) = IF Blocks * m <= l THEN Blocks * m ELSE l
    BY <2>2, MinOfTwo, Zenon
  <2>4. offset = l
    BY <1>1, <1>2, <1>3, <2>1, <2>2, <2>3
  <2>5. Len(Block) = 0
    BY <1>2, <1>4, <2>4
  <2>6. Block = <<>>
    BY <1>4, <2>5
  <2>7. Datagram(sent) = FINISH
    BY <1>3, <1>7 DEF Datagram
  <2> QED
    BY <1>1, <1>7, <2>6, <2>7
<1> QED
  BY <1>1, <1>3, <1>6, <1>7

LEMMA FinishEnds == Finished(FINISH)
<1>1. \A n \in 1..Len(FINISH) : FINISH[n] # 0
  BY DEF FINISH
<1>2. CString(FINISH) = FINISH
  BY <1>1 DEF CString
<1> QED
  BY <1>2 DEF Finished

\* One choice of the numbers is enough, and the file stays.
LEMMA SavingThen ==
    ASSUME NEW taken \in Nat, NEW sent \in Nat, NEW kept \in SUBSET (1..Blocks),
           NEW f \in Seq(Nat), NEW g \in Seq(Nat), file' = file,
           Numbers(taken, sent, kept, f, g)'
    PROVE  Saving'
<1>1. kept \in SUBSET (1..Blocks')
  BY SameBlocks
<1> QED
  BY <1>1 DEF Saving

LEMMA SavingInit == Init => Saving
<1> SUFFICES ASSUME Init
             PROVE  Saving
  OBVIOUS
<1>1. TypeOK
  BY InitInv DEF Inv, Shape
<1>2. /\ pc["send"] = "off" /\ pc["recv"] = "off" /\ offset = 0 /\ written = <<>>
      /\ inbox["recv"] = <<>> /\ sock["send"] = <<>>
  BY DEF Init, LinkInit, FileInit, Ends
<1> DEFINE e == <<>>
<1>3. e \in Seq(Nat) /\ Len(e) = 0 /\ 1..0 = {}
  BY EmptySeq
<1>4. Numbered(e, <<>>, 0, 0)
  BY DEF Numbered
<1>5. Sender(0)
  BY <1>2 DEF Sender
<1>6. Taker(0, {})
  BY <1>1, <1>2, NoBlocks DEF Taker
<1>7. Complete(0, 0, {}, e, e)
  BY <1>2, <1>3 DEF Complete
<1> HIDE DEF e
<1>8. Numbers(0, 0, {}, e, e)
  BY <1>2, <1>3, <1>4, <1>5, <1>6, <1>7 DEF Numbers, e
<1>9. {} \in SUBSET (1..Blocks) /\ 0 \in Nat
  OBVIOUS
<1> QED
  BY <1>3, <1>8, <1>9 DEF Saving

\* client.c sends the next datagram.
LEMMA SavingSend ==
    ASSUME Inv, Saving, lab = "Lab6", BackupSendStep
    PROVE  Saving'
<1>1. TypeOK /\ offset <= Len(file) /\ "send" \in Ends /\ "recv" \in Ends
  BY DEF Inv, Shape, Ends
<1>2. PICK taken \in Nat, sent \in Nat, kept \in SUBSET (1..Blocks),
           f \in Seq(Nat), g \in Seq(Nat) :
        Numbers(taken, sent, kept, f, g)
  BY DEF Saving
<1>3. /\ Sender(sent) /\ Taker(taken, kept) /\ taken <= sent
      /\ Numbered(f, inbox["recv"], taken, sent) /\ Numbered(g, sock["send"], taken, sent)
      /\ \A n \in 1..Len(f) : \A m \in 1..Len(g) : f[n] < g[m]
      /\ lost = 0 => Complete(taken, sent, kept, f, g)
  BY <1>2 DEF Numbers
<1>4. UNCHANGED <<inbox, lost, file, written>> /\ pc'["recv"] = pc["recv"]
  BY <1>1 DEF BackupSendStep, SendFileName, SendDatagram, SendFinish, Goto, emulator, fileVars,
              TypeOK, Ends
<1>5. /\ Blocks \in Nat /\ Blocks' = Blocks /\ MAX_LEN \in Nat
      /\ \A k \in Nat : Datagram(k) \in Message
  BY <1>1, <1>4, BlockFacts, DatagramIs, SameBlocks, FileAssumption
<1>6. send_message("send", Datagram(sent)) /\ Sender(sent + 1)'
  <2>1. CASE SendFileName
    <3>1. /\ pc["send"] = "off" /\ send_message("send", Name) /\ offset' = offset
          /\ pc' = [pc EXCEPT !["send"] = "blocks"]
      BY <2>1 DEF SendFileName, Goto, fileVars
    <3>2. sent = 0 /\ offset = 0 /\ pc'["send"] = "blocks"
      BY <1>1, <1>3, <3>1 DEF Sender, TypeOK
    <3>3. Datagram(0) = Name
      BY DEF Datagram
    <3>4. Min({(1 - 1) * (MAX_LEN - 1), Len(file)}) = 0
      <4> DEFINE z == (1 - 1) * (MAX_LEN - 1)
      <4>1. Len(file) \in Nat /\ z = 0
        BY <1>1, <1>5 DEF TypeOK, Message
      <4> HIDE DEF z
      <4>2. z \in Int /\ Len(file) \in Int
        BY <4>1
      <4>3. Min({z, Len(file)}) = IF z <= Len(file) THEN z ELSE Len(file)
        BY <4>2, MinOfTwo, Zenon
      <4>4. Min({z, Len(file)}) = 0
        BY <4>1, <4>3
      <4> QED
        BY <4>4 DEF z
    <3>5. 1 \in 1..Blocks + 1 /\ sent + 1 = 1
      BY <1>5, <3>2
    <3>6. Sender(1)'
      BY <1>4, <1>5, <3>1, <3>2, <3>4, <3>5 DEF Sender
    <3> QED
      BY <3>1, <3>2, <3>3, <3>5, <3>6
  <2>2. CASE SendDatagram
    <3>1. /\ pc["send"] = "blocks" /\ Block # <<>> /\ send_message("send", Block)
          /\ offset' = offset + Len(Block) /\ pc' = pc
      BY <2>2 DEF SendDatagram
    <3>2. /\ sent \in 1..Blocks /\ Block = Datagram(sent)
          /\ offset + Len(Block) = Min({sent * (MAX_LEN - 1), Len(file)})
      BY <1>1, <1>3, <3>1, SenderIs
    <3>3. sent + 1 \in 1..Blocks + 1 /\ (sent + 1) - 1 = sent
      BY <1>5, <3>2
    <3>4. offset' = Min({((sent + 1) - 1) * (MAX_LEN - 1), Len(file)})
      BY <3>1, <3>2, <3>3
    <3>5. Sender(sent + 1)'
      BY <1>4, <1>5, <3>1, <3>3, <3>4 DEF Sender
    <3> QED
      BY <3>1, <3>2, <3>5
  <2>3. CASE SendFinish
    <3>1. /\ pc["send"] = "blocks" /\ Block = <<>> /\ send_message("send", FINISH)
          /\ pc' = [pc EXCEPT !["send"] = "done"]
      BY <2>3 DEF SendFinish, Goto
    <3>2. sent = Blocks + 1 /\ Datagram(sent) = FINISH
      BY <1>1, <1>3, <3>1, SenderIs
    <3>3. pc'["send"] = "done" /\ sent + 1 = Blocks + 2
      BY <1>1, <1>5, <3>1, <3>2 DEF TypeOK
    <3>4. Sender(sent + 1)'
      BY <1>5, <3>3 DEF Sender
    <3> QED
      BY <3>1, <3>2, <3>4
  <2> QED
    BY <2>1, <2>2, <2>3 DEF BackupSendStep
<1> DEFINE h == Append(g, sent)
<1>7. sock'["send"] = Append(sock["send"], Datagram(sent)) /\ sock["send"] \in Seq(Message)
  <2>1. sock \in [Ends -> Seq(Message)]
    BY <1>1 DEF TypeOK
  <2>2. sock'["send"] = sock["send"] \o <<Datagram(sent)>>
    BY <1>1, <1>6, <2>1 DEF send_message, SendAll
  <2>3. sock["send"] \in Seq(Message)
    BY <1>1, <2>1
  <2>4. Datagram(sent) \in Message
    BY <1>5
  <2> HIDE DEF Message
  <2>5. sock["send"] \o <<Datagram(sent)>> = Append(sock["send"], Datagram(sent))
    BY <2>3, <2>4, AppendIsConcat
  <2> QED
    BY <2>2, <2>3, <2>5
<1>8. /\ Len(g) \in Nat /\ Len(f) \in Nat /\ h \in Seq(Nat) /\ Len(h) = Len(g) + 1
      /\ h[Len(g) + 1] = sent /\ \A n \in 1..Len(g) : h[n] = g[n]
  BY AppendStays
<1>9. /\ \A n \in 1..Len(f) : f[n] \in Nat /\ f[n] < sent
      /\ \A n \in 1..Len(g) : g[n] \in Nat /\ g[n] < sent
  BY <1>3 DEF Numbered
<1>10. Numbered(h, sock'["send"], taken, sent + 1)
  <2>1. sent + 1 \in Nat /\ sent <= sent + 1 /\ sent < sent + 1 /\ Datagram(sent) \in Message
    BY <1>5
  <2> QED
    BY <1>3, <1>7, <1>9, <2>1, NumberedMore
<1>11. Numbered(f, inbox["recv"], taken, sent + 1)
  BY <1>3, <1>9 DEF Numbered
<1>12. Numbered(h, sock["send"], taken, sent + 1)' /\ Numbered(f, inbox["recv"], taken, sent + 1)'
  BY <1>4, <1>10, <1>11, NumberedThen
<1> HIDE DEF h
<1>13. \A n \in 1..Len(f) : \A m \in 1..Len(h) : f[n] < h[m]
  <2> SUFFICES ASSUME NEW n \in 1..Len(f), NEW m \in 1..Len(h)
               PROVE  f[n] < h[m]
    OBVIOUS
  <2>1. CASE m = Len(g) + 1
    BY <1>8, <1>9, <2>1
  <2>2. CASE m \in 1..Len(g)
    BY <1>3, <1>8, <2>2
  <2> QED
    BY <1>8, <2>1, <2>2
<1>14. Taker(taken, kept)'
  BY <1>3, <1>4, SameBlocks DEF Taker
<1>15. ASSUME lost' = 0
       PROVE  Complete(taken, sent + 1, kept, f, h)'
  <2>1. Complete(taken, sent, kept, f, g)
    BY <1>3, <1>4, <1>15
  <2>2. sent = taken + Len(f) + Len(g) /\ \A n \in 1..Len(g) : g[n] = taken + Len(f) + n - 1
    BY <2>1 DEF Complete
  <2>3. sent + 1 = taken + Len(f) + Len(h)
    BY <1>8, <2>2
  <2>4. ASSUME NEW n \in 1..Len(h)
        PROVE  h[n] = taken + Len(f) + n - 1
    <3>1. CASE n = Len(g) + 1
      BY <1>8, <2>2, <3>1
    <3>2. CASE n \in 1..Len(g)
      BY <1>8, <2>2, <3>2
    <3> QED
      BY <1>8, <3>1, <3>2
  <2> QED
    BY <1>4, <1>5, <2>1, <2>3, <2>4, SameBlocks DEF Complete
<1>16. sent + 1 \in Nat /\ taken <= sent + 1
  BY <1>3
<1>17. Numbers(taken, sent + 1, kept, f, h)'
  BY <1>6, <1>12, <1>13, <1>14, <1>15, <1>16 DEF Numbers
<1> QED
  BY <1>4, <1>8, <1>16, <1>17, SavingThen

\* A datagram is lost, or arrives.
LEMMA SavingCarry ==
    ASSUME Inv, Saving, lab = "Lab6", Carry, UNCHANGED fileVars
    PROVE  Saving'
<1>1. TypeOK /\ "send" \in Ends /\ "recv" \in Ends /\ lost \in Nat
  BY DEF Inv, Shape, Ends, TypeOK
<1>2. PICK taken \in Nat, sent \in Nat, kept \in SUBSET (1..Blocks),
           f \in Seq(Nat), g \in Seq(Nat) :
        Numbers(taken, sent, kept, f, g)
  BY DEF Saving
<1>3. /\ Sender(sent) /\ Taker(taken, kept) /\ taken <= sent
      /\ Numbered(f, inbox["recv"], taken, sent) /\ Numbered(g, sock["send"], taken, sent)
      /\ \A n \in 1..Len(f) : \A m \in 1..Len(g) : f[n] < g[m]
      /\ lost = 0 => Complete(taken, sent, kept, f, g)
  BY <1>2 DEF Numbers
<1>4. /\ UNCHANGED <<file, offset, written, pc>> /\ sock["send"] # <<>>
      /\ sock' = [sock EXCEPT !["send"] = Tail(sock["send"])]
      /\ \/ lost' = lost + 1 /\ inbox' = inbox
         \/ /\ inbox' = [inbox EXCEPT !["recv"] = Append(inbox["recv"], Head(sock["send"]))]
            /\ lost' = lost
  BY DEF Carry, fileVars
<1>5. /\ Blocks \in Nat /\ Blocks' = Blocks
      /\ \A k \in Nat : Datagram(k) \in Message
  BY <1>1, <1>4, BlockFacts, DatagramIs, SameBlocks
<1>6. /\ sock["send"] \in Seq(Message) /\ inbox["recv"] \in Seq(Message)
      /\ sock'["send"] = Tail(sock["send"])
  BY <1>1, <1>4 DEF TypeOK
<1> DEFINE h == Tail(g)
<1>7. Len(f) \in Nat /\ Len(g) \in Nat /\ taken <= g[1]
  BY <1>3, <1>4, <1>6 DEF Numbered
<1>8. /\ g # <<>> /\ h \in Seq(Nat) /\ 1 \in 1..Len(g) /\ g[1] \in Nat
      /\ Head(sock["send"]) = Datagram(g[1]) /\ Head(sock["send"]) \in Message
      /\ Numbered(h, sock'["send"], taken, sent)
  <2>1. taken <= g[1] + 1
    <3>1. Len(g) # 0
      BY <1>3, <1>4, <1>6 DEF Numbered
    <3>2. g[1] \in Nat
      BY <1>7, <3>1
    <3> QED
      BY <1>7, <3>2
  <2>2. /\ g # <<>> /\ h \in Seq(Nat) /\ 1 \in 1..Len(g) /\ g[1] \in Nat
        /\ Head(sock["send"]) = Datagram(g[1])
        /\ Numbered(h, Tail(sock["send"]), taken, sent)
    BY <1>3, <1>4, <1>6, <2>1, NumberedTail
  <2> QED
    BY <1>5, <1>6, <2>2
<1>9. Len(h) = Len(g) - 1 /\ \A n \in 1..Len(g) - 1 : h[n] = g[n + 1]
  BY <1>8, HeadTailStay
<1>10. /\ \A n \in 1..Len(g) : g[n] \in Nat /\ taken <= g[n] /\ g[n] < sent
       /\ \A n, m \in 1..Len(g) : n < m => g[n] < g[m]
  BY <1>3 DEF Numbered
<1> HIDE DEF h
<1>11. \A m \in 1..Len(h) : m + 1 \in 1..Len(g) /\ h[m] = g[m + 1] /\ 1 < m + 1
  BY <1>7, <1>9
<1>12. \A n \in 1..Len(f) : \A m \in 1..Len(h) : f[n] < h[m]
  BY <1>3, <1>11
<1>13. Sender(sent)'
  BY <1>3, <1>4, <1>5 DEF Sender
<1>14. Taker(taken, kept)'
  BY <1>3, <1>4, SameBlocks DEF Taker
<1>15. Numbered(h, sock["send"], taken, sent)'
  BY <1>4, <1>8, NumberedThen
<1>16. CASE lost' = lost + 1 /\ inbox' = inbox
  <2>1. lost' # 0
    BY <1>1, <1>16
  <2>2. Numbered(f, inbox["recv"], taken, sent)'
    BY <1>3, <1>4, <1>16, NumberedThen
  <2>3. Numbers(taken, sent, kept, f, h)'
    BY <1>3, <1>12, <1>13, <1>14, <1>15, <2>1, <2>2 DEF Numbers
  <2> QED
    BY <1>4, <1>8, <2>3, SavingThen
<1>17. CASE /\ inbox' = [inbox EXCEPT !["recv"] = Append(inbox["recv"], Head(sock["send"]))]
            /\ lost' = lost
  <2> DEFINE k == g[1]
             e == Append(f, k)
  <2>1. inbox'["recv"] = Append(inbox["recv"], Head(sock["send"]))
    BY <1>1, <1>17 DEF TypeOK
  <2>2. taken <= k /\ k < sent /\ k \in Nat /\ \A n \in 1..Len(f) : f[n] < k
    BY <1>3, <1>8, <1>10
  <2>3. /\ e \in Seq(Nat) /\ Len(e) = Len(f) + 1
        /\ e[Len(f) + 1] = k /\ \A n \in 1..Len(f) : e[n] = f[n]
    BY <1>8, AppendStays
  <2> HIDE DEF k
  <2>4. Head(sock["send"]) \in Message /\ Head(sock["send"]) = Datagram(k) /\ sent <= sent
    BY <1>8 DEF k
  <2>5. Numbered(e, Append(inbox["recv"], Head(sock["send"])), taken, sent)
    BY <1>3, <1>6, <2>2, <2>4, NumberedMore
  <2>6. Numbered(e, inbox["recv"], taken, sent)'
    BY <1>4, <2>1, <2>5, NumberedThen
  <2> HIDE DEF e
  <2>7. \A m \in 1..Len(h) : k < h[m]
    BY <1>8, <1>10, <1>11 DEF k
  <2>8. \A n \in 1..Len(e) : \A m \in 1..Len(h) : e[n] < h[m]
    <3> SUFFICES ASSUME NEW n \in 1..Len(e), NEW m \in 1..Len(h)
                 PROVE  e[n] < h[m]
      OBVIOUS
    <3>1. CASE n = Len(f) + 1
      BY <2>3, <2>7, <3>1
    <3>2. CASE n \in 1..Len(f)
      BY <1>12, <2>3, <3>2
    <3> QED
      BY <1>7, <2>3, <3>1, <3>2
  <2>9. ASSUME lost' = 0
        PROVE  Complete(taken, sent, kept, e, h)'
    <3>1. Complete(taken, sent, kept, f, g)
      BY <1>3, <1>17, <2>9
    <3>2. /\ sent = taken + Len(f) + Len(g)
          /\ \A n \in 1..Len(f) : f[n] = taken + n - 1
          /\ \A n \in 1..Len(g) : g[n] = taken + Len(f) + n - 1
      BY <3>1 DEF Complete
    <3>3. k = taken + Len(f)
      BY <1>7, <1>8, <3>2 DEF k
    <3>4. sent = taken + Len(e) + Len(h)
      BY <1>7, <1>9, <2>3, <3>2
    <3>5. ASSUME NEW n \in 1..Len(e)
          PROVE  e[n] = taken + n - 1
      <4>1. CASE n = Len(f) + 1
        BY <1>7, <2>2, <2>3, <3>3, <4>1
      <4>2. CASE n \in 1..Len(f)
        BY <2>3, <3>2, <4>2
      <4> QED
        BY <1>7, <2>3, <4>1, <4>2
    <3>6. \A n \in 1..Len(h) : h[n] = taken + Len(e) + n - 1
      BY <1>7, <1>11, <2>3, <3>2
    <3> QED
      BY <1>4, <1>5, <3>1, <3>4, <3>5, <3>6, SameBlocks DEF Complete
  <2>10. Numbers(taken, sent, kept, e, h)'
    BY <1>3, <1>13, <1>14, <1>15, <2>6, <2>8, <2>9 DEF Numbers
  <2> QED
    BY <1>4, <1>8, <2>3, <2>10, SavingThen
<1> QED
  BY <1>4, <1>16, <1>17

\* server.c takes a datagram.
LEMMA SavingReceive ==
    ASSUME Inv, Saving, lab = "Lab6", BackupRecvStep
    PROVE  Saving'
<1>1. TypeOK /\ "send" \in Ends /\ "recv" \in Ends
  BY DEF Inv, Shape, Ends
<1>2. PICK taken \in Nat, sent \in Nat, kept \in SUBSET (1..Blocks),
           f \in Seq(Nat), g \in Seq(Nat) :
        Numbers(taken, sent, kept, f, g)
  BY DEF Saving
<1>3. /\ Sender(sent) /\ Taker(taken, kept) /\ taken <= sent
      /\ Numbered(f, inbox["recv"], taken, sent) /\ Numbered(g, sock["send"], taken, sent)
      /\ \A n \in 1..Len(f) : \A m \in 1..Len(g) : f[n] < g[m]
      /\ lost = 0 => Complete(taken, sent, kept, f, g)
  BY <1>2 DEF Numbers
<1>4. UNCHANGED <<file, offset, lost, sock>> /\ pc'["send"] = pc["send"]
  BY <1>1 DEF BackupRecvStep, Bind, TakeName, Write, Goto, emulator, fileVars, TypeOK, Ends
<1>5. Blocks \in Nat /\ Blocks' = Blocks
  BY <1>1, <1>4, BlockFacts, SameBlocks
<1>6. Sender(sent)'
  BY <1>3, <1>4, <1>5 DEF Sender
<1>7. Numbered(g, sock["send"], taken, sent)'
  BY <1>3, <1>4, NumberedThen
<1>8. CASE Bind
  <2>1. /\ pc["recv"] = "off" /\ pc' = [pc EXCEPT !["recv"] = "first"]
        /\ UNCHANGED <<inbox, written>>
    BY <1>8 DEF Bind, Goto, fileVars
  <2>2. pc'["recv"] = "first"
    BY <1>1, <2>1 DEF TypeOK
  <2>3. Taker(taken, kept)'
    BY <1>3, <1>4, <2>1, <2>2, SameBlocks DEF Taker
  <2>4. Numbered(f, inbox["recv"], taken, sent)'
    BY <1>3, <1>4, <2>1, NumberedThen
  <2>5. lost' = 0 => Complete(taken, sent, kept, f, g)'
    BY <1>3, <1>4, <1>5, <2>1, <2>2, SameBlocks DEF Complete
  <2>6. Numbers(taken, sent, kept, f, g)'
    BY <1>3, <1>6, <1>7, <2>3, <2>4, <2>5 DEF Numbers
  <2> QED
    BY <1>4, <2>6, SavingThen
<1>9. CASE TakeName \/ Write
  <2> DEFINE k == f[1]
             e == Tail(f)
  <2>1. /\ recv_message("recv") /\ inbox["recv"] \in Seq(Message) /\ inbox["recv"] # <<>>
        /\ inbox'["recv"] = Tail(inbox["recv"])
    BY <1>1, <1>9 DEF TakeName, Write, recv_message, TypeOK
  <2>2. /\ \A n \in 1..Len(f) : f[n] \in Nat /\ taken <= f[n] /\ f[n] < sent
        /\ \A n, m \in 1..Len(f) : n < m => f[n] < f[m]
        /\ Len(f) = Len(inbox["recv"]) /\ Len(f) \in Nat /\ Len(g) \in Nat
    BY <1>3 DEF Numbered
  <2>3. 1 \in 1..Len(f) /\ k \in Nat /\ k + 1 \in Nat /\ k + 1 <= k + 1
    <3>1. Len(inbox["recv"]) # 0
      BY <2>1
    <3>2. 1 \in 1..Len(f)
      BY <2>2, <3>1
    <3> QED
      BY <2>2, <3>2
  <2>4. /\ f # <<>> /\ e \in Seq(Nat) /\ Head(inbox["recv"]) = Datagram(k)
        /\ Numbered(e, Tail(inbox["recv"]), k + 1, sent)
    BY <1>3, <2>1, <2>3, NumberedTail
  <2>5. Len(e) = Len(f) - 1 /\ \A n \in 1..Len(f) - 1 : e[n] = f[n + 1]
    BY <2>4, HeadTailStay
  <2>6. taken <= k /\ k < sent /\ \A m \in 1..Len(g) : k < g[m]
    BY <1>3, <2>2, <2>3
  <2> HIDE DEF k, e
  <2>7. \A n \in 1..Len(e) : n + 1 \in 1..Len(f) /\ e[n] = f[n + 1]
    BY <2>2, <2>5
  <2>8. \A n \in 1..Len(e) : \A m \in 1..Len(g) : e[n] < g[m]
    BY <1>3, <2>7
  <2>9. Numbered(e, inbox["recv"], k + 1, sent)'
    BY <1>4, <2>1, <2>4, NumberedThen
  <2>10. Numbered(g, sock["send"], k + 1, sent)'
    <3>1. \A m \in 1..Len(g) : g[m] \in Nat /\ k + 1 <= g[m]
      BY <2>3, <2>6
    <3>2. Numbered(g, sock["send"], k + 1, sent)
      BY <1>3, <3>1 DEF Numbered
    <3> QED
      BY <1>4, <3>2, NumberedThen
  <2>11. ASSUME lost' = 0
         PROVE  /\ k = taken /\ sent = (k + 1) + Len(e) + Len(g)
                /\ \A n \in 1..Len(e) : e[n] = (k + 1) + n - 1
                /\ \A n \in 1..Len(g) : g[n] = (k + 1) + Len(e) + n - 1
                /\ pc["recv"] = "first" => taken = 0
                /\ pc["recv"] = "write" => kept = 1..taken - 1
    <3>1. Complete(taken, sent, kept, f, g)
      BY <1>3, <1>4, <2>11
    <3>2. /\ sent = taken + Len(f) + Len(g)
          /\ \A n \in 1..Len(f) : f[n] = taken + n - 1
          /\ \A n \in 1..Len(g) : g[n] = taken + Len(f) + n - 1
      BY <3>1 DEF Complete
    <3>3. k = taken
      BY <2>3, <3>2 DEF k
    <3>4. \A n \in 1..Len(e) : e[n] = (k + 1) + n - 1
      BY <2>7, <3>2, <3>3
    <3>5. /\ (k + 1) + Len(e) = taken + Len(f)
          /\ (k + 1) + Len(e) \in Nat
      <4>1. Len(e) = Len(f) - 1 /\ Len(f) \in Nat
        BY <2>2, <2>5
      <4> QED
        BY <3>3, <4>1
    <3>6. \A n \in 1..Len(g) : g[n] = (k + 1) + Len(e) + n - 1
      BY <3>2, <3>5
    <3>7. sent = (k + 1) + Len(e) + Len(g)
      BY <3>2, <3>5
    <3> QED
      BY <3>1, <3>3, <3>4, <3>6, <3>7 DEF Complete
  <2>12. ASSUME NEW then \in SUBSET (1..Blocks), Taker(k + 1, then)',
                pc'["recv"] \in {"write", "done"},
                lost' = 0 => /\ pc'["recv"] = "write" => then = 1..(k + 1) - 1
                             /\ pc'["recv"] = "done" => then = BeforeFinish
         PROVE  Saving'
    <3>1. lost' = 0 => Complete(k + 1, sent, then, e, g)'
      BY <1>4, <1>5, <2>11, <2>12, SameBlocks DEF Complete
    <3>2. k + 1 <= sent
      BY <2>3, <2>6
    <3>3. Numbers(k + 1, sent, then, e, g)'
      BY <1>6, <2>8, <2>9, <2>10, <2>12, <3>1, <3>2 DEF Numbers
    <3> QED
      BY <1>4, <2>3, <2>4, <3>3, SavingThen
  <2>13. ASSUME NEW n \in kept
         PROVE  n \in 1..Blocks /\ n < k /\ n < k + 1 /\ ~Finished(BlockAt(n))
    <3>1. n \in 1..Blocks /\ n < taken /\ ~Finished(BlockAt(n))
      BY <1>3 DEF Taker
    <3> QED
      BY <1>5, <2>3, <2>6, <3>1
  <2>14. CASE TakeName
    <3>1. pc["recv"] = "first" /\ pc' = [pc EXCEPT !["recv"] = "write"] /\ written' = written
      BY <2>14 DEF TakeName, Goto, fileVars
    <3>2. pc'["recv"] = "write"
      BY <1>1, <3>1 DEF TypeOK
    <3>3. Taker(k + 1, kept)'
      <4>1. k + 1 > 0
        BY <2>3
      <4> QED
        BY <1>3, <1>4, <2>13, <3>1, <3>2, <4>1, SameBlocks DEF Taker
    <3>4. lost' = 0 => kept = 1..(k + 1) - 1
      <4>1. lost' = 0 => k = 0
        BY <2>11, <3>1
      <4>2. k = 0 => kept = {} /\ 1..(k + 1) - 1 = {}
        BY <1>5, <2>13
      <4> QED
        BY <4>1, <4>2
    <3> QED
      BY <2>12, <3>2, <3>3, <3>4
  <2>15. CASE Write
    <3> DEFINE m == Head(inbox["recv"])
    <3>1. /\ pc["recv"] = "write"
          /\ IF Finished(m) THEN pc' = [pc EXCEPT !["recv"] = "done"] /\ written' = written
                            ELSE written' = written \o CString(m) /\ pc' = pc
      BY <2>15 DEF Write, Goto
    <3> HIDE DEF m
    <3>2. m = Datagram(k) /\ k > 0 /\ k <= Blocks + 1
      <4>1. taken > 0
        BY <1>3, <3>1 DEF Taker
      <4>2. sent <= Blocks + 2
        BY <1>3, <1>5, <2>3, <2>6 DEF Sender
      <4> QED
        BY <1>5, <2>3, <2>4, <2>6, <4>1, <4>2 DEF m
    <3>3. CASE k \in 1..Blocks /\ ~Finished(m)
      <4>1. m = BlockAt(k) /\ ~Finished(BlockAt(k))
        BY <1>5, <3>2, <3>3 DEF Datagram
      <4>3. written' = written \o CString(BlockAt(k)) /\ pc' = pc
        BY <3>1, <4>1
      <4> DEFINE then == kept \cup {k}
      <4>4. WithBlocks(then) = written'
        <5>1. WithBlocks(then) = WithBlocks(kept) \o CString(BlockAt(k))
          BY <1>1, <2>13, <3>3, OneMore
        <5> QED
          BY <1>3, <4>3, <5>1 DEF Taker
      <4>5. /\ then \in SUBSET (1..Blocks)
            /\ \A n \in then : n < k + 1 /\ ~Finished(BlockAt(n))
        BY <2>3, <2>13, <3>3, <4>1
      <4>6. lost' = 0 => then = 1..(k + 1) - 1
        <5>1. lost' = 0 => kept = 1..k - 1
          BY <2>11, <3>1
        <5>2. 1..(k + 1) - 1 = (1..k - 1) \cup {k}
          BY <2>3, <3>2
        <5> QED
          BY <5>1, <5>2
      <4> HIDE DEF then
      <4>7. Taker(k + 1, then)'
        <5>1. k + 1 > 0
          BY <2>3
        <5>2. WithBlocks(then)' = WithBlocks(then) /\ \A n : BlockAt(n)' = BlockAt(n)
          BY <1>4, SameBlocks
        <5> QED
          BY <3>1, <4>3, <4>4, <4>5, <5>1, <5>2 DEF Taker, Finished
      <4> QED
        BY <2>12, <3>1, <4>3, <4>5, <4>6, <4>7
    <3>4. CASE Finished(m)
      <4>1. pc'["recv"] = "done" /\ written' = written
        BY <1>1, <3>1, <3>4 DEF TypeOK
      <4>2. Taker(k + 1, kept)'
        <5>1. k + 1 > 0
          BY <2>3
        <5>2. WithBlocks(kept)' = WithBlocks(kept) /\ \A n : BlockAt(n)' = BlockAt(n)
          BY <1>4, SameBlocks
        <5> QED
          BY <1>3, <2>13, <4>1, <5>1, <5>2 DEF Taker, Finished
      <4>3. ASSUME lost' = 0
            PROVE  kept = BeforeFinish
        <5>1. kept = 1..k - 1
          BY <2>11, <3>1, <4>3
        <5>2. kept \subseteq Readable
          BY <2>13 DEF Readable
        <5>3. k \in 1..Blocks => k \notin Readable
          BY <1>5, <3>2, <3>4 DEF Datagram, Readable
        <5>4. ASSUME NEW n \in 1..Blocks
              PROVE  n \in kept <=> n \in BeforeFinish
          <6>1. CASE n < k
            <7>1. n \in kept /\ 1..n \subseteq kept
              BY <2>3, <5>1, <6>1
            <7> QED
              BY <5>2, <7>1 DEF BeforeFinish
          <6>2. CASE ~(n < k)
            <7>1. k \in 1..n /\ n \notin kept /\ k \in 1..Blocks
              BY <1>5, <2>3, <3>2, <5>1, <6>2
            <7> QED
              BY <5>3, <7>1 DEF BeforeFinish
          <6> QED
            BY <6>1, <6>2
        <5> QED
          BY <5>4 DEF BeforeFinish, Readable
      <4> QED
        BY <2>12, <4>1, <4>2, <4>3
    <3>5. k = Blocks + 1 => Finished(m)
      BY <1>5, <3>2, FinishEnds DEF Datagram
    <3> QED
      BY <1>5, <2>3, <3>2, <3>3, <3>4, <3>5
  <2> QED
    BY <1>9, <2>14, <2>15
<1> QED
  BY <1>8, <1>9 DEF BackupRecvStep

LEMMA SavingKeeps == Inv /\ Saving /\ [Next]_vars => Saving'
<1> SUFFICES ASSUME Inv, Saving, [Next]_vars
             PROVE  Saving'
  OBVIOUS
<1>1. lab' = lab
  BY StepKeepsLab
<1>2. CASE lab # "Lab6"
  BY <1>1, <1>2 DEF Saving
<1>3. CASE lab = "Lab6"
  <2>1. Places
    BY DEF Inv, Shape
  <2>2. ~FileSendStep /\ ~FileRecvStep
    BY <1>3, <2>1 DEF FileSendStep, StartSend, SendSize, SendBlock, EndSend,
                      FileRecvStep, StartRecv, ReceiveName, ReceiveSize, ReceiveBlock, Places
  <2>3. ~WindowSendStep /\ ~WindowRecvStep
    BY <1>3, <2>1 DEF WindowSendStep, StartWindow, SendNext, AwaitSpace, Drain,
                      WindowRecvStep, StartCheck, CheckAndAck, Places
  <2>4. ~LinkStep /\ ~Abort
    BY <1>3, <2>1 DEF LinkStep, Meet, Forward, Deliver, BringBack, Abort, Places
  <2>5. \/ Carry /\ UNCHANGED fileVars
        \/ BackupSendStep
        \/ BackupRecvStep
        \/ UNCHANGED vars
    BY <2>2, <2>3, <2>4 DEF Next, Link, Breaks, SendStep, RecvStep
  <2>6. file' = file
    BY <2>5 DEF BackupSendStep, SendFileName, SendDatagram, SendFinish,
                BackupRecvStep, Bind, TakeName, Write, fileVars, vars
  <2>8. CASE UNCHANGED vars
    <3>1. PICK taken \in Nat, sent \in Nat, kept \in SUBSET (1..Blocks),
               f \in Seq(Nat), g \in Seq(Nat) : Numbers(taken, sent, kept, f, g)
      BY <1>3, <2>8 DEF Saving
    <3>2. /\ UNCHANGED <<pc, file, offset, written, lost>>
          /\ inbox'["recv"] = inbox["recv"] /\ sock'["send"] = sock["send"]
      BY <2>8 DEF vars, linkVars, fileVars, emulator
    <3>3. Blocks' = Blocks
      BY <3>2, SameBlocks
    <3>4. Sender(sent)' /\ Taker(taken, kept)'
      BY <3>1, <3>2, <3>3, SameBlocks DEF Numbers, Sender, Taker
    <3>5. Numbered(f, inbox["recv"], taken, sent)' /\ Numbered(g, sock["send"], taken, sent)'
      BY <3>1, <3>2, NumberedThen DEF Numbers
    <3>6. lost' = 0 => Complete(taken, sent, kept, f, g)'
      BY <3>1, <3>2, <3>3, SameBlocks DEF Numbers, Complete
    <3>7. Numbers(taken, sent, kept, f, g)'
      BY <3>1, <3>4, <3>5, <3>6 DEF Numbers
    <3> QED
      BY <3>2, <3>7, SavingThen
  <2> QED
    BY <1>3, <2>5, <2>8, SavingSend, SavingCarry, SavingReceive
<1> QED
  BY <1>2, <1>3

LEMMA SavedIsWhole ==
    ASSUME TypeOK, Saving
    PROVE  BackupWhole
<1> SUFFICES ASSUME lab = "Lab6"
             PROVE  /\ \E kept \in SUBSET Readable : written = WithBlocks(kept)
                    /\ pc["recv"] = "done" /\ lost = 0 =>
                         written = WithBlocks(BeforeFinish) /\ (Plain => written = file)
  BY DEF BackupWhole, Plain
<1>1. PICK taken \in Nat, sent \in Nat, kept \in SUBSET (1..Blocks),
           f \in Seq(Nat), g \in Seq(Nat) :
        Numbers(taken, sent, kept, f, g)
  BY DEF Saving
<1>2. written = WithBlocks(kept) /\ kept \in SUBSET Readable
  BY <1>1 DEF Numbers, Taker, Readable
<1>3. pc["recv"] = "done" /\ lost = 0 => kept = BeforeFinish
  BY <1>1 DEF Numbers, Complete
<1>4. Plain => BeforeFinish = 1..Blocks
  <2>1. Plain => Readable = 1..Blocks
    BY TakenAs DEF Readable
  <2>2. \A n \in 1..Blocks : 1..n \subseteq 1..Blocks
    BY BlockFacts
  <2> QED
    BY <2>1, <2>2 DEF BeforeFinish, Readable
<1> QED
  BY <1>2, <1>3, <1>4, AllBlocks

\* Lab2 without corruption: the copy is the file's beginning, and all of it when
\* recv.c ends.  Lab6, any file: the backup is blocks of the file in their order,
\* each up to its first zero, and if none is lost all up to the first that reads
\* FINISH.  Lab3: recv.c finds exactly the messages with a bit of the text or of
\* its check flipped, and none with a bit flipped after them.
THEOREM ReceivedWhole == Spec => []Whole
<1>1. Init => Inv /\ Greeted /\ Copying /\ Saving
  BY InitInv, GreetedInit, CopyingInit, SavingInit
<1>2. (Inv /\ Greeted /\ Copying /\ Saving) /\ [Next]_vars
        => (Inv /\ Greeted /\ Copying /\ Saving)'
  BY GreetedKeeps, CopyingKeeps, SavingKeeps, NextInv
<1>3. Inv /\ Greeted /\ Copying /\ Saving => Whole
  BY SavedIsWhole DEF Inv, Shape, Greeted, Copying, Copied, Turns, FileWhole, Whole
<1> QED
  BY <1>1, <1>2, <1>3, PTL DEF Spec
=============================================================================
