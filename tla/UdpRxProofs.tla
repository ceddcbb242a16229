----------------------------- MODULE UdpRxProofs -----------------------------
(***************************************************************************)
(* Proofs about UdpRx, for rings, pipes and byte queues of any size: the   *)
(* types, Woken, that the ring implements DatagramQueue, and that frames   *)
(* are handled in order, intact, and answered to who sent them.            *)
(***************************************************************************)
EXTENDS UdpRx, SequenceTheorems, TLAPS

-----------------------------------------------------------------------------
(* Indices of the ring                                                     *)

RingType ==
    /\ slot \in [0..N - 1 -> Datagrams \cup {NoDatagram}]
    /\ front \in 0..N - 1 /\ rear \in 0..N - 1

LEMMA AfterType == \A i \in 0..N - 1 : After(i) \in 0..N - 1
BY RxAssumption DEF After

LEMMA PendingType == RingType => Pending \in 0..N - 1
BY RxAssumption DEF RingType, Pending

LEMMA PlaceType ==
    ASSUME RingType, NEW i \in 1..N - 1
    PROVE  Place(i) \in 0..N - 1
BY RxAssumption DEF RingType, Place

\* The place after the last one waiting is the one filled next, and the first is the
\* one emptied next.
LEMMA Ends ==
    ASSUME RingType
    PROVE  /\ Pending # 0 => Place(1) = rear
           /\ Pending = 0 <=> front = rear
           /\ Pending + 1 < N => Place(Pending + 1) = front
           /\ \A i \in 1..Pending : Place(i) # front
BY RxAssumption DEF RingType, Place, Pending

\* What an addition, and a removal, do to the places.
LEMMA AddPlaces ==
    ASSUME RingType, front' = After(front), rear' = rear
    PROVE  /\ Pending' = IF Pending + 1 = N THEN 0 ELSE Pending + 1
           /\ \A i \in 1..Pending + 1 : Place(i)' = Place(i)
BY RxAssumption DEF RingType, Place, Pending, After

LEMMA TakePlaces ==
    ASSUME RingType, front # rear, rear' = After(rear), front' = front
    PROVE  /\ Pending' = Pending - 1
           /\ \A i \in 1..Pending - 1 : Place(i)' = Place(i + 1)
BY RxAssumption DEF RingType, Place, Pending, After

-----------------------------------------------------------------------------
(* Units                                                                   *)

LEMMA UnitsType ==
    ASSUME NEW d \in Datagrams
    PROVE  UnitsOf(d) \in Seq(Units) /\ Len(UnitsOf(d)) \in 1..2
<1> DEFINE u(k) == [f |-> d.f, from |-> d.from, k |-> k]
<1>1. u(1) \in Units /\ u(2) \in Units
  BY DEF Units, Datagrams
<1>2. d.part \in {"whole", "head", "tail"}
  BY DEF Datagrams
<1> HIDE DEF u
<1>3. UnitsOf(d) = CASE d.part = "whole" -> <<u(1), u(2)>>
                     [] d.part = "head" -> <<u(1)>>
                     [] d.part = "tail" -> <<u(2)>>
  BY DEF UnitsOf, u
<1>4. CASE d.part = "whole"
  <2>1. UnitsOf(d) = <<u(1), u(2)>>
    BY <1>3, <1>4
  <2> QED BY <1>1, <2>1
<1>5. CASE d.part = "head"
  <2>1. UnitsOf(d) = <<u(1)>>
    BY <1>3, <1>5
  <2> QED BY <1>1, <2>1
<1>6. CASE d.part = "tail"
  <2>1. UnitsOf(d) = <<u(2)>>
    BY <1>3, <1>6
  <2> QED BY <1>1, <2>1
<1> QED BY <1>2, <1>4, <1>5, <1>6

LEMMA OverrunType ==
    ASSUME NEW s \in Seq(Units), Len(s) < QueSize + 2
    PROVE  Overrun(s) \in Seq(Units) /\ Len(Overrun(s)) < QueSize
<1>1. CASE Len(s) < QueSize
  BY <1>1 DEF Overrun
<1>2. CASE ~(Len(s) < QueSize)
  <2>1. Overrun(s) = SubSeq(s, QueSize + 1, Len(s))
    BY <1>2 DEF Overrun
  <2>2. SubSeq(s, QueSize + 1, Len(s)) \in Seq(Units)
    BY <1>2, RxAssumption
  <2>3. Len(SubSeq(s, QueSize + 1, Len(s))) = Len(s) - QueSize
    BY <1>2, RxAssumption
  <2> QED BY <2>1, <2>2, <2>3, <1>2, RxAssumption
<1> QED BY <1>1, <1>2

-----------------------------------------------------------------------------
(* The invariant: types, and every place up to the front filled.           *)

Filled == \A i \in 1..Pending : slot[Place(i)] \in Datagrams

IInv == TypeOK /\ Filled /\ Woken

TaskType ==
    /\ port \in {"node", "ls"}
    /\ pipe \in 0..PipeSize
    /\ pc \in {"select", "recv", "parse", "wait"}
    /\ got \in Datagrams \cup {NoDatagram}
    /\ que \in Seq(Units) /\ Len(que) < QueSize
    /\ pos \in 0..QueSize - 1
    /\ open \in {<<>>} \cup {<<u>> : u \in Units}
    /\ done \in [f : 0..MaxSent, mixed : BOOLEAN, right : BOOLEAN]

PeerType == sent \in 0..MaxSent /\ owed \in [Peers -> 0..MaxSent]

LEMMA TypeParts == TypeOK <=> RingType /\ TaskType /\ PeerType
BY DEF TypeOK, RingType, TaskType, PeerType

\* A step that leaves the ring alone keeps it filled.
LEMMA RingKept ==
    ASSUME UNCHANGED ring
    PROVE  /\ Pending' = Pending /\ Contents' = Contents
           /\ RingType => RingType'
           /\ Filled => Filled'
BY DEF ring, Pending, Contents, Place, RingType, Filled

LEMMA InvInit == Init => IInv
<1> SUFFICES ASSUME Init PROVE IInv
  OBVIOUS
<1>1. RingType
  BY RxAssumption DEF Init, RingType
<1>2. TaskType
  BY RxAssumption DEF Init, TaskType
<1>3. PeerType
  BY RxAssumption DEF Init, PeerType
<1>4. Pending = 0
  BY DEF Init, Pending
<1>5. Filled /\ Woken
  BY <1>4 DEF Filled, Woken, Init
<1> QED BY <1>1, <1>2, <1>3, <1>5, TypeParts DEF IInv

\* A datagram is added.
LEMMA AddStep ==
    ASSUME IInv, NEW d \in Datagrams, Add_UDP_Que(d)
    PROVE  RingType' /\ TaskType' /\ Filled' /\ Woken'
<1>0. RingType /\ TaskType /\ Filled /\ Woken
  BY TypeParts DEF IInv
<1>1. front' = After(front) /\ rear' = rear /\ slot' = [slot EXCEPT ![front] = d]
  BY DEF Add_UDP_Que
<1>2. RingType'
  BY <1>0, <1>1, AfterType DEF RingType
<1>3. TaskType'
  BY <1>0, RxAssumption DEF Add_UDP_Que, TaskType, byteQue, pipe_udp_push_write
<1>4. /\ Pending' = IF Pending + 1 = N THEN 0 ELSE Pending + 1
      /\ \A i \in 1..Pending + 1 : Place(i)' = Place(i)
  BY <1>0, <1>1, AddPlaces
<1>5. Pending \in 0..N - 1
  BY <1>0, PendingType
<1>6. Filled'
  <2> SUFFICES ASSUME NEW i \in 1..Pending' PROVE (slot[Place(i)])' \in Datagrams
    BY DEF Filled
  <2>1. i \in 1..Pending + 1 /\ Pending + 1 < N
    BY <1>4, <1>5, RxAssumption
  <2>2. Place(i)' = Place(i)
    BY <2>1, <1>4
  <2>3. CASE i = Pending + 1
    <3>1. Place(i) = front
      BY <2>1, <2>3, <1>0, Ends
    <3> QED BY <2>2, <3>1, <1>0, <1>1 DEF RingType
  <2>4. CASE i \in 1..Pending
    <3>1. Place(i) # front /\ slot[Place(i)] \in Datagrams
      BY <2>4, <1>0, Ends DEF Filled
    <3>2. Place(i) \in 0..N - 1
      BY <2>4, <1>0, <1>5, PlaceType, RxAssumption
    <3> QED BY <2>2, <3>1, <3>2, <1>0, <1>1 DEF RingType
  <2> QED BY <2>1, <2>3, <2>4, <1>5
<1>7. Woken'
  BY <1>0, <1>4, <1>5, RxAssumption DEF Woken, Add_UDP_Que, pipe_udp_push_write, TaskType
<1> QED BY <1>2, <1>3, <1>6, <1>7

\* A datagram is taken.
LEMMA TakeStep ==
    ASSUME IInv, RecvCommDataQue
    PROVE  RingType' /\ TaskType' /\ Filled' /\ Woken'
<1>0. RingType /\ TaskType /\ Filled /\ Woken
  BY TypeParts DEF IInv
<1>1. front' = front /\ rear' = After(rear) /\ slot' = slot /\ front # rear
  BY DEF RecvCommDataQue
<1>2. RingType'
  BY <1>0, <1>1, AfterType DEF RingType
<1>4. /\ Pending' = Pending - 1
      /\ \A i \in 1..Pending - 1 : Place(i)' = Place(i + 1)
  BY <1>0, <1>1, TakePlaces
<1>5. Pending \in 0..N - 1 /\ Pending # 0 /\ Place(1) = rear
  BY <1>0, <1>1, PendingType, Ends
<1>6. slot[rear] \in Datagrams
  BY <1>0, <1>5 DEF Filled
<1>3. TaskType'
  <2>1. PICK us \in Seq(Units) : us = UnitsOf(slot[rear]) /\ Len(us) \in 1..2
    BY <1>6, UnitsType
  <2> DEFINE end == pos + Len(us)
  <2>2. /\ que' = Overrun(que \o us)
        /\ got' = slot[rear]
        /\ UNCHANGED <<port, pipe, open, done>>
    BY <2>1 DEF RecvCommDataQue
  <2>9. /\ pos' = IF end < QueSize THEN end ELSE end - QueSize
        /\ pc' = IF end = QueSize THEN "recv" ELSE "parse"
    BY <2>1, Zenon DEF RecvCommDataQue, RecvOne
  <2>3. que \in Seq(Units) /\ Len(que) < QueSize /\ pos \in 0..QueSize - 1
    BY <1>0 DEF TaskType
  <2>4. que \o us \in Seq(Units)
    BY <2>1, <2>3
  <2>5. Len(que \o us) = Len(que) + Len(us)
    BY <2>1, <2>3
  <2>10. QueSize \in Nat /\ QueSize > 2 /\ Len(que) \in Nat
    BY <2>3, RxAssumption
  <2>11. Len(us) \in Nat /\ Len(us) <= 2 /\ Len(us) > 0
    <3>1. \A n \in 1..2 : n \in Nat /\ n <= 2 /\ n > 0
      OBVIOUS
    <3> QED BY <2>1, <3>1, Zenon
  <2>6. Len(que \o us) < QueSize + 2
    BY <2>3, <2>5, <2>10, <2>11
  <2>7. que' \in Seq(Units) /\ Len(que') < QueSize
    BY <2>2, <2>4, <2>6, OverrunType
  <2>8. pos' \in 0..QueSize - 1 /\ pc' \in {"recv", "parse"}
    <3>1. pos \in Nat /\ pos < QueSize
      BY <2>3, <2>10
    <3>2. end \in Nat /\ end < QueSize + 2
      BY <3>1, <2>10, <2>11
    <3> HIDE DEF end
    <3> QED BY <2>9, <2>10, <3>2
  <2> QED BY <2>2, <2>7, <2>8, <1>0, <1>6 DEF TaskType
<1>7. Filled'
  BY <1>0, <1>1, <1>4, <1>5 DEF Filled
<1>8. Woken'
  BY <1>0, <1>3, <1>4, <1>5 DEF Woken, RecvCommDataQue, TaskType
<1> QED BY <1>2, <1>3, <1>7, <1>8

\* The other steps of the task leave the ring alone.
LEMMA TaskStep ==
    ASSUME IInv,
           Wake \/ RecvNothing \/ rsStartCheck \/ GetFrame \/ CrcFails \/ Parsed
             \/ Retry \/ TimeOut
    PROVE  UNCHANGED <<ring, got, peers>> /\ TaskType' /\ Woken'
<1>0. TaskType /\ Woken /\ Pending \in 0..N - 1
  BY TypeParts, PendingType DEF IInv
<1>1. que # <<>> => Head(que) \in Units /\ Tail(que) \in Seq(Units) /\ Len(Tail(que)) < QueSize
  BY <1>0, RxAssumption DEF TaskType
<1>2. 0 \in 0..QueSize - 1 /\ <<>> \in Seq(Units) /\ Len(<<>>) < QueSize
  BY RxAssumption
<1> USE <1>0 DEF TaskType, byteQue, peers
<1>3. CASE Wake
  <2>1. UNCHANGED <<ring, got, peers>> /\ TaskType'
    BY <1>3, RxAssumption DEF Wake
  <2>2. Pending' = Pending
    BY <2>1, RingKept
  <2> QED BY <2>1, <2>2, <1>3 DEF Wake, Woken
<1>4. ASSUME UNCHANGED <<ring, got, peers, pipe>>, TaskType', pc = "recv" => Pending = 0
      PROVE  UNCHANGED <<ring, got, peers>> /\ TaskType' /\ Woken'
  <2>1. Pending' = Pending
    BY <1>4, RingKept
  <2> QED BY <1>4, <2>1 DEF Woken
<1>5. CASE RecvNothing
  <2>1. UNCHANGED <<ring, got, peers, pipe>> /\ TaskType'
    BY <1>5 DEF RecvNothing
  <2>2. Pending = 0
    BY <1>5, TypeParts, Ends DEF RecvNothing, IInv
  <2> QED BY <2>1, <2>2, <1>4
<1>6. CASE rsStartCheck
  <2>1. UNCHANGED <<ring, got, peers, pipe, pc>> /\ TaskType'
    BY <1>6, <1>1 DEF rsStartCheck
  <2> QED BY <2>1, <1>4, <1>6 DEF rsStartCheck
<1>7. CASE GetFrame
  <2>1. UNCHANGED <<ring, got, peers, pipe, port>> /\ pc' = "select"
    BY <1>7 DEF GetFrame
  <2>2. que' \in Seq(Units) /\ Len(que') < QueSize /\ pos' \in 0..QueSize - 1 /\ open' = <<>>
    BY <1>7, <1>1, <1>2 DEF GetFrame, Cleared, Empty
  <2>3. open[1] \in Units
    BY <1>7 DEF GetFrame
  <2>4. open[1].f \in 0..MaxSent
    BY <2>3, RxAssumption DEF Units
  <2>5. done' \in [f : 0..MaxSent, mixed : BOOLEAN, right : BOOLEAN]
    BY <1>7, <2>4 DEF GetFrame, Mixed
  <2>6. TaskType'
    BY <2>1, <2>2, <2>5
  <2> QED BY <2>1, <2>6, <1>4, <1>7 DEF GetFrame
<1>8. CASE CrcFails
  <2>1. UNCHANGED <<ring, got, peers, pipe, pc>> /\ TaskType'
    BY <1>8, <1>1 DEF CrcFails
  <2> QED BY <2>1, <1>4, <1>8 DEF CrcFails
<1>9. CASE Parsed
  <2>1. UNCHANGED <<ring, got, peers, pipe>> /\ TaskType'
    BY <1>9, <1>2 DEF Parsed, Empty
  <2> QED BY <2>1, <1>4, <1>9 DEF Parsed
<1>10. CASE Retry
  <2>1. UNCHANGED <<ring, got, peers, pipe>> /\ TaskType'
    BY <1>10 DEF Retry
  <2> QED BY <2>1, <1>4, <1>10 DEF Retry
<1>11. CASE TimeOut
  <2>1. UNCHANGED <<ring, got, peers, pipe>> /\ TaskType'
    BY <1>11, <1>2 DEF TimeOut, Empty
  <2> QED BY <2>1, <1>4, <1>11 DEF TimeOut
<1> QED BY <1>3, <1>5, <1>6, <1>7, <1>8, <1>9, <1>10, <1>11

\* What a peer adds is a datagram.
LEMMA ArriveStep ==
    ASSUME IInv, NEW c \in Peers, Arrive(c)
    PROVE  PeerType' /\ \E d \in Datagrams : Add_UDP_Que(d)
<1>0. PeerType /\ MaxSent \in Nat
  BY TypeParts, RxAssumption DEF IInv
<1>1. CASE sent < MaxSent /\ sent' = sent + 1
  <2>1. sent' \in 1..MaxSent
    BY <1>0, <1>1 DEF PeerType
  <2> DEFINE d(p) == [f |-> sent', from |-> c, part |-> p]
  <2>2. d("whole") \in Datagrams /\ d("head") \in Datagrams /\ d("tail") \in Datagrams
    BY <2>1 DEF Datagrams
  <2>3. CASE Add_UDP_Que(d("whole")) /\ UNCHANGED owed
    BY <2>1, <2>2, <2>3, <1>0 DEF PeerType
  <2>4. CASE owed' = [owed EXCEPT ![c] = sent'] /\ Add_UDP_Que(d("head"))
    BY <2>1, <2>2, <2>4, <1>0 DEF PeerType
  <2>5. CASE owed[c] # 0 /\ UNCHANGED sent
    BY <2>5, <1>0, <1>1 DEF PeerType
  <2> QED BY <2>3, <2>4, <2>5 DEF Arrive
<1>2. CASE /\ owed[c] # 0
           /\ Add_UDP_Que([f |-> owed[c], from |-> c, part |-> "tail"])
           /\ owed' = [owed EXCEPT ![c] = 0]
           /\ UNCHANGED sent
  <2>1. owed[c] \in 1..MaxSent
    BY <1>0, <1>2 DEF PeerType
  <2>2. [f |-> owed[c], from |-> c, part |-> "tail"] \in Datagrams
    BY <2>1 DEF Datagrams
  <2>3. PeerType'
    BY <1>0, <1>2 DEF PeerType
  <2> QED BY <1>2, <2>2, <2>3
<1> QED BY <1>1, <1>2 DEF Arrive

\* Every step adds a datagram, takes one, or leaves the ring and what was taken alone.
LEMMA Step ==
    ASSUME IInv, [Next]_vars
    PROVE  /\ IInv'
           /\ \/ \E d \in Datagrams : Add_UDP_Que(d)
              \/ RecvCommDataQue
              \/ UNCHANGED <<ring, got>>
<1>1. ASSUME NEW c \in Peers, Arrive(c)
      PROVE  IInv' /\ \E d \in Datagrams : Add_UDP_Que(d)
  <2>1. PeerType' /\ \E d \in Datagrams : Add_UDP_Que(d)
    BY <1>1, ArriveStep
  <2>2. RingType' /\ TaskType' /\ Filled' /\ Woken'
    BY <2>1, AddStep
  <2> QED BY <2>1, <2>2, TypeParts DEF IInv, TypeOK, RingType, TaskType, PeerType
<1>2. CASE RecvCommDataQue
  <2>1. RingType' /\ TaskType' /\ Filled' /\ Woken'
    BY <1>2, TakeStep
  <2>2. PeerType'
    BY <1>2 DEF RecvCommDataQue, peers, PeerType, IInv, TypeOK
  <2> QED BY <1>2, <2>1, <2>2 DEF IInv, TypeOK, RingType, TaskType, PeerType
<1>3. CASE Wake \/ RecvNothing \/ rsStartCheck \/ GetFrame \/ CrcFails \/ Parsed
             \/ Retry \/ TimeOut
  <2>1. UNCHANGED <<ring, got, peers>> /\ TaskType' /\ Woken'
    BY <1>3, TaskStep
  <2>2. RingType' /\ Filled'
    BY <2>1, RingKept, TypeParts DEF IInv
  <2>3. PeerType'
    BY <2>1 DEF peers, PeerType, IInv, TypeOK
  <2> QED BY <2>1, <2>2, <2>3 DEF IInv, TypeOK, RingType, TaskType, PeerType
<1>4. ASSUME UNCHANGED ring, UNCHANGED <<port, pipe, pc, got, que, pos, open, done>>, PeerType'
      PROVE  IInv' /\ UNCHANGED <<ring, got>>
  <2>1. RingType' /\ Filled' /\ Pending' = Pending
    BY <1>4, RingKept, TypeParts DEF IInv
  <2>2. TaskType' /\ Woken'
    BY <1>4, <2>1 DEF TaskType, Woken, IInv, TypeOK
  <2> QED BY <1>4, <2>1, <2>2 DEF IInv, TypeOK, RingType, TaskType, PeerType
<1>5. ASSUME NEW c \in Peers, LoseTail(c) PROVE IInv' /\ UNCHANGED <<ring, got>>
  <2>1. PeerType'
    BY <1>5, RxAssumption DEF LoseTail, PeerType, IInv, TypeOK
  <2> QED BY <1>5, <2>1, <1>4 DEF LoseTail, byteQue
<1>6. CASE UNCHANGED vars
  <2>1. PeerType'
    BY <1>6 DEF vars, peers, PeerType, IInv, TypeOK
  <2> QED BY <1>6, <2>1, <1>4 DEF vars, byteQue
<1> QED BY <1>1, <1>2, <1>3, <1>5, <1>6 DEF Next, UDP_Sel_Proc_Task

LEMMA Invariant == Spec => []IInv
<1>1. IInv /\ [Next]_vars => IInv'
  BY Step
<1> QED BY InvInit, <1>1, PTL DEF Spec

\* The ring, the byte queue and the task stay in their types.
THEOREM TypeCorrect == Spec => []TypeOK
<1>1. IInv => TypeOK
  BY DEF IInv
<1> QED BY Invariant, <1>1, PTL

\* No datagram waits without a byte in the pipe, whatever the sizes of ring and pipe:
\* the task never sleeps on one.
THEOREM NeverAsleep == Spec => []Woken
<1>1. IInv => Woken
  BY DEF IInv
<1> QED BY Invariant, <1>1, PTL

-----------------------------------------------------------------------------
(* The ring implements the queue.                                          *)

LEMMA ContentsType ==
    ASSUME IInv
    PROVE  Contents \in Seq(Datagrams) /\ Len(Contents) = Pending /\ Pending \in 0..N - 1
<1>1. Pending \in 0..N - 1
  BY PendingType, TypeParts DEF IInv
<1>2. Contents \in [1..Pending -> Datagrams]
  BY DEF IInv, Filled, Contents
<1>3. Pending \in Nat
  BY <1>1, RxAssumption
<1> QED BY <1>1, <1>2, <1>3 DEF Contents

LEMMA PutRefined ==
    ASSUME IInv, NEW d \in Datagrams, Add_UDP_Que(d)
    PROVE  Queue!Put(d)
<1>0. RingType
  BY TypeParts DEF IInv
<1>1. front' = After(front) /\ rear' = rear /\ slot' = [slot EXCEPT ![front] = d] /\ got' = got
  BY DEF Add_UDP_Que
<1>2. /\ Pending' = IF Pending + 1 = N THEN 0 ELSE Pending + 1
      /\ \A i \in 1..Pending + 1 : Place(i)' = Place(i)
  BY <1>0, <1>1, AddPlaces
<1>3. Contents \in Seq(Datagrams) /\ Len(Contents) = Pending /\ Pending \in 0..N - 1
  BY ContentsType
<1>4. CASE Pending + 1 = N
  <2>1. Contents' = <<>>
    BY <1>2, <1>4, RxAssumption DEF Contents
  <2> QED BY <2>1, <1>1, <1>3, <1>4 DEF Queue!Put
<1>5. CASE Pending + 1 # N
  <2>1. Pending' = Pending + 1 /\ Pending + 1 < N /\ Pending \in Nat
    BY <1>2, <1>3, <1>5, RxAssumption
  <2>2. Contents' = [i \in 1..Pending + 1 |-> slot'[Place(i)]]
    BY <2>1, <1>2 DEF Contents
  <2>3. slot'[Place(Pending + 1)] = d
    <3>1. Place(Pending + 1) = front
      BY <2>1, <1>0, Ends
    <3> QED BY <3>1, <1>0, <1>1 DEF RingType
  <2>4. ASSUME NEW i \in 1..Pending PROVE slot'[Place(i)] = Contents[i]
    <3>1. Place(i) # front /\ Place(i) \in 0..N - 1
      BY <1>0, <1>3, Ends, PlaceType, RxAssumption
    <3> QED BY <3>1, <1>0, <1>1 DEF RingType, Contents
  <2>5. PICK c \in Seq(Datagrams) : c = Contents /\ Len(c) = Pending
    BY <1>3
  <2>6. /\ Append(c, d) \in Seq(Datagrams) /\ Len(Append(c, d)) = Pending + 1
        /\ Append(c, d)[Pending + 1] = d
        /\ \A i \in 1..Pending : Append(c, d)[i] = c[i]
    BY <2>1, <2>5
  <2>7. Contents' = Append(Contents, d)
    <3>1. \A i \in 1..Pending + 1 : slot'[Place(i)] = Append(c, d)[i]
      BY <2>1, <2>3, <2>4, <2>5, <2>6
    <3>2. Append(c, d) = [i \in 1..Pending + 1 |-> Append(c, d)[i]]
      BY <2>6, LenProperties
    <3> QED BY <2>2, <2>5, <3>1, <3>2
  <2> QED BY <2>7, <1>1, <1>3, <1>5 DEF Queue!Put
<1> QED BY <1>4, <1>5

LEMMA GetRefined ==
    ASSUME IInv, RecvCommDataQue
    PROVE  Queue!Get
<1>0. RingType
  BY TypeParts DEF IInv
<1>1. /\ front' = front /\ rear' = After(rear) /\ slot' = slot /\ front # rear
      /\ got' = slot[rear]
  BY DEF RecvCommDataQue
<1>2. /\ Pending' = Pending - 1
      /\ \A i \in 1..Pending - 1 : Place(i)' = Place(i + 1)
  BY <1>0, <1>1, TakePlaces
<1>3. /\ Contents \in Seq(Datagrams) /\ Len(Contents) = Pending /\ Pending \in Nat
      /\ Pending # 0 /\ Place(1) = rear
  BY <1>0, <1>1, ContentsType, Ends, RxAssumption
<1>4. Contents # <<>> /\ Head(Contents) = slot[rear]
  BY <1>3 DEF Contents
<1>5. Contents' = [i \in 1..Pending - 1 |-> slot[Place(i + 1)]]
  BY <1>1, <1>2 DEF Contents
<1>6. Tail(Contents) = [i \in 1..Pending - 1 |-> Contents[i + 1]]
  <2>1. /\ Tail(Contents) \in Seq(Datagrams) /\ Len(Tail(Contents)) = Pending - 1
        /\ \A i \in 1..Pending - 1 : Tail(Contents)[i] = Contents[i + 1]
    BY <1>3, <1>4, HeadTailProperties
  <2>2. Tail(Contents) = [i \in 1..Pending - 1 |-> Tail(Contents)[i]]
    BY <2>1, LenProperties
  <2> QED BY <2>1, <2>2
<1>7. \A i \in 1..Pending - 1 : Contents[i + 1] = slot[Place(i + 1)]
  BY <1>3 DEF Contents
<1>8. Contents' = Tail(Contents)
  BY <1>5, <1>6, <1>7
<1> QED BY <1>1, <1>4, <1>8 DEF Queue!Get

\* Whatever its size and however it is overrun, the ring is a queue: datagrams come out
\* in order, each once and unaltered, and an overrun forgets exactly what waits.
THEOREM RingImplementsQueue == Spec => RingIsQueue
<1>1. Init => Queue!Init
  <2> SUFFICES ASSUME Init PROVE Contents = <<>>
    BY DEF Queue!Init
  <2>1. Pending = 0
    BY DEF Init, Pending
  <2> QED BY <2>1 DEF Contents
<1>2. IInv /\ [Next]_vars => [Queue!Next]_<<Contents, got>>
  <2> SUFFICES ASSUME IInv, [Next]_vars PROVE [Queue!Next]_<<Contents, got>>
    OBVIOUS
  <2>1. CASE \E d \in Datagrams : Add_UDP_Que(d)
    BY <2>1, PutRefined DEF Queue!Next
  <2>2. CASE RecvCommDataQue
    BY <2>2, GetRefined DEF Queue!Next
  <2>3. CASE UNCHANGED <<ring, got>>
    BY <2>3, RingKept
  <2> QED BY <2>1, <2>2, <2>3, Step
<1> QED BY Invariant, <1>1, <1>2, PTL DEF Spec, RingIsQueue, Queue!Spec

-----------------------------------------------------------------------------
(* Sequences that lose their first members, and who their members name.    *)

\* p is what is left of q when some of its first members are gone.
Rest(p, q) == \E n \in Nat :
    Len(p) + n <= Len(q) /\ \A i \in 1..Len(p) : p[i] = q[i + n]

\* The senders the members of a sequence name.
Named(s) == {<<s[i].f, s[i].from>> : i \in 1..Len(s)}

LEMMA RestCases ==
    ASSUME NEW S, NEW q \in Seq(S)
    PROVE  /\ Rest(q, q) /\ Rest(<<>>, q)
           /\ q # <<>> => Rest(Tail(q), q)
<1>1. Rest(q, q)
  <2>1. Len(q) + 0 <= Len(q) /\ \A i \in 1..Len(q) : q[i] = q[i + 0]
    OBVIOUS
  <2> QED BY <2>1 DEF Rest
<1>2. Rest(<<>>, q)
  <2>1. Len(<<>>) + 0 <= Len(q) /\ \A i \in 1..Len(<<>>) : <<>>[i] = q[i + 0]
    OBVIOUS
  <2> QED BY <2>1 DEF Rest
<1>3. ASSUME q # <<>> PROVE Rest(Tail(q), q)
  <2>1. Len(Tail(q)) = Len(q) - 1 /\ \A i \in 1..Len(Tail(q)) : Tail(q)[i] = q[i + 1]
    BY <1>3, HeadTailProperties
  <2>2. Len(q) \in Nat /\ Len(Tail(q)) + 1 <= Len(q)
    BY <2>1
  <2> QED BY <2>1, <2>2 DEF Rest
<1> QED BY <1>1, <1>2, <1>3

LEMMA RestNames ==
    ASSUME NEW S, NEW q \in Seq(S), NEW p \in Seq(S), Rest(p, q)
    PROVE  Named(p) \subseteq Named(q)
<1>1. PICK n \in Nat : Len(p) + n <= Len(q) /\ \A i \in 1..Len(p) : p[i] = q[i + n]
  BY DEF Rest
<1>2. ASSUME NEW i \in 1..Len(p)
      PROVE  i + n \in 1..Len(q) /\ p[i] = q[i + n]
  BY <1>1
<1> QED BY <1>2 DEF Named

LEMMA OverrunRests == ASSUME NEW s \in Seq(Units) PROVE Rest(Overrun(s), s)
<1>1. CASE Len(s) < QueSize
  BY <1>1, RestCases DEF Overrun
<1>2. CASE ~(Len(s) < QueSize)
  <2> DEFINE o == SubSeq(s, QueSize + 1, Len(s))
  <2>1. Overrun(s) = o
    BY <1>2 DEF Overrun
  <2>2. QueSize \in Nat /\ Len(s) \in Nat
    BY RxAssumption
  <2>3. \A i \in QueSize + 1..Len(s) : s[i] \in Units
    BY <2>2
  <2>4. /\ Len(o) = Len(s) - QueSize
        /\ \A i \in 1..Len(o) : o[i] = s[QueSize + 1 + i - 1]
    <3>1. /\ Len(o) = IF QueSize + 1 <= Len(s) THEN Len(s) - (QueSize + 1) + 1 ELSE 0
          /\ \A i \in 1..Len(s) - (QueSize + 1) + 1 : o[i] = s[QueSize + 1 + i - 1]
      BY <2>2, <2>3, SubSeqProperties
    <3> QED BY <3>1, <2>2, <1>2
  <2>5. \A i \in 1..Len(o) : o[i] = s[i + QueSize]
    <3> SUFFICES ASSUME NEW i \in 1..Len(o) PROVE o[i] = s[i + QueSize]
      OBVIOUS
    <3>1. i \in Nat /\ QueSize + 1 + i - 1 = i + QueSize
      BY <2>2, <2>4
    <3> QED BY <3>1, <2>4
  <2>6. Len(o) + QueSize <= Len(s)
    BY <2>2, <2>4
  <2> HIDE DEF o
  <2> QED BY <2>1, <2>2, <2>5, <2>6 DEF Rest
<1> QED BY <1>1, <1>2

\* A datagram has one or two units: its first begins a frame unless it is a tail.
LEMMA UnitsShape ==
    ASSUME NEW d \in Datagrams
    PROVE  /\ Len(UnitsOf(d)) \in 1..2
           /\ \A i \in 1..Len(UnitsOf(d)) :
                /\ UnitsOf(d)[i].f = d.f /\ UnitsOf(d)[i].from = d.from
                /\ UnitsOf(d)[i].k = 1 => i = 1 /\ d.part # "tail"
           /\ Len(UnitsOf(d)) = 2 => UnitsOf(d)[1].k = 1
<1> DEFINE u(k) == [f |-> d.f, from |-> d.from, k |-> k]
<1>1. /\ u(1).f = d.f /\ u(1).from = d.from /\ u(1).k = 1
      /\ u(2).f = d.f /\ u(2).from = d.from /\ u(2).k = 2
  OBVIOUS
<1>2. d.part \in {"whole", "head", "tail"}
  BY DEF Datagrams
<1> HIDE DEF u
<1>3. UnitsOf(d) = CASE d.part = "whole" -> <<u(1), u(2)>>
                     [] d.part = "head" -> <<u(1)>>
                     [] d.part = "tail" -> <<u(2)>>
  BY DEF UnitsOf, u
<1>4. CASE d.part = "whole"
  <2>1. UnitsOf(d) = <<u(1), u(2)>>
    BY <1>3, <1>4
  <2> QED BY <1>1, <1>4, <2>1
<1>5. CASE d.part = "head"
  <2>1. UnitsOf(d) = <<u(1)>>
    BY <1>3, <1>5
  <2> QED BY <1>1, <1>5, <2>1
<1>6. CASE d.part = "tail"
  <2>1. UnitsOf(d) = <<u(2)>>
    BY <1>3, <1>6
  <2> QED BY <1>1, <1>6, <2>1
<1> QED BY <1>2, <1>4, <1>5, <1>6

\* The units of a datagram are added to the byte queue.
LEMMA AddUnits ==
    ASSUME NEW s \in Seq(Units), NEW d \in Datagrams
    PROVE  /\ s \o UnitsOf(d) \in Seq(Units)
           /\ Len(s \o UnitsOf(d)) = Len(s) + Len(UnitsOf(d))
           /\ \A i \in 1..Len(s \o UnitsOf(d)) :
                \/ /\ i \in 1..Len(s)
                   /\ (s \o UnitsOf(d))[i] = s[i]
                \/ /\ i - Len(s) \in 1..Len(UnitsOf(d))
                   /\ (s \o UnitsOf(d))[i] = UnitsOf(d)[i - Len(s)]
<1>1. PICK us \in Seq(Units) : us = UnitsOf(d)
  BY UnitsType
<1>2. /\ s \o us \in Seq(Units) /\ Len(s \o us) = Len(s) + Len(us)
      /\ \A i \in 1..Len(s) + Len(us) :
            (s \o us)[i] = IF i <= Len(s) THEN s[i] ELSE us[i - Len(s)]
  BY ConcatProperties
<1>3. Len(s) \in Nat /\ Len(us) \in Nat
  OBVIOUS
<1>4. ASSUME NEW i \in 1..Len(s) + Len(us)
      PROVE  \/ i \in 1..Len(s) /\ (s \o us)[i] = s[i]
             \/ i - Len(s) \in 1..Len(us) /\ (s \o us)[i] = us[i - Len(s)]
  <2>1. CASE i <= Len(s)
    BY <2>1, <1>2, <1>3
  <2>2. CASE ~(i <= Len(s))
    BY <2>2, <1>2, <1>3
  <2> QED BY <2>1, <2>2
<1> QED BY <1>1, <1>2, <1>4

LEMMA AddNames ==
    ASSUME NEW s \in Seq(Units), NEW d \in Datagrams
    PROVE  Named(s \o UnitsOf(d)) \subseteq Named(s) \cup {<<d.f, d.from>>}
<1> SUFFICES ASSUME NEW i \in 1..Len(s \o UnitsOf(d))
             PROVE  <<(s \o UnitsOf(d))[i].f, (s \o UnitsOf(d))[i].from>>
                        \in Named(s) \cup {<<d.f, d.from>>}
  BY DEF Named
<1>1. CASE i \in 1..Len(s) /\ (s \o UnitsOf(d))[i] = s[i]
  BY <1>1 DEF Named
<1>2. CASE /\ i - Len(s) \in 1..Len(UnitsOf(d))
           /\ (s \o UnitsOf(d))[i] = UnitsOf(d)[i - Len(s)]
  BY <1>2, UnitsShape
<1> QED BY <1>1, <1>2, AddUnits

LEMMA AppendNames ==
    ASSUME NEW s \in Seq(Datagrams), NEW d \in Datagrams
    PROVE  Named(Append(s, d)) \subseteq Named(s) \cup {<<d.f, d.from>>}
<1> SUFFICES ASSUME NEW i \in 1..Len(Append(s, d))
             PROVE  <<Append(s, d)[i].f, Append(s, d)[i].from>>
                        \in Named(s) \cup {<<d.f, d.from>>}
  BY DEF Named
<1>1. (i \in 1..Len(s) /\ Append(s, d)[i] = s[i]) \/ Append(s, d)[i] = d
  OBVIOUS
<1> QED BY <1>1 DEF Named

LEMMA HeadNamed ==
    ASSUME NEW S, NEW s \in Seq(S), s # <<>>
    PROVE  <<Head(s).f, Head(s).from>> \in Named(s)
<1>1. 1 \in 1..Len(s) /\ Head(s) = s[1]
  OBVIOUS
<1> QED BY <1>1 DEF Named
-----------------------------------------------------------------------------
(* The order: frames handled, begun, in the byte queue and in the ring are *)
(* numbered upwards, and no frame is begun twice.                          *)

UnitsAfter(f, s) == \A i \in 1..Len(s) : s[i].k = 1 => f < s[i].f
UnitsRise(s) == \A i, j \in 1..Len(s) :
    i < j /\ s[i].k = 1 /\ s[j].k = 1 => s[i].f < s[j].f
WaitAfter(f, c) == \A i \in 1..Len(c) : c[i].part # "tail" => f < c[i].f
WaitRises(c) == \A i, j \in 1..Len(c) :
    i < j /\ c[i].part # "tail" /\ c[j].part # "tail" => c[i].f < c[j].f
UnitsBefore(s, c) == \A i \in 1..Len(s), j \in 1..Len(c) :
    s[i].k = 1 /\ c[j].part # "tail" => s[i].f < c[j].f

\* Every frame begun in s or in c comes after f, in their order.
Ahead(f, s, c) ==
    /\ UnitsAfter(f, s) /\ UnitsRise(s)
    /\ WaitAfter(f, c) /\ WaitRises(c)
    /\ UnitsBefore(s, c)

Last == IF open = <<>> THEN done.f ELSE open[1].f

Ordered ==
    /\ open # <<>> => open[1].k = 1 /\ done.f < open[1].f
    /\ Ahead(Last, que, Contents)

\* Nothing comes from beyond what was sent, and a frame has one sender.
Senders ==
    Named(open) \cup Named(que) \cup Named(Contents)
        \cup {<<owed[c], c>> : c \in {d \in Peers : owed[d] # 0}}
Owned ==
    /\ done.f <= sent
    /\ \A a \in Senders : a[1] \in 0..sent /\ \A b \in Senders : a[1] = b[1] => a[2] = b[2]

LEMMA AheadRest ==
    ASSUME NEW f \in Nat, NEW s \in Seq(Units), NEW c \in Seq(Datagrams), Ahead(f, s, c),
           NEW g \in Nat, g <= f,
           NEW t \in Seq(Units), Rest(t, s)
    PROVE  Ahead(g, t, c)
<1>0. /\ \A u \in Units : u.f \in Nat
      /\ \A d \in Datagrams : d.f \in Nat
  BY RxAssumption DEF Units, Datagrams
<1>1. PICK n \in Nat : Len(t) + n <= Len(s) /\ \A i \in 1..Len(t) : t[i] = s[i + n]
  BY DEF Rest
<1>2. ASSUME NEW i \in 1..Len(t)
      PROVE  i + n \in 1..Len(s) /\ t[i] = s[i + n] /\ s[i + n].f \in Nat
  <2>1. i + n \in 1..Len(s)
    BY <1>1
  <2>2. s[i + n] \in Units
    BY <2>1
  <2> QED BY <1>0, <1>1, <2>1, <2>2
<1>3. \A j \in 1..Len(c) : c[j].f \in Nat
  BY <1>0
<1>4. UnitsAfter(g, t)
  BY <1>2 DEF Ahead, UnitsAfter
<1>5. UnitsRise(t)
  <2> SUFFICES ASSUME NEW i \in 1..Len(t), NEW j \in 1..Len(t), i < j,
                      t[i].k = 1, t[j].k = 1
               PROVE  t[i].f < t[j].f
    BY DEF UnitsRise
  <2>1. i + n < j + n
    BY <1>1
  <2> QED BY <1>2, <2>1 DEF Ahead, UnitsRise
<1>6. WaitAfter(g, c)
  BY <1>3 DEF Ahead, WaitAfter
<1>7. UnitsBefore(t, c)
  BY <1>2 DEF Ahead, UnitsBefore
<1> QED BY <1>4, <1>5, <1>6, <1>7 DEF Ahead

LEMMA AheadTaken ==
    ASSUME NEW f \in Nat, NEW s \in Seq(Units), NEW c \in Seq(Datagrams), Ahead(f, s, c),
           c # <<>>
    PROVE  Ahead(f, s \o UnitsOf(Head(c)), Tail(c))
<1> DEFINE d == Head(c)
           t == s \o UnitsOf(d)
           r == Tail(c)
<1>1. /\ d \in Datagrams /\ d = c[1] /\ 1 \in 1..Len(c)
      /\ \A i \in 1..Len(r) : i + 1 \in 1..Len(c) /\ r[i] = c[i + 1]
  BY HeadTailProperties
<1>2. ASSUME NEW i \in 1..Len(t), t[i].k = 1
      PROVE  \/ i \in 1..Len(s) /\ t[i] = s[i]
             \/ i = Len(s) + 1 /\ t[i].f = d.f /\ d.part # "tail"
  <2>1. CASE i - Len(s) \in 1..Len(UnitsOf(d)) /\ t[i] = UnitsOf(d)[i - Len(s)]
    <3>1. t[i].f = d.f /\ i - Len(s) = 1 /\ d.part # "tail"
      BY <1>1, <1>2, <2>1, UnitsShape
    <3>2. Len(s) \in Nat /\ i \in Int
      OBVIOUS
    <3> QED BY <3>1, <3>2
  <2> QED BY <1>1, <2>1, AddUnits
<1> HIDE DEF t, r, d
<1>3. UnitsAfter(f, t)
  BY <1>1, <1>2 DEF Ahead, UnitsAfter, WaitAfter
<1>4. UnitsRise(t)
  <2> SUFFICES ASSUME NEW i \in 1..Len(t), NEW j \in 1..Len(t),
                      i < j, t[i].k = 1, t[j].k = 1
               PROVE  t[i].f < t[j].f
    BY DEF UnitsRise
  <2>0. Len(s) \in Nat
    OBVIOUS
  <2>1. CASE i \in 1..Len(s) /\ t[i] = s[i] /\ j \in 1..Len(s) /\ t[j] = s[j]
    BY <2>1 DEF Ahead, UnitsRise
  <2>2. CASE i \in 1..Len(s) /\ t[i] = s[i] /\ t[j].f = d.f /\ d.part # "tail"
    BY <1>1, <2>2 DEF Ahead, UnitsBefore
  <2>3. ~(i = Len(s) + 1)
    <3>1. j \in 1..Len(s) \/ j = Len(s) + 1
      BY <1>2
    <3> QED BY <2>0, <3>1
  <2> QED BY <1>2, <2>1, <2>2, <2>3
<1>5. WaitAfter(f, r)
  BY <1>1 DEF Ahead, WaitAfter
<1>6. WaitRises(r)
  <2> SUFFICES ASSUME NEW i \in 1..Len(r), NEW j \in 1..Len(r), i < j,
                      r[i].part # "tail", r[j].part # "tail"
               PROVE  r[i].f < r[j].f
    BY DEF WaitRises
  <2>1. i + 1 < j + 1
    OBVIOUS
  <2> QED BY <1>1, <2>1 DEF Ahead, WaitRises
<1>7. UnitsBefore(t, r)
  <2> SUFFICES ASSUME NEW i \in 1..Len(t), NEW j \in 1..Len(r),
                      t[i].k = 1, r[j].part # "tail"
               PROVE  t[i].f < r[j].f
    BY DEF UnitsBefore
  <2>1. j + 1 \in 1..Len(c) /\ r[j] = c[j + 1] /\ 1 < j + 1
    BY <1>1
  <2>2. CASE i \in 1..Len(s) /\ t[i] = s[i]
    BY <2>1, <2>2 DEF Ahead, UnitsBefore
  <2>3. CASE t[i].f = d.f /\ d.part # "tail"
    BY <1>1, <2>1, <2>3 DEF Ahead, WaitRises
  <2> QED BY <1>2, <2>2, <2>3
<1> QED BY <1>3, <1>4, <1>5, <1>6, <1>7 DEF Ahead, t, r, d

\* A frame newly sent has a number no other has.
LEMMA AheadPut ==
    ASSUME NEW f \in Nat, NEW s \in Seq(Units), NEW c \in Seq(Datagrams), Ahead(f, s, c),
           NEW d \in Datagrams,
           \/ d.part = "tail"
           \/ /\ f < d.f
              /\ \A i \in 1..Len(s) : s[i].f < d.f
              /\ \A i \in 1..Len(c) : c[i].f < d.f
    PROVE  Ahead(f, s, Append(c, d))
<1> DEFINE r == Append(c, d)
<1>1. /\ Len(r) = Len(c) + 1 /\ Len(c) \in Nat
      /\ \A i \in 1..Len(c) : r[i] = c[i]
      /\ r[Len(c) + 1] = d
  OBVIOUS
<1> HIDE DEF r
<1>2. \A i \in 1..Len(r) : i \in 1..Len(c) \/ i = Len(c) + 1
  BY <1>1
<1>3. WaitAfter(f, r)
  BY <1>1, <1>2 DEF Ahead, WaitAfter
<1>4. WaitRises(r)
  BY <1>1, <1>2 DEF Ahead, WaitRises
<1>5. UnitsBefore(s, r)
  BY <1>1, <1>2 DEF Ahead, UnitsBefore
<1> QED BY <1>3, <1>4, <1>5 DEF Ahead, r

LEMMA AheadEmpty ==
    ASSUME NEW f \in Nat, NEW s \in Seq(Units), NEW c \in Seq(Datagrams), Ahead(f, s, c)
    PROVE  Ahead(f, s, <<>>)
BY DEF Ahead, WaitAfter, WaitRises, UnitsBefore

\* The first unit, if it begins a frame, comes before the others.
LEMMA AheadBegun ==
    ASSUME NEW f \in Nat, NEW s \in Seq(Units), NEW c \in Seq(Datagrams), Ahead(f, s, c),
           s # <<>>, Head(s).k = 1
    PROVE  f < Head(s).f /\ Ahead(Head(s).f, Tail(s), c)
<1>1. /\ Head(s) = s[1] /\ 1 \in 1..Len(s)
      /\ \A i \in 1..Len(Tail(s)) : i + 1 \in 1..Len(s) /\ Tail(s)[i] = s[i + 1] /\ 1 < i + 1
  BY HeadTailProperties
<1>2. UnitsAfter(Head(s).f, Tail(s)) /\ WaitAfter(Head(s).f, c)
  BY <1>1 DEF Ahead, UnitsAfter, UnitsRise, UnitsBefore, WaitAfter
<1>3. UnitsRise(Tail(s))
  <2> SUFFICES ASSUME NEW i \in 1..Len(Tail(s)), NEW j \in 1..Len(Tail(s)), i < j,
                      Tail(s)[i].k = 1, Tail(s)[j].k = 1
               PROVE  Tail(s)[i].f < Tail(s)[j].f
    BY DEF UnitsRise
  <2>1. i + 1 < j + 1
    OBVIOUS
  <2> QED BY <1>1, <2>1 DEF Ahead, UnitsRise
<1>4. UnitsBefore(Tail(s), c)
  BY <1>1 DEF Ahead, UnitsBefore
<1>5. f < Head(s).f
  BY <1>1 DEF Ahead, UnitsAfter
<1> QED BY <1>2, <1>3, <1>4, <1>5 DEF Ahead
-----------------------------------------------------------------------------
(* The steps keep the order and the senders.                               *)

LEMMA Kinds ==
    ASSUME IInv
    PROVE  /\ que \in Seq(Units) /\ Contents \in Seq(Datagrams) /\ open \in Seq(Units)
           /\ open # <<>> => open[1] \in Units /\ open = <<open[1]>> /\ Len(open) = 1
           /\ open[1] \in Units => open[1].f \in Nat
           /\ done.f \in Nat /\ Last \in Nat /\ sent \in Nat
<1>1. TaskType /\ PeerType /\ MaxSent \in Nat
  BY TypeParts, RxAssumption DEF IInv
<1>2. que \in Seq(Units) /\ Contents \in Seq(Datagrams)
  BY <1>1, ContentsType DEF TaskType
<1>3. /\ open \in Seq(Units)
      /\ open # <<>> => open[1] \in Units /\ open = <<open[1]>> /\ Len(open) = 1
  <2>1. open = <<>> \/ \E u \in Units : open = <<u>>
    BY <1>1 DEF TaskType
  <2>3. ASSUME NEW u \in Units
        PROVE  <<u>> \in Seq(Units) /\ <<u>>[1] = u /\ Len(<<u>>) = 1
    OBVIOUS
  <2>4. <<>> \in Seq(Units)
    OBVIOUS
  <2>2. ASSUME NEW u \in Units, open = <<u>>
        PROVE  open \in Seq(Units) /\ open[1] \in Units /\ open = <<open[1]>> /\ Len(open) = 1
    <3>1. open[1] = u
      BY <2>2, <2>3, Zenon
    <3> QED BY <2>2, <2>3, <3>1, Zenon
  <2> QED BY <2>1, <2>2, <2>4, Zenon
<1>4. open[1] \in Units => open[1].f \in Nat
  BY <1>1 DEF Units
<1>5. done.f \in Nat /\ sent \in Nat
  BY <1>1 DEF TaskType, PeerType
<1>6. Last \in Nat
  BY <1>3, <1>4, <1>5 DEF Last
<1> QED BY <1>2, <1>3, <1>4, <1>5, <1>6

\* Units are parsed or forgotten, and no frame is begun.
LEMMA OrderRest ==
    ASSUME IInv, IInv', Ordered, UNCHANGED Contents, Rest(que', que),
           \/ done'.f = done.f /\ (UNCHANGED open \/ open' = <<>>)
           \/ done'.f = Last /\ open' = <<>>
    PROVE  Ordered'
<1>1. Last \in Nat /\ done.f \in Nat /\ que \in Seq(Units) /\ Contents \in Seq(Datagrams)
  BY Kinds
<1>2. Last' \in Nat /\ Last' <= Last
  BY <1>1, Kinds DEF Ordered, Last
<1>3. que' \in Seq(Units)
  BY DEF IInv, TypeOK
<1>4. Ahead(Last', que', Contents)
  BY <1>1, <1>2, <1>3, AheadRest DEF Ordered
<1>5. open' # <<>> => open'[1].k = 1 /\ done'.f < open'[1].f
  BY DEF Ordered
<1> QED BY <1>4, <1>5 DEF Ordered

LEMMA OwnedRest ==
    ASSUME IInv, Owned, UNCHANGED peers, UNCHANGED Contents, done'.f <= sent,
           Named(open') \subseteq Named(open) \cup Named(que), Named(que') \subseteq Named(que)
    PROVE  Owned'
<1>1. Senders' \subseteq Senders /\ sent' = sent
  BY DEF Senders, peers
<1>2. \A a \in Senders' :
        a[1] \in 0..sent' /\ \A b \in Senders' : a[1] = b[1] => a[2] = b[2]
  BY <1>1 DEF Owned
<1> QED BY <1>1, <1>2 DEF Owned

\* What a peer sends is a frame of a new number, or the rest of one it owes.
LEMMA WhatArrives ==
    ASSUME IInv, NEW c \in Peers, Arrive(c)
    PROVE  \E d \in Datagrams :
             /\ Add_UDP_Que(d) /\ d.from = c
             /\ \/ /\ d.f = sent + 1 /\ sent' = sent + 1
                   /\ UNCHANGED owed \/ owed' = [owed EXCEPT ![c] = sent + 1]
                \/ /\ d.part = "tail" /\ d.f = owed[c] /\ owed[c] # 0 /\ UNCHANGED sent
                   /\ owed' = [owed EXCEPT ![c] = 0]
<1>0. PeerType /\ MaxSent \in Nat
  BY TypeParts, RxAssumption DEF IInv
<1>1. CASE sent < MaxSent /\ sent' = sent + 1
  <2>1. sent + 1 \in 1..MaxSent
    BY <1>0, <1>1 DEF PeerType
  <2> DEFINE d(p) == [f |-> sent + 1, from |-> c, part |-> p]
  <2>2. d("whole") \in Datagrams /\ d("head") \in Datagrams
    BY <2>1 DEF Datagrams
  <2>3. \A p : d(p).f = sent + 1 /\ d(p).from = c
    OBVIOUS
  <2>4. [f |-> sent', from |-> c, part |-> "whole"] = d("whole")
    BY <1>1
  <2>5. [f |-> sent', from |-> c, part |-> "head"] = d("head")
    BY <1>1
  <2> HIDE DEF d
  <2>6. CASE Add_UDP_Que(d("whole")) /\ UNCHANGED owed
    BY <2>2, <2>3, <2>6, <1>1
  <2>7. CASE owed' = [owed EXCEPT ![c] = sent'] /\ Add_UDP_Que(d("head"))
    BY <2>2, <2>3, <2>7, <1>1
  <2>8. ~(UNCHANGED sent)
    BY <1>0, <1>1 DEF PeerType
  <2> QED BY <2>4, <2>5, <2>6, <2>7, <2>8 DEF Arrive
<1>2. CASE /\ owed[c] # 0
           /\ Add_UDP_Que([f |-> owed[c], from |-> c, part |-> "tail"])
           /\ owed' = [owed EXCEPT ![c] = 0]
           /\ UNCHANGED sent
  <2> DEFINE d == [f |-> owed[c], from |-> c, part |-> "tail"]
  <2>1. owed[c] \in 1..MaxSent
    BY <1>0, <1>2 DEF PeerType
  <2>2. d \in Datagrams
    BY <2>1 DEF Datagrams
  <2>3. d.f = owed[c] /\ d.from = c /\ d.part = "tail"
    OBVIOUS
  <2> HIDE DEF d
  <2> QED BY <1>2, <2>2, <2>3 DEF d
<1> QED BY <1>1, <1>2 DEF Arrive

LEMMA ArriveOrder ==
    ASSUME IInv, IInv', Ordered, Owned, NEW c \in Peers, Arrive(c)
    PROVE  Ordered' /\ Owned'
<1>1. PICK d \in Datagrams :
        /\ Add_UDP_Que(d) /\ d.from = c
        /\ \/ /\ d.f = sent + 1 /\ sent' = sent + 1
              /\ UNCHANGED owed \/ owed' = [owed EXCEPT ![c] = sent + 1]
           \/ /\ d.part = "tail" /\ d.f = owed[c] /\ owed[c] # 0 /\ UNCHANGED sent
              /\ owed' = [owed EXCEPT ![c] = 0]
  BY WhatArrives
<1>2. Contents' = <<>> \/ Contents' = Append(Contents, d)
  BY <1>1, PutRefined DEF Queue!Put
<1>3. UNCHANGED <<que, open, done>>
  BY <1>1 DEF Add_UDP_Que, byteQue
<1>4. /\ que \in Seq(Units) /\ Contents \in Seq(Datagrams) /\ open \in Seq(Units)
      /\ open # <<>> => Len(open) = 1 /\ open[1].f \in Nat
      /\ done.f \in Nat /\ Last \in Nat /\ sent \in Nat
  BY Kinds
<1>5. owed \in [Peers -> 0..MaxSent]
  BY TypeParts DEF IInv, PeerType
<1>6. Owned'
  <2>1. Named(Contents') \subseteq Named(Contents) \cup {<<d.f, c>>}
    <3>1. Named(<<>>) = {}
      BY DEF Named
    <3> QED BY <3>1, <1>1, <1>2, <1>4, AppendNames
  <2>2. CASE d.f = sent + 1 /\ sent' = sent + 1
             /\ (UNCHANGED owed \/ owed' = [owed EXCEPT ![c] = sent + 1])
    <3>1. \A e \in Peers : owed'[e] = owed[e] \/ (e = c /\ owed'[e] = sent + 1)
      BY <2>2, <1>5
    <3>2. Senders' \subseteq Senders \cup {<<sent + 1, c>>}
      BY <2>1, <2>2, <3>1, <1>3 DEF Senders
    <3>3. \A a \in Senders' : (a \in Senders /\ a[1] \in 0..sent) \/ (a[1] = sent + 1 /\ a[2] = c)
      BY <3>2 DEF Owned
    <3>4. \A a \in Senders' : a[1] \in 0..sent'
      BY <2>2, <3>3, <1>4
    <3> QED BY <2>2, <3>3, <3>4, <1>3, <1>4 DEF Owned
  <2>3. CASE d.f = owed[c] /\ owed[c] # 0 /\ UNCHANGED sent /\ owed' = [owed EXCEPT ![c] = 0]
    <3>1. \A e \in Peers : owed'[e] = owed[e] \/ owed'[e] = 0
      BY <2>3, <1>5
    <3>2. <<d.f, c>> \in Senders
      BY <2>3 DEF Senders
    <3>3. Senders' \subseteq Senders
      BY <2>1, <3>1, <3>2, <1>3 DEF Senders
    <3> QED BY <2>3, <3>3, <1>3 DEF Owned
  <2> QED BY <1>1, <2>2, <2>3
<1>7. Ahead(Last, que, Contents')
  <2>1. CASE Contents' = <<>>
    BY <2>1, <1>4, AheadEmpty DEF Ordered
  <2>2. CASE Contents' = Append(Contents, d)
    <3>1. CASE d.part = "tail"
      BY <3>1, <2>2, <1>4, AheadPut DEF Ordered
    <3>2. CASE d.f = sent + 1
      <4>1. ASSUME NEW s, Named(s) \subseteq Senders, NEW i \in 1..Len(s)
            PROVE  s[i].f \in 0..sent
        <5>1. <<s[i].f, s[i].from>> \in Senders
          BY <4>1 DEF Named
        <5> QED BY <5>1 DEF Owned
      <4>2. \A i \in 1..Len(que) : que[i].f \in Nat /\ que[i].f <= sent
        BY <4>1, <1>4 DEF Senders
      <4>3. \A i \in 1..Len(Contents) : Contents[i].f \in Nat /\ Contents[i].f <= sent
        BY <4>1, <1>4 DEF Senders
      <4>4. Last <= sent
        <5>1. open # <<>> => open[1].f <= sent
          BY <4>1, <1>4 DEF Senders
        <5> QED BY <5>1 DEF Last, Owned
      <4>5. /\ Last < d.f
            /\ \A i \in 1..Len(que) : que[i].f < d.f
            /\ \A i \in 1..Len(Contents) : Contents[i].f < d.f
        BY <3>2, <4>2, <4>3, <4>4, <1>4
      <4> QED BY <4>5, <2>2, <1>4, AheadPut DEF Ordered
    <3> QED BY <3>1, <3>2, <1>1
  <2> QED BY <1>2, <2>1, <2>2
<1>8. Ordered'
  BY <1>3, <1>7 DEF Ordered, Last
<1> QED BY <1>6, <1>8

LEMMA TakeOrder ==
    ASSUME IInv, IInv', Ordered, Owned, RecvCommDataQue
    PROVE  Ordered' /\ Owned'
<1>1. /\ Contents # <<>> /\ Contents' = Tail(Contents)
      /\ got' = Head(Contents) /\ got' = slot[rear]
  BY GetRefined DEF Queue!Get, RecvCommDataQue
<1>2. PICK d \in Datagrams : d = Head(Contents)
  BY <1>1, Kinds
<1>3. que' = Overrun(que \o UnitsOf(d)) /\ UNCHANGED <<open, done, sent, owed>>
  BY <1>1, <1>2 DEF RecvCommDataQue, peers
<1>4. /\ que \in Seq(Units) /\ Contents \in Seq(Datagrams) /\ Last \in Nat
      /\ que' \in Seq(Units) /\ Tail(Contents) \in Seq(Datagrams)
      /\ que \o UnitsOf(d) \in Seq(Units)
  BY <1>1, Kinds, AddUnits DEF IInv, TypeOK
<1>5. Rest(que', que \o UnitsOf(d))
  BY <1>3, <1>4, OverrunRests
<1>6. Ahead(Last, que \o UnitsOf(d), Tail(Contents))
  BY <1>1, <1>2, <1>4, AheadTaken DEF Ordered
<1>7. Ahead(Last, que', Tail(Contents))
  <2>1. Last <= Last
    BY <1>4
  <2> QED BY <1>4, <1>5, <1>6, <2>1, AheadRest
<1>8. Ordered'
  BY <1>1, <1>3, <1>7 DEF Ordered, Last
<1>9. Senders' \subseteq Senders
  <2>1. <<d.f, d.from>> \in Named(Contents)
    BY <1>1, <1>2, <1>4, HeadNamed
  <2>2. Named(que') \subseteq Named(que) \cup {<<d.f, d.from>>}
    BY <1>4, <1>5, RestNames, AddNames
  <2>3. Named(Contents') \subseteq Named(Contents)
    BY <1>1, <1>4, RestCases, RestNames
  <2> QED BY <2>1, <2>2, <2>3, <1>3 DEF Senders
<1>10. Owned'
  BY <1>3, <1>9 DEF Owned
<1> QED BY <1>8, <1>10

LEMMA BeginOrder ==
    ASSUME IInv, IInv', Ordered, Owned, rsStartCheck
    PROVE  Ordered' /\ Owned'
<1>1. /\ que # <<>> /\ open = <<>> /\ que' = Tail(que)
      /\ UNCHANGED <<ring, peers, done>>
  BY DEF rsStartCheck
<1>2. /\ que \in Seq(Units) /\ que' \in Seq(Units) /\ Contents \in Seq(Datagrams)
      /\ Last \in Nat /\ Last = done.f /\ Contents' = Contents
  BY <1>1, Kinds, RingKept DEF IInv, TypeOK, Last
<1>3. Rest(que', que) /\ Named(que') \subseteq Named(que)
  BY <1>1, <1>2, RestCases, RestNames
<1>4. CASE Head(que).k = 1
  <2>1. open' = <<Head(que)>> /\ Head(que) \in Units
    BY <1>1, <1>2, <1>4 DEF rsStartCheck
  <2>2. open' # <<>> /\ open'[1] = Head(que) /\ Len(open') = 1
    BY <2>1
  <2>3. Last < Head(que).f /\ Ahead(Head(que).f, que', Contents)
    BY <1>1, <1>2, <1>4, AheadBegun DEF Ordered
  <2>4. Ordered'
    BY <1>1, <1>2, <1>4, <2>2, <2>3 DEF Ordered, Last
  <2>5. Named(open') \subseteq Named(que)
    <3>1. \A i \in 1..Len(open') : i = 1
      BY <2>2
    <3>2. <<Head(que).f, Head(que).from>> \in Named(que)
      BY <1>1, <1>2, HeadNamed
    <3> QED BY <2>2, <3>1, <3>2 DEF Named
  <2>6. Owned'
    BY <1>1, <1>2, <1>3, <2>5, OwnedRest DEF Owned
  <2> QED BY <2>4, <2>6
<1>5. CASE Head(que).k # 1
  <2>1. open' = <<>>
    BY <1>5 DEF rsStartCheck
  <2>2. Ordered'
    BY <1>1, <1>2, <1>3, <2>1, OrderRest
  <2>3. Owned'
    BY <1>1, <1>2, <1>3, <2>1, OwnedRest DEF Owned
  <2> QED BY <2>2, <2>3
<1> QED BY <1>4, <1>5

\* A frame is handled: it is the one begun.
LEMMA FrameOrder ==
    ASSUME IInv, IInv', Ordered, Owned, GetFrame
    PROVE  Ordered' /\ Owned' /\ done'.f > done.f
<1>1. /\ que # <<>> /\ open # <<>> /\ done'.f = open[1].f /\ open' = <<>>
      /\ que' = <<>> \/ que' = Tail(que)
      /\ UNCHANGED <<ring, peers>>
  BY DEF GetFrame, Cleared, Empty
<1>2. /\ que \in Seq(Units) /\ que' \in Seq(Units) /\ open \in Seq(Units)
      /\ Last = open[1].f /\ Contents' = Contents
  BY <1>1, Kinds, RingKept DEF IInv, TypeOK, Last
<1>3. Rest(que', que) /\ Named(que') \subseteq Named(que)
  BY <1>1, <1>2, RestCases, RestNames
<1>4. done'.f > done.f
  BY <1>1, Kinds DEF Ordered
<1>5. done'.f <= sent
  <2>1. 1 \in 1..Len(open)
    BY <1>1, Kinds
  <2>2. <<open[1].f, open[1].from>> \in Senders
    BY <2>1 DEF Senders, Named
  <2> QED BY <1>1, <2>2, Kinds DEF Owned
<1>6. Ordered'
  BY <1>1, <1>2, <1>3, OrderRest
<1>7. Named(open') \subseteq Named(open)
  <2>1. \A i \in 1..Len(<<>>) : FALSE
    OBVIOUS
  <2> QED BY <2>1, <1>1 DEF Named
<1>8. Owned'
  BY <1>1, <1>2, <1>3, <1>5, <1>7, OwnedRest
<1> QED BY <1>4, <1>6, <1>8

\* The other steps of the task.
LEMMA RestOrder ==
    ASSUME IInv, IInv', Ordered, Owned,
           Wake \/ RecvNothing \/ CrcFails \/ Parsed \/ Retry \/ TimeOut
    PROVE  Ordered' /\ Owned' /\ UNCHANGED done
<1>1. UNCHANGED <<ring, got, peers>>
  BY TaskStep
<1>2. UNCHANGED done /\ (UNCHANGED open \/ open' = <<>>)
  BY DEF Wake, RecvNothing, CrcFails, Parsed, Retry, TimeOut, byteQue, Empty
<1>3. que' = que \/ que' = <<>> \/ (que # <<>> /\ que' = Tail(que))
  BY DEF Wake, RecvNothing, CrcFails, Parsed, Retry, TimeOut, byteQue, Empty
<1>4. Contents' = Contents /\ que \in Seq(Units) /\ que' \in Seq(Units)
  BY <1>1, Kinds, RingKept DEF IInv, TypeOK
<1>5. Rest(que', que) /\ Named(que') \subseteq Named(que)
  BY <1>3, <1>4, RestCases, RestNames
<1>6. Ordered'
  BY <1>2, <1>4, <1>5, OrderRest
<1>7. Named(open') \subseteq Named(open)
  <2>1. open \in Seq(Units)
    BY Kinds
  <2>2. <<>> \in Seq(Units)
    OBVIOUS
  <2> QED BY <1>2, <2>1, <2>2, RestCases, RestNames
<1>8. Owned'
  BY <1>1, <1>2, <1>4, <1>5, <1>7, OwnedRest DEF Owned
<1> QED BY <1>2, <1>6, <1>8

\* Nothing is done, or what a peer still owes is lost.
LEMMA IdleOrder ==
    ASSUME IInv, Ordered, Owned,
           UNCHANGED <<ring, got, que, open, done, sent>>,
           UNCHANGED owed \/ \E c \in Peers : owed' = [owed EXCEPT ![c] = 0]
    PROVE  Ordered' /\ Owned'
<1>1. Contents' = Contents
  BY RingKept
<1>2. Ordered'
  BY <1>1 DEF Ordered, Last
<1>3. \A c \in Peers : owed'[c] = owed[c] \/ owed'[c] = 0
  BY TypeParts DEF IInv, PeerType
<1>4. Senders' \subseteq Senders
  BY <1>1, <1>3 DEF Senders
<1>5. Owned'
  BY <1>4 DEF Owned
<1> QED BY <1>2, <1>5

LEMMA OrderStep ==
    ASSUME IInv, IInv', Ordered, Owned, [Next]_vars
    PROVE  Ordered' /\ Owned' /\ (done' # done => done'.f > done.f)
<1>1. ASSUME NEW c \in Peers, Arrive(c) PROVE Ordered' /\ Owned' /\ UNCHANGED done
  <2>1. UNCHANGED done
    BY <1>1, WhatArrives DEF Add_UDP_Que
  <2> QED BY <1>1, <2>1, ArriveOrder
<1>2. CASE RecvCommDataQue
  BY <1>2, TakeOrder DEF RecvCommDataQue
<1>3. CASE rsStartCheck
  BY <1>3, BeginOrder DEF rsStartCheck
<1>4. CASE GetFrame
  BY <1>4, FrameOrder
<1>5. CASE Wake \/ RecvNothing \/ CrcFails \/ Parsed \/ Retry \/ TimeOut
  BY <1>5, RestOrder
<1>6. ASSUME NEW c \in Peers, LoseTail(c) PROVE Ordered' /\ Owned' /\ UNCHANGED done
  <2>1. UNCHANGED <<ring, got, que, open, done, sent>> /\ owed' = [owed EXCEPT ![c] = 0]
    BY <1>6 DEF LoseTail, byteQue
  <2> QED BY <2>1, IdleOrder
<1>7. CASE UNCHANGED vars
  <2>1. UNCHANGED <<ring, got, que, open, done, sent, owed>>
    BY <1>7 DEF vars, byteQue, peers
  <2> QED BY <2>1, IdleOrder
<1> QED BY <1>1, <1>2, <1>3, <1>4, <1>5, <1>6, <1>7 DEF Next, UDP_Sel_Proc_Task
-----------------------------------------------------------------------------
(* What is in the byte queue at each place of the task of the LS's port:   *)
(* nothing before and after a message, and while one is parsed the rest of *)
(* it comes from the datagram taken last.                                  *)

AtSelect == que = <<>> /\ open = <<>> /\ pos = 0
AtWait == que = <<>> /\ open # <<>> /\ pos = 1
Full == QueSize = 3 /\ open # <<>> /\ Len(que) = 2 /\ que[1].k = 1 /\ pos = 0
Fresh == que = UnitsOf(got) /\ got \in Datagrams /\ pos = Len(que)
HeadTaken == que = <<>> /\ pos = 1
FromGot == que # <<>> /\ (que[1].k = 1 \/ que[1].from = got.from)

LsPlace == port = "ls" =>
    /\ pc = "select" => AtSelect
    /\ pc = "wait" => AtWait
    /\ pc = "recv" => AtSelect \/ AtWait \/ Full
    /\ pc = "parse" /\ open = <<>> => que = <<>> \/ Fresh
    /\ pc = "parse" /\ open # <<>> => HeadTaken \/ FromGot

\* Units that fit are kept as they are; a byte queue of three that holds two keeps, of
\* two more, the second.
LEMMA OverrunFits == ASSUME NEW s, Len(s) < QueSize PROVE Overrun(s) = s
BY DEF Overrun

LEMMA NotEmpty == ASSUME NEW q, Len(q) = 1 PROVE q # <<>>
<1>1. Len(<<>>) # 1
  OBVIOUS
<1> QED BY <1>1, Zenon

LEMMA TailOfTwo ==
    ASSUME NEW S, NEW q \in Seq(S), Len(q) = 2
    PROVE  Tail(q) # <<>> /\ Tail(q)[1] = q[2]
<1>1. q # <<>> /\ Len(Tail(q)) = 1
  OBVIOUS
<1>2. 1 \in 1..Len(Tail(q)) /\ 1 + 1 = 2
  <2>1. 1 \in 1..1 /\ 1 + 1 = 2
    OBVIOUS
  <2> QED BY <1>1, <2>1, Zenon
<1>3. Tail(q)[1] = q[1 + 1]
  BY <1>1, <1>2, HeadTailProperties
<1> QED BY <1>1, <1>2, <1>3, NotEmpty

LEMMA OverrunLast ==
    ASSUME QueSize = 3, NEW q \in Seq(Units), Len(q) = 2,
           NEW us \in Seq(Units), Len(us) = 1 \/ Len(us) = 2
    PROVE  /\ Len(us) = 1 => Overrun(q \o us) = <<>>
           /\ Len(us) = 2 => Overrun(q \o us) # <<>> /\ Overrun(q \o us)[1] = us[2]
<1>1. q \o us \in Seq(Units) /\ Len(q \o us) = 2 + Len(us)
  <2>1. q \o us \in Seq(Units) /\ Len(q \o us) = Len(q) + Len(us)
    BY ConcatProperties
  <2> QED BY <2>1, Zenon
<1>2. Overrun(q \o us) = SubSeq(q \o us, 4, Len(q \o us))
  <2>1. ~(2 + Len(us) < QueSize) /\ QueSize + 1 = 4
    <3>1. ~(2 + 1 < 3) /\ ~(2 + 2 < 3) /\ 3 + 1 = 4
      OBVIOUS
    <3> QED BY <3>1, Zenon
  <2>2. ~(Len(q \o us) < QueSize)
    BY <1>1, <2>1, Zenon
  <2> QED BY <2>1, <2>2, Zenon DEF Overrun
<1>3. CASE Len(us) = 1
  <2>1. 2 + Len(us) < 4 /\ 2 + Len(us) \in Int /\ 4 \in Int
    BY <1>3
  <2>2. Len(us) # 2
    BY <1>3
  <2>3. SubSeq(q \o us, 4, 2 + Len(us)) = <<>>
    BY <2>1, SubSeqEmpty
  <2> QED BY <1>1, <1>2, <2>2, <2>3, Zenon
<1>4. CASE Len(us) = 2
  <2>1. 2 + Len(us) = 4 /\ Len(us) # 1
    BY <1>4
  <2>2. (q \o us)[4] = us[2]
    <3>1. 4 \in 1..Len(q) + Len(us) /\ 4 - Len(q) = 2 /\ ~(4 <= Len(q))
      BY <1>4
    <3>2. (q \o us)[4] = IF 4 <= Len(q) THEN q[4] ELSE us[4 - Len(q)]
      BY <3>1, ConcatProperties
    <3> QED BY <3>1, <3>2
  <2>3. ASSUME NEW s \in Seq(Units), Len(s) = 4
        PROVE  Len(SubSeq(s, 4, 4)) = 1 /\ SubSeq(s, 4, 4)[1] = s[4]
    BY <2>3
  <2>4. Len(q \o us) = 4
    BY <1>1, <2>1, Zenon
  <2>5. /\ Len(SubSeq(q \o us, 4, 4)) = 1
        /\ SubSeq(q \o us, 4, 4)[1] = us[2]
    BY <1>1, <2>2, <2>3, <2>4, Zenon
  <2>6. SubSeq(q \o us, 4, 4) # <<>>
    BY <2>5, NotEmpty
  <2> QED BY <1>2, <2>1, <2>4, <2>5, <2>6, Zenon
<1> QED BY <1>3, <1>4

LEMMA PlaceRecv ==
    ASSUME IInv, IInv', LsPlace, RecvCommDataQue
    PROVE  LsPlace'
<1> SUFFICES ASSUME port = "ls" PROVE LsPlace'
  BY DEF LsPlace, RecvCommDataQue
<1>1. got' \in Datagrams /\ got' = slot[rear]
  <2>1. Contents # <<>> /\ got' = Head(Contents)
    BY GetRefined DEF Queue!Get
  <2> QED BY <2>1, Kinds DEF RecvCommDataQue
<1>2. PICK us \in Seq(Units) : us = UnitsOf(got')
  BY <1>1, UnitsType
<1>3. /\ Len(us) = 1 \/ Len(us) = 2
      /\ \A i \in 1..Len(us) : us[i].from = got'.from
      /\ Len(us) = 2 => us[1].k = 1
  <2>1. Len(us) \in 1..2
    BY <1>1, <1>2, UnitsShape
  <2>2. \A n \in 1..2 : n = 1 \/ n = 2
    OBVIOUS
  <2> QED BY <1>1, <1>2, <2>1, <2>2, UnitsShape
<1> DEFINE end == pos + Len(us)
<1>4. /\ que' = Overrun(que \o us)
      /\ pos' = IF end < QueSize THEN end ELSE end - QueSize
      /\ pc' = IF end = QueSize THEN "recv" ELSE "parse"
      /\ UNCHANGED <<port, open>>
  BY <1>1, <1>2 DEF RecvCommDataQue, RecvOne
<1>5. /\ que \in Seq(Units) /\ QueSize \in Nat /\ QueSize > 2
      /\ Len(que \o us) = Len(que) + Len(us) /\ que \o us \in Seq(Units)
      /\ AtSelect \/ AtWait \/ Full
  BY <1>2, RxAssumption, Kinds, ConcatProperties DEF LsPlace, RecvCommDataQue
<1>6. CASE que = <<>>
  <2>1. que \o us = us
    BY <1>6, ConcatEmptySeq
  <2>2. que' = us
    <3>1. Len(us) < QueSize
      BY <1>3, <1>5
    <3> QED BY <1>4, <2>1, <3>1, OverrunFits
  <2>3. CASE open = <<>> /\ pos = 0
    <3>1. pc' = "parse" /\ pos' = Len(que')
      BY <1>3, <1>4, <1>5, <2>2, <2>3
    <3>2. Fresh'
      BY <1>1, <1>2, <2>2, <3>1 DEF Fresh
    <3> QED BY <1>4, <2>3, <3>1, <3>2 DEF LsPlace
  <2>4. CASE open # <<>> /\ pos = 1
    <3>1. que' # <<>> /\ que'[1].from = got'.from
      BY <1>3, <2>2
    <3>2. CASE end = QueSize
      <4>1. Len(us) = 2 /\ QueSize = 3 /\ pos' = 0 /\ pc' = "recv"
        BY <1>3, <1>4, <1>5, <2>4, <3>2
      <4>2. Full'
        BY <1>3, <1>4, <2>2, <2>4, <4>1 DEF Full
      <4> QED BY <4>1, <4>2 DEF LsPlace
    <3>3. CASE end # QueSize
      <4>1. FromGot' /\ pc' = "parse"
        BY <1>4, <3>1, <3>3 DEF FromGot
      <4> QED BY <1>4, <2>4, <4>1 DEF LsPlace
    <3> QED BY <3>2, <3>3
  <2> QED BY <1>5, <1>6, <2>3, <2>4 DEF AtSelect, AtWait, Full
<1>7. CASE Full
  <2>1. pc' = "parse" /\ pos' = Len(us)
    <3>1. end = Len(us) /\ Len(us) < QueSize
      BY <1>3, <1>7 DEF Full
    <3> HIDE DEF end
    <3> QED BY <1>3, <1>4, <1>5, <3>1
  <2>2. /\ Len(us) = 1 => que' = <<>>
        /\ Len(us) = 2 => que' # <<>> /\ que'[1] = us[2]
    BY <1>3, <1>4, <1>5, <1>7, OverrunLast DEF Full
  <2>3. CASE Len(us) = 1
    BY <1>4, <1>7, <2>1, <2>2, <2>3 DEF LsPlace, Full, HeadTaken
  <2>4. CASE Len(us) = 2
    BY <1>3, <1>4, <1>7, <2>1, <2>2, <2>4 DEF LsPlace, Full, FromGot
  <2> QED BY <1>3, <2>3, <2>4
<1> QED BY <1>5, <1>6, <1>7 DEF AtSelect, AtWait

LEMMA PlaceBegin ==
    ASSUME IInv, LsPlace, rsStartCheck
    PROVE  LsPlace'
<1> SUFFICES ASSUME port = "ls" PROVE LsPlace'
  BY DEF LsPlace, rsStartCheck
<1>1. /\ pc = "parse" /\ pc' = "parse" /\ que # <<>> /\ open = <<>>
      /\ que' = Tail(que) /\ UNCHANGED <<port, got, pos>>
      /\ open' = IF que[1].k = 1 THEN <<que[1]>> ELSE <<>>
  BY DEF rsStartCheck
<1>2. que \in Seq(Units) /\ que = UnitsOf(got) /\ got \in Datagrams /\ pos = Len(que)
  BY <1>1, Kinds DEF LsPlace, Fresh
<1>3. /\ Len(que) = 1 \/ Len(que) = 2
      /\ \A i \in 1..Len(que) : que[i].from = got.from
      /\ Len(que) = 2 => que[1].k = 1
  <2>1. Len(que) \in 1..2
    BY <1>2, UnitsShape
  <2>2. \A n \in 1..2 : n = 1 \/ n = 2
    OBVIOUS
  <2> QED BY <1>2, <2>1, <2>2, UnitsShape
<1>4. CASE Len(que) = 1
  <2>1. que' = <<>>
    BY <1>1, <1>2, <1>4
  <2> QED BY <1>1, <1>2, <1>4, <2>1 DEF LsPlace, HeadTaken
<1>5. CASE Len(que) = 2
  <2>1. que' # <<>> /\ que'[1] = que[2]
    BY <1>1, <1>2, <1>5, TailOfTwo
  <2>2. FromGot'
    BY <1>1, <1>3, <1>5, <2>1 DEF FromGot
  <2>3. open' # <<>>
    BY <1>1, <1>3, <1>5
  <2> QED BY <1>1, <2>2, <2>3 DEF LsPlace
<1> QED BY <1>3, <1>4, <1>5

LEMMA PlaceStep ==
    ASSUME IInv, IInv', LsPlace, [Next]_vars
    PROVE  LsPlace'
<1> SUFFICES ASSUME port = "ls" PROVE LsPlace'
  <2>1. UNCHANGED port
    BY DEF Next, UDP_Sel_Proc_Task, Wake, RecvCommDataQue, RecvNothing, rsStartCheck,
           GetFrame, CrcFails, Parsed, Retry, TimeOut, Arrive, Add_UDP_Que, LoseTail, vars
  <2> QED BY <2>1 DEF LsPlace
<1> USE DEF AtSelect, AtWait, Full, Fresh, HeadTaken, FromGot, LsPlace, byteQue
<1>1. ASSUME UNCHANGED <<port, pc, got, que, pos, open>> PROVE LsPlace'
  BY <1>1
<1>2. ASSUME NEW c \in Peers, Arrive(c) PROVE LsPlace'
  BY <1>1, <1>2, WhatArrives DEF Add_UDP_Que
<1>3. ASSUME NEW c \in Peers, LoseTail(c) PROVE LsPlace'
  BY <1>1, <1>3 DEF LoseTail
<1>4. CASE UNCHANGED vars
  BY <1>1, <1>4 DEF vars
<1>5. CASE Wake
  BY <1>5 DEF Wake
<1>6. CASE RecvCommDataQue
  BY <1>6, PlaceRecv
<1>7. CASE RecvNothing
  <2>1. Full => que # <<>>
    BY Kinds
  <2> QED BY <1>7, <2>1 DEF RecvNothing
<1>8. CASE rsStartCheck
  BY <1>8, PlaceBegin
<1>9. CASE GetFrame
  BY <1>9 DEF GetFrame, Cleared, Empty
<1>10. CASE CrcFails
  BY <1>10 DEF CrcFails
<1>11. CASE Parsed
  BY <1>11 DEF Parsed, Empty
<1>12. CASE Retry
  BY <1>12 DEF Retry
<1>13. CASE TimeOut
  BY <1>13 DEF TimeOut, Empty
<1> QED BY <1>2, <1>3, <1>4, <1>5, <1>6, <1>7, <1>8, <1>9, <1>10, <1>11, <1>12, <1>13
        DEF Next, UDP_Sel_Proc_Task

-----------------------------------------------------------------------------
(* Frames in order, intact, and answered to who sent them.                 *)

FInv == IInv /\ Ordered /\ Owned /\ LsPlace /\ Intact /\ LsAnswered

LEMMA FrameInit == Init => FInv
<1> SUFFICES ASSUME Init PROVE FInv
  OBVIOUS
<1>1. IInv
  BY InvInit
<1>2. /\ open = <<>> /\ que = <<>> /\ pos = 0 /\ pc = "select" /\ sent = 0 /\ done.f = 0
      /\ ~done.mixed /\ done.right /\ \A c \in Peers : owed[c] = 0
  BY DEF Init
<1>3. Pending = 0
  BY DEF Init, Pending
<1>4. Contents = <<>>
  BY <1>3 DEF Contents
<1>5. Len(open) = 0 /\ Len(que) = 0 /\ Len(Contents) = 0
  BY <1>2, <1>4
<1>6. Ordered
  BY <1>2, <1>5 DEF Ordered, Ahead, UnitsAfter, UnitsRise, WaitAfter, WaitRises, UnitsBefore
<1>7. Owned
  <2>1. Named(open) = {} /\ Named(que) = {} /\ Named(Contents) = {}
    BY <1>5 DEF Named
  <2>2. Senders = {}
    BY <1>2, <2>1 DEF Senders
  <2> QED BY <1>2, <2>2 DEF Owned
<1>8. LsPlace /\ Intact /\ LsAnswered
  BY <1>2 DEF LsPlace, AtSelect, Intact, LsAnswered
<1> QED BY <1>1, <1>6, <1>7, <1>8 DEF FInv

\* The frame begun and the rest taken for its own are one client's.
LEMMA FrameRight ==
    ASSUME FInv, GetFrame
    PROVE  Intact' /\ LsAnswered'
<1>1. /\ pc = "parse" /\ que # <<>> /\ open # <<>> /\ UNCHANGED port
      /\ done'.mixed = Mixed /\ done'.right = (open[1].from = got.from)
      /\ port = "ls" \/ ~Mixed
  BY DEF GetFrame, CrcRight
<1>2. port \in {"node", "ls"}
  BY DEF FInv, IInv, TypeOK
<1>3. Intact'
  BY <1>1 DEF Intact
<1>4. ASSUME port = "ls", ~Mixed PROVE open[1].from = got.from
  <2>1. Head(que).f = open[1].f /\ Head(que).k = 2 /\ Head(que) = que[1]
    BY <1>4 DEF Mixed
  <2>2. que[1].from = got.from
    BY <1>1, <1>4, <2>1 DEF FInv, LsPlace, HeadTaken, FromGot
  <2>3. 1 \in 1..Len(open) /\ 1 \in 1..Len(que)
    BY <1>1, Kinds DEF FInv
  <2>4. <<open[1].f, open[1].from>> \in Senders /\ <<que[1].f, que[1].from>> \in Senders
    BY <2>3 DEF Senders, Named
  <2>5. open[1].from = que[1].from
    BY <2>1, <2>4 DEF FInv, Owned
  <2> QED BY <2>2, <2>5
<1> QED BY <1>1, <1>3, <1>4 DEF LsAnswered

LEMMA FrameStep ==
    ASSUME FInv, [Next]_vars
    PROVE  FInv' /\ (done' # done => done'.f > done.f)
<1>1. IInv'
  BY Step DEF FInv
<1>2. Ordered' /\ Owned' /\ (done' # done => done'.f > done.f)
  BY <1>1, OrderStep DEF FInv
<1>3. LsPlace'
  BY <1>1, PlaceStep DEF FInv
<1>4. ASSUME UNCHANGED <<port, done>> PROVE Intact' /\ LsAnswered'
  BY <1>4 DEF FInv, Intact, LsAnswered
<1>5. CASE GetFrame
  BY <1>1, <1>2, <1>3, <1>5, FrameRight DEF FInv
<1>6. ASSUME NEW c \in Peers, Arrive(c) PROVE UNCHANGED <<port, done>>
  BY <1>6, WhatArrives DEF Add_UDP_Que, FInv
<1>7. ASSUME NEW c \in Peers, LoseTail(c) PROVE UNCHANGED <<port, done>>
  BY <1>7 DEF LoseTail
<1>8. CASE Wake \/ RecvCommDataQue \/ RecvNothing \/ rsStartCheck \/ CrcFails \/ Parsed
             \/ Retry \/ TimeOut \/ UNCHANGED vars
  <2>1. UNCHANGED <<port, done>>
    BY <1>8 DEF Wake, RecvCommDataQue, RecvNothing, rsStartCheck, CrcFails, Parsed, Retry,
                TimeOut, vars
  <2> QED BY <1>1, <1>2, <1>3, <1>4, <2>1 DEF FInv
<1>9. ASSUME NEW c \in Peers, Arrive(c) \/ LoseTail(c) PROVE FInv'
  BY <1>1, <1>2, <1>3, <1>4, <1>6, <1>7, <1>9 DEF FInv
<1> QED BY <1>2, <1>5, <1>8, <1>9 DEF Next, UDP_Sel_Proc_Task

LEMMA FrameInvariant == Spec => []FInv
<1>1. FInv /\ [Next]_vars => FInv'
  BY FrameStep
<1> QED BY FrameInit, <1>1, PTL DEF Spec

\* A client's frame that is acted upon is one a client sent, whatever the sizes of ring
\* and byte queue and however frames are cut, lost and overrun.
THEOREM FramesIntact == Spec => []Intact
<1>1. FInv => Intact
  BY DEF FInv
<1> QED BY FrameInvariant, <1>1, PTL

\* What is taken for one message of the LS is answered to its sender: its second half is
\* in the datagram taken last.
THEOREM LsAnswersSender == Spec => []LsAnswered
<1>1. FInv => LsAnswered
  BY DEF FInv
<1> QED BY FrameInvariant, <1>1, PTL

\* Frames are handled in the order they arrived, none twice.
THEOREM FramesInOrder == Spec => InOrder
<1>1. FInv /\ [Next]_vars => [done' # done => done'.f > done.f]_vars
  BY FrameStep
<1> QED BY FrameInvariant, <1>1, PTL DEF Spec, InOrder
=============================================================================
