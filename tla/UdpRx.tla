-------------------------------- MODULE UdpRx --------------------------------
(***************************************************************************)
(* Reception of UDP datagrams: the socket task (UDP_Sel_Task) puts them in *)
(* a ring and a byte in a pipe; the task of the port (UDP_Sel_Proc_Task)   *)
(* wakes up for each byte of the pipe, takes a datagram from the ring,     *)
(* adds its bytes to the port's byte queue and parses a frame.             *)
(*                                                                         *)
(* A port is "node" (the management clients; frames end in a CRC, and what *)
(* is left in the byte queue is kept) or "ls" (the LS; no CRC, the queue   *)
(* is emptied after every frame).  The ring is only used under its mutex.  *)
(*                                                                         *)
(* A frame is two units of bytes, so that it may come in two datagrams,    *)
(* be mixed with another or be cut by the end of the byte queue.  Peers    *)
(* are external: they send a frame in one datagram or in two, never two    *)
(* frames in one.  Frames are numbered in the order they arrive.           *)
(***************************************************************************)
EXTENDS Integers, Sequences

CONSTANTS
    N,          \* MAX_UDP_RX_QUE
    QueSize,    \* MAX_COMM_QUE, in units
    PipeSize,   \* capacity of the pipe
    Peers,
    MaxSent     \* bound on the frames sent

ASSUME RxAssumption ==
    /\ N \in Nat \ {0, 1} /\ PipeSize \in Nat /\ PipeSize >= N
    /\ QueSize \in Nat /\ QueSize > 2
    /\ MaxSent \in Nat

VARIABLES
    port,
    slot, front, rear,      \* udp_rx_que
    pipe,                   \* bytes in the pipe
    pc,                     \* UDP_Sel_Proc_Task
    got,                    \* comm_que: the datagram taken last, its sender recv_addr
    que,                    \* comm_que: the units not yet parsed,
    pos,                    \* the place the next is put (front),
    open,                   \* and the unit a frame was begun with (comm_mode)
    sent, owed,             \* external: frames sent, and those half sent
    done                    \* history: the frame handled last

ring == <<slot, front, rear>>
byteQue == <<que, pos, open>>
peers == <<sent, owed>>
vars == <<port, ring, pipe, pc, got, byteQue, peers, done>>

Datagrams == [f : 1..MaxSent, from : Peers, part : {"whole", "head", "tail"}]
NoDatagram == [f |-> 0, from |-> "nobody", part |-> "tail"]
Units == [f : 1..MaxSent, from : Peers, k : {1, 2}]

UnitsOf(d) ==
    LET u(k) == [f |-> d.f, from |-> d.from, k |-> k]
    IN  CASE d.part = "whole" -> <<u(1), u(2)>>
          [] d.part = "head" -> <<u(1)>>
          [] d.part = "tail" -> <<u(2)>>

-----------------------------------------------------------------------------
(* The ring and the pipe                                                   *)

After(i) == IF i + 1 = N THEN 0 ELSE i + 1

\* pipe_udp_push_write: the pipe does not block, a byte too many is dropped.
pipe_udp_push_write == IF pipe < PipeSize THEN pipe + 1 ELSE pipe

\* Nothing stops a writer a whole turn ahead.
AddAhead(d) ==      \* mutation: the index is advanced before the slot is filled
    /\ slot' = [slot EXCEPT ![After(front)] = d]
    /\ front' = After(front)
    /\ pipe' = pipe_udp_push_write
    /\ UNCHANGED <<port, rear, pc, got, byteQue, done>>
Add_UDP_Que(d) ==
    /\ slot' = [slot EXCEPT ![front] = d]
    /\ front' = After(front)
    /\ pipe' = pipe_udp_push_write
    /\ UNCHANGED <<port, rear, pc, got, byteQue, done>>

\* RecvUDPDataQue_All: a frame whole, its first half, or its second.
Arrive(c) ==
    \/ /\ sent < MaxSent
       /\ sent' = sent + 1
       /\ \/ Add_UDP_Que([f |-> sent', from |-> c, part |-> "whole"]) /\ UNCHANGED owed
          \/ /\ owed[c] = 0
             /\ owed' = [owed EXCEPT ![c] = sent']
             /\ Add_UDP_Que([f |-> sent', from |-> c, part |-> "head"])
    \/ /\ owed[c] # 0
       /\ Add_UDP_Que([f |-> owed[c], from |-> c, part |-> "tail"])
       /\ owed' = [owed EXCEPT ![c] = 0]
       /\ UNCHANGED sent

\* The second half is lost on its way.
LoseTail(c) ==
    /\ owed[c] # 0
    /\ owed' = [owed EXCEPT ![c] = 0]
    /\ UNCHANGED <<port, ring, pipe, pc, got, byteQue, sent, done>>

-----------------------------------------------------------------------------
(* The task of the port                                                    *)

\* One byte of the pipe calls Proc_UDP_GUI_Pkt or Proc_LSH_Node_Pkt.
WakeOnce ==     \* mutation: the task reads the pipe empty
    /\ pc = "select" /\ pipe > 0
    /\ pipe' = 0
    /\ pc' = "recv"
    /\ UNCHANGED <<port, ring, got, byteQue, peers, done>>
Wake ==
    /\ pc = "select" /\ pipe > 0
    /\ pipe' = pipe - 1
    /\ pc' = "recv"
    /\ UNCHANGED <<port, ring, got, byteQue, peers, done>>

\* Units added to a byte queue that is too small overrun the oldest.
Overrun(s) == IF Len(s) < QueSize THEN s ELSE SubSeq(s, QueSize + 1, Len(s))

\* RecvCommDataQue takes a datagram, and another one if the first ends exactly
\* where the byte queue does.
RecvOne(d) ==
    LET end == pos + Len(UnitsOf(d))
    IN  /\ pos' = IF end < QueSize THEN end ELSE end - QueSize
        /\ pc' = IF end = QueSize THEN "recv" ELSE "parse"

RecvNewest ==    \* mutation: the newest is taken
    /\ pc = "recv" /\ front # rear
    /\ front' = IF front = 0 THEN N - 1 ELSE front - 1
    /\ got' = slot[front']
    /\ que' = Overrun(que \o UnitsOf(slot[front']))
    /\ RecvOne(slot[front'])
    /\ UNCHANGED <<port, slot, rear, pipe, open, peers, done>>
RecvCommDataQue ==
    /\ pc = "recv" /\ front # rear
    /\ got' = slot[rear]
    /\ rear' = After(rear)
    /\ que' = Overrun(que \o UnitsOf(slot[rear]))
    /\ RecvOne(slot[rear])
    /\ UNCHANGED <<port, slot, front, pipe, open, peers, done>>

RecvNothing ==
    /\ pc = "recv" /\ front = rear
    /\ pc' = "parse"
    /\ UNCHANGED <<port, ring, pipe, got, byteQue, peers, done>>

Empty == que' = <<>> /\ pos' = 0 /\ open' = <<>>     \* Init_Que

\* The port's function returns: the byte queue of the LS's port is emptied.
Kept == que' = Tail(que) /\ open' = <<>> /\ UNCHANGED pos  \* mutation: never
Cleared ==
    IF port = "ls" THEN Empty ELSE que' = Tail(que) /\ open' = <<>> /\ UNCHANGED pos

\* rsStartCheck: a frame begins, or what does not begin one is skipped.
rsStartCheck ==
    /\ pc = "parse" /\ que # <<>> /\ open = <<>>
    /\ que' = Tail(que)
    /\ open' = IF Head(que).k = 1 THEN <<Head(que)>> ELSE <<>>
    /\ UNCHANGED <<port, ring, pipe, pc, got, pos, peers, done>>

\* The rest of the frame, whoever sent it.
Mixed == Head(que).f # open[1].f \/ Head(que).k # 2

CrcOfHead == TRUE       \* mutation: the CRC does not cover the data
CrcRight == ~Mixed

\* GetFrame and GetFrame_LSH return a frame: it is acted upon and answered to the
\* sender of the datagram taken last.
GetFrame ==
    /\ pc = "parse" /\ que # <<>> /\ open # <<>>
    /\ port = "ls" \/ CrcRight
    /\ done' = [f |-> open[1].f, mixed |-> Mixed, right |-> open[1].from = got.from]
    /\ pc' = "select"
    /\ Cleared
    /\ UNCHANGED <<port, ring, pipe, got, peers>>

\* rsCRCCheck: the frame is dropped and the next one looked for.
CrcFails ==
    /\ pc = "parse" /\ que # <<>> /\ open # <<>>
    /\ port = "node" /\ ~CrcRight
    /\ que' = Tail(que)
    /\ open' = <<>>
    /\ UNCHANGED <<port, ring, pipe, pc, got, pos, peers, done>>

\* Nothing is left to parse: a frame begun is waited for, 1 or 10 ms at a time.
Parsed ==
    /\ pc = "parse" /\ que = <<>>
    /\ IF open # <<>>
       THEN pc' = "wait" /\ UNCHANGED byteQue
       ELSE pc' = "select" /\ IF port = "ls" THEN Empty ELSE UNCHANGED byteQue
    /\ UNCHANGED <<port, ring, pipe, got, peers, done>>

\* Check_Node_Data and Check_LSH_Data try again ...
Retry ==
    /\ pc = "wait"
    /\ pc' = "recv"
    /\ UNCHANGED <<port, ring, pipe, got, byteQue, peers, done>>

\* ... and give up after 300 ms or 1 s.
TimeOut ==
    /\ pc = "wait"
    /\ pc' = "select"
    /\ Empty
    /\ UNCHANGED <<port, ring, pipe, got, peers, done>>

UDP_Sel_Proc_Task ==
    \/ Wake \/ RecvCommDataQue \/ RecvNothing
    \/ rsStartCheck \/ GetFrame \/ CrcFails \/ Parsed \/ Retry \/ TimeOut

-----------------------------------------------------------------------------
Init ==
    /\ port \in {"node", "ls"}
    /\ slot = [i \in 0..N - 1 |-> NoDatagram] /\ front = 0 /\ rear = 0
    /\ pipe = 0 /\ pc = "select" /\ got = NoDatagram
    /\ que = <<>> /\ pos = 0 /\ open = <<>>
    /\ sent = 0 /\ owed = [c \in Peers |-> 0]
    /\ done = [f |-> 0, mixed |-> FALSE, right |-> TRUE]

Next ==
    \/ UDP_Sel_Proc_Task
    \/ \E c \in Peers : Arrive(c) \/ LoseTail(c)

\* The task runs for ever, and its tries are counted.
Fairness == WF_vars(UDP_Sel_Proc_Task) /\ SF_vars(TimeOut)

Spec == Init /\ [][Next]_vars /\ Fairness

-----------------------------------------------------------------------------
TypeOK ==
    /\ port \in {"node", "ls"}
    /\ slot \in [0..N - 1 -> Datagrams \cup {NoDatagram}]
    /\ front \in 0..N - 1 /\ rear \in 0..N - 1
    /\ pipe \in 0..PipeSize
    /\ pc \in {"select", "recv", "parse", "wait"}
    /\ got \in Datagrams \cup {NoDatagram}
    /\ que \in Seq(Units) /\ Len(que) < QueSize
    /\ pos \in 0..QueSize - 1
    /\ open \in {<<>>} \cup {<<u>> : u \in Units}
    /\ sent \in 0..MaxSent /\ owed \in [Peers -> 0..MaxSent]
    /\ done \in [f : 0..MaxSent, mixed : BOOLEAN, right : BOOLEAN]

Pending == IF rear <= front THEN front - rear ELSE front + N - rear

\* The ring promises what DatagramQueue does: no datagram comes out twice, out of turn
\* or altered, although the writer may overrun the reader.
Place(i) == IF rear + i - 1 < N THEN rear + i - 1 ELSE rear + i - 1 - N
Contents == [i \in 1..Pending |-> slot[Place(i)]]
Queue == INSTANCE DatagramQueue WITH Data <- Datagrams, q <- Contents, last <- got
RingIsQueue == Queue!Spec

\* No datagram waits in the ring without a byte in the pipe that wakes the task up for
\* it, however often the ring was overrun and the pipe was full.
Woken == Pending <= pipe + (IF pc = "recv" THEN 1 ELSE 0)

\* Frames are handled in the order they arrived, none twice.
InOrder == [][done' # done => done'.f > done.f]_vars

\* A client's frame that is acted upon is one a client sent, not one made up of the
\* halves of two.
Intact == port = "node" => ~done.mixed

\* What is taken for one message of the LS is answered to its sender.
LsAnswered == port = "ls" /\ ~done.mixed => done.right

\* Every datagram leaves the ring.
Taken == \A f \in 1..MaxSent :
    LET inRing == \E i \in 1..Pending : Contents[i].f = f /\ Contents[i].part # "tail"
    IN  inRing ~> ~inRing
=============================================================================
