------------------------------ MODULE AmpSend ------------------------------
(***************************************************************************)
(* An image on its way to an amplifier, frame by frame over a serial line  *)
(* (Proc_AMP_MultiDownload, Rx_PAU_AutoDown; the power supply's            *)
(* Proc_Psu_AutoDownload, Rx_Psu_AutoDown is its twin): two notices and a  *)
(* check, the frames, and the end with the CRC of all.  Each request waits *)
(* for its answer; one that is late is found by a later request.  Module   *)
(* PkgUpgrade asks for the transfer and takes its result.                  *)
(*                                                                         *)
(* The line and the amplifier are external.  Requests and answers may get  *)
(* lost, answers may come late but in order.  The amplifier accepts a      *)
(* frame when it has stored it and the end when it has all frames of one   *)
(* image; it refuses a notice, a frame or an end without its data, may     *)
(* refuse anything, and forgets the frames when it restarts.  A second     *)
(* image may take the place of the first at any time; by then the line     *)
(* carries nothing older than the first.                                   *)
(***************************************************************************)
EXTENDS Naturals, Sequences

CONSTANTS
    Frames,     \* tot_frame, of either image
    MaxLine     \* bound on the answers under way

ASSUME SendAssumption == Frames \in Nat \ {0} /\ MaxLine \in Nat

Retry_Max == 5

VARIABLES
    image,          \* the image of the transfer: 1 or 2; 0 before the first
    st,             \* m_AutoDn.st
    result,         \* m_AutoDn.result
    frame, retry,   \* m_AutoDn.cur_frame, .retry
    sent,           \* the type of the request that is waiting for its answer
    line,           \* external: answers under way
    store, kept,    \* external: the image of each frame stored; the image kept
    faults,         \* history: what went wrong in this transfer, to Retry_Max
    forgot,         \* history: the amplifier restarted in this transfer,
    blind           \* or an undetermined request was answered as a frame

sender == <<image, st, result, frame, retry, sent>>
amp == <<store, kept>>
vars == <<sender, line, amp, faults, forgot, blind>>

None == "none"
Types == {"noti", "chk", "data", "end"}
FrameNos == 0..Frames - 1
Images == {1, 2}
Answer(t, i, n, g) == [type |-> t, image |-> i, n |-> n, good |-> g]

-----------------------------------------------------------------------------
(* The request and what becomes of it                                      *)

Fault(n) == faults' = IF faults + n < Retry_Max THEN faults + n ELSE Retry_Max

\* What a request does in the amplifier that accepts it.
Accepts(t, i, n) ==
    \/ t = "noti" /\ store' = [k \in FrameNos |-> 0] /\ UNCHANGED kept
    \/ t = "chk" /\ UNCHANGED amp
    \/ t = "data" /\ store' = [store EXCEPT ![n] = i] /\ UNCHANGED kept
    \/ t = "end" /\ (\A k \in FrameNos : store[k] = i) /\ kept' = i /\ UNCHANGED store

\* Send_DN_Data: what has come so far is thrown away, the request is sent.
\* It is lost, refused, or accepted, and then its answer may be lost.
Flushed(m) == SubSeq(line, m + 1, Len(line))

Refuses(t, i, n, m) ==
    /\ Len(Flushed(m)) < MaxLine
    /\ line' = Append(Flushed(m), Answer(t, i, n, FALSE))
    /\ UNCHANGED amp

Lost(m) == line' = Flushed(m) /\ UNCHANGED amp

Does(t, i, n, m) ==
    /\ Accepts(t, i, n)
    /\ \/ line' = Flushed(m)
       \/ /\ Len(Flushed(m)) < MaxLine
          /\ line' = Append(Flushed(m), Answer(t, i, n, TRUE))

Send(t) ==
    /\ sent = None /\ sent' = t
    /\ \E m \in 0..Len(line) :
        \/ (Lost(m) \/ Does(t, image, frame, m)) /\ UNCHANGED faults
        \/ Refuses(t, image, frame, m) /\ Fault(1)
    /\ UNCHANGED <<image, st, result, frame, retry, forgot, blind>>

-----------------------------------------------------------------------------
(* Proc_PAU_PkgDn, Proc_AMP_MultiDownload                                  *)

Begin == image < 2 /\ sent = None /\ image' = image + 1

\* Auto_Dn_Start, and the first request, whose type is undetermined and which
\* has no data: pau_type is not set on this path.
Start(t) ==
    /\ Begin
    /\ st' = "noti_1" /\ result' = "progress"
    /\ frame' = 0 /\ retry' = 0
    /\ sent' = t
    /\ \E m \in 0..Len(line) :
        \/ Lost(m)
        \/ t # "other" /\ Refuses(t, image + 1, 0, m)
        \/ t = "chk" /\ Does(t, image + 1, 0, m)
    /\ faults' = IF Len(line') + 1 < Retry_Max THEN Len(line') + 1 ELSE Retry_Max
    /\ forgot' = FALSE /\ blind' = FALSE

\* The image cannot be read.
StartFails ==
    /\ Begin
    /\ st' = None /\ result' = "fail"
    /\ frame' = 0 /\ retry' = 0
    /\ faults' = Retry_Max /\ forgot' = FALSE /\ blind' = FALSE
    /\ UNCHANGED <<sent, line, amp>>

Notify == st \in {"noti_1", "noti_2"} /\ Send("noti")
Check == st = "chk" /\ Send("chk")
SendFrame == st = "data" /\ Send("data")
SendEnd == st = "end" /\ Send("end")

\* An answer that is none, or of another type, or bad (Rx_PAU_AutoDown): one
\* more try, and after five in a row the end (AMP_Down_Fail).
TriesAgain ==
    /\ sent' = None
    /\ IF retry + 1 < Retry_Max
       THEN retry' = retry + 1 /\ UNCHANGED <<st, result>>
       ELSE retry' = 0 /\ st' = None /\ result' = "fail"
    /\ UNCHANGED <<image, frame, amp, forgot, blind>>

TimeOut ==
    /\ sent # None
    /\ TriesAgain
    /\ Fault(1)
    /\ UNCHANGED line

TypeUnread(a) ==        \* mutation: an answer is taken whatever its type
    a.good /\ sent # "other" /\ (sent = "data" => a.n = frame)
NumberUnread(a) ==      \* mutation: the number of the frame is not compared
    a.good /\ a.type = sent
Right(a) ==
    a.good /\ a.type = sent /\ (a.type = "data" => a.n = frame)

Comes == sent # None /\ line # <<>> /\ line' = Tail(line)

\* Mutation: a refusal is not counted.
RejectUncounted ==
    /\ Comes /\ ~Right(Head(line))
    /\ sent' = None
    /\ UNCHANGED <<image, st, result, frame, retry, amp, faults, forgot, blind>>

Reject ==
    /\ Comes /\ ~Right(Head(line))
    /\ TriesAgain
    /\ UNCHANGED faults

Last == frame >= Frames - 1

StateAfter ==
    CASE sent = "noti" -> IF st = "noti_1" THEN "chk" ELSE "data"
      [] sent = "chk" -> "noti_2"
      [] sent = "data" -> IF Last THEN "end" ELSE st
      [] sent = "end" -> "success"

\* Mutation: the tries are counted over the whole transfer.
TakeCounting ==
    /\ Comes /\ Right(Head(line))
    /\ sent' = None
    /\ st' = StateAfter
    /\ frame' = IF sent = "data" /\ ~Last THEN frame + 1 ELSE frame
    /\ UNCHANGED <<image, result, retry, amp, faults, forgot, blind>>

Take ==
    /\ Comes /\ Right(Head(line))
    /\ sent' = None
    /\ st' = StateAfter
    /\ frame' = IF sent = "data" /\ ~Last THEN frame + 1 ELSE frame
    /\ retry' = 0
    /\ blind' = (blind \/ (st = "noti_1" /\ sent \in {"data", "end"}))
    /\ UNCHANGED <<image, result, amp, faults, forgot>>

Success ==
    /\ st = "success" /\ sent = None
    /\ st' = None
    /\ UNCHANGED <<image, result, frame, retry, sent, line, amp, faults, forgot, blind>>

-----------------------------------------------------------------------------
\* The amplifier is taken out (IS__AMP_Use_Allowed); it restarts.
TakenOut ==
    /\ sent = None /\ st # None
    /\ st' = None
    /\ UNCHANGED <<image, result, frame, retry, sent, line, amp, faults, forgot, blind>>

AmpRestarts ==
    /\ store' = [k \in FrameNos |-> 0]
    /\ forgot' = TRUE
    /\ UNCHANGED <<sender, line, kept, faults, blind>>

Init ==
    /\ image = 0 /\ st = None /\ result = None
    /\ frame = 0 /\ retry = 0 /\ sent = None
    /\ line = <<>>
    /\ store = [k \in FrameNos |-> 0] /\ kept = 0
    /\ faults = 0 /\ forgot = FALSE /\ blind = FALSE

Request == Notify \/ Check \/ SendFrame \/ SendEnd
Wait == TimeOut \/ Reject \/ Take
Pass == Request \/ Wait \/ Success

Next ==
    \/ \E t \in Types \cup {"other"} : Start(t)
    \/ StartFails \/ Pass
    \/ TakenOut \/ AmpRestarts

\* PAU_Comm_Task loops for ever.  Nothing is assumed of line and amplifier.
Spec == Init /\ [][Next]_vars /\ WF_vars(Pass)

-----------------------------------------------------------------------------
\* The number of a frame stays within the image and fewer than Retry_Max tries
\* are behind, whatever comes on the line.
TypeOK ==
    /\ image \in 0..2
    /\ st \in {None, "noti_1", "chk", "noti_2", "data", "end", "success"}
    /\ result \in {None, "progress", "fail"}
    /\ frame \in FrameNos /\ retry \in 0..Retry_Max - 1
    /\ sent \in Types \cup {"other", None}
    /\ line \in Seq([type : Types, image : Images, n : FrameNos, good : BOOLEAN])
    /\ Len(line) <= MaxLine
    /\ store \in [FrameNos -> 0..2] /\ kept \in 0..2
    /\ faults \in 0..Retry_Max /\ forgot \in BOOLEAN /\ blind \in BOOLEAN

\* Every frame that counts as sent is stored, however late the answers are and
\* whichever image they belong to, in an amplifier that did not restart.
Done(k) == k < frame \/ st \in {"end", "success"}
AckedStored ==
    st \in {"data", "end", "success"} /\ ~forgot /\ ~blind =>
        \A k \in FrameNos : Done(k) => store[k] = image

\* A transfer succeeds only when the amplifier keeps the image that was sent:
\* no answer to an earlier image and none to another request counts for it.
SuccessWhole == st = "success" /\ ~blind => kept = image

\* Fewer faults than tries do not make a transfer fail: an answer that is late
\* costs a try of every frame that follows, but not more than one.  The first
\* request, being undetermined, counts as a fault, and so does every answer
\* that an earlier transfer has left on the line.
FewFaults == result = "fail" => faults = Retry_Max

\* A transfer ends, whatever the line and the amplifier do.
TransferEnds == st # None ~> st = None
=============================================================================
