---------------------------- MODULE AmpSendProofs ----------------------------
(***************************************************************************)
(* Proofs about AmpSend, for any number of frames and any number of        *)
(* answers under way: its types, that what counts as sent is stored and    *)
(* what ends as a success is kept, although no answer names its image, and *)
(* that a transfer gives up only on a line with five faults.               *)
(***************************************************************************)
EXTENDS AmpSend, FiniteSetTheorems, TLAPS

Answers == [type : Types, image : Images, n : FrameNos, good : BOOLEAN]

LEMMA FrameFacts == 0 \in FrameNos /\ FrameNos \subseteq Nat
BY SendAssumption DEF FrameNos

\* A request throws away the first answers and may add one.
LEMMA FlushedLine ==
    ASSUME line \in Seq(Answers), NEW m \in 0..Len(line)
    PROVE  /\ Flushed(m) \in Seq(Answers)
           /\ Len(Flushed(m)) = Len(line) - m
           /\ \A i \in 1..Len(Flushed(m)) : i + m \in 1..Len(line) /\ Flushed(m)[i] = line[i + m]
BY DEF Flushed

LEMMA TailLine ==
    ASSUME line \in Seq(Answers), line # <<>>
    PROVE  /\ Tail(line) \in Seq(Answers) /\ Head(line) = line[1] /\ Head(line) \in Answers
           /\ Len(Tail(line)) = Len(line) - 1
           /\ \A i \in 1..Len(Tail(line)) : i + 1 \in 1..Len(line) /\ Tail(line)[i] = line[i + 1]
OBVIOUS

\* An answer that is on the line after a step was there before, m places later, or is
\* the one that was added last.
Adds(m, a) ==
    /\ m \in 0..Len(line) /\ a \in Answers
    /\ line' \in Seq(Answers)
    /\ \A i \in 1..Len(line') :
        \/ i + m \in 1..Len(line) /\ line'[i] = line[i + m]
        \/ i = Len(line') /\ i = Len(line) - m + 1 /\ line'[i] = a

Drops(m) ==
    /\ m \in 0..Len(line)
    /\ line' \in Seq(Answers)
    /\ \A i \in 1..Len(line') : i + m \in 1..Len(line) /\ line'[i] = line[i + m]

LEMMA Requested ==
    ASSUME line \in Seq(Answers), Len(line) <= MaxLine,
           NEW t \in Types, NEW j \in Images, NEW n \in FrameNos, NEW m \in 0..Len(line)
    PROVE  /\ Lost(m) => Drops(m) /\ Len(line') <= MaxLine
           /\ Refuses(t, j, n, m) => Adds(m, Answer(t, j, n, FALSE)) /\ Len(line') <= MaxLine
           /\ Does(t, j, n, m) =>
                /\ Drops(m) \/ Adds(m, Answer(t, j, n, TRUE))
                /\ Len(line') <= MaxLine
<1>1. Answer(t, j, n, FALSE) \in Answers /\ Answer(t, j, n, TRUE) \in Answers
  BY DEF Answer, Answers
<1>2. ASSUME line' = Flushed(m) PROVE Drops(m) /\ Len(line') <= MaxLine
  <2>1. /\ line' \in Seq(Answers) /\ Len(line') = Len(line) - m
        /\ \A i \in 1..Len(line') : i + m \in 1..Len(line) /\ line'[i] = line[i + m]
    BY <1>2, FlushedLine
  <2> QED BY <2>1, SendAssumption DEF Drops
<1>3. ASSUME NEW a \in Answers, Len(Flushed(m)) < MaxLine, line' = Append(Flushed(m), a)
      PROVE  Adds(m, a) /\ Len(line') <= MaxLine
  <2>1. /\ line' \in Seq(Answers) /\ Len(line') = Len(Flushed(m)) + 1
        /\ \A i \in 1..Len(line') : line'[i] = IF i <= Len(Flushed(m)) THEN Flushed(m)[i] ELSE a
    BY <1>3, FlushedLine
  <2> QED BY <1>3, <2>1, FlushedLine, SendAssumption DEF Adds
<1>4. Lost(m) => Drops(m) /\ Len(line') <= MaxLine
  BY <1>2 DEF Lost
<1>5. Refuses(t, j, n, m) => Adds(m, Answer(t, j, n, FALSE)) /\ Len(line') <= MaxLine
  BY <1>1, <1>3 DEF Refuses
<1>6. Does(t, j, n, m) => /\ Drops(m) \/ Adds(m, Answer(t, j, n, TRUE))
                         /\ Len(line') <= MaxLine
  BY <1>1, <1>2, <1>3 DEF Does
<1> QED BY <1>4, <1>5, <1>6

-----------------------------------------------------------------------------
(* Types.                                                                  *)

Sends == \E t \in Types : Send(t)

LEMMA RequestSends == Request => Sends
BY DEF Request, Notify, Check, SendFrame, SendEnd, Sends, Types

LEMMA TypeInit == Init => TypeOK
<1> SUFFICES ASSUME Init PROVE TypeOK
  OBVIOUS
<1>1. forgot \in BOOLEAN /\ blind \in BOOLEAN
  BY Zenon DEF Init
<1> QED BY <1>1, FrameFacts, SendAssumption DEF Init, TypeOK, Retry_Max

LEMMA TypeAmp ==
    ASSUME TypeOK, NEW t \in Types, NEW j \in Images, NEW n \in FrameNos,
           Accepts(t, j, n) \/ UNCHANGED amp
    PROVE  store' \in [FrameNos -> 0..2] /\ kept' \in 0..2
<1>1. CASE t = "noti" /\ store' = [k \in FrameNos |-> 0] /\ UNCHANGED kept
  BY <1>1 DEF TypeOK
<1>2. CASE store' = [store EXCEPT ![n] = j] /\ UNCHANGED kept
  BY <1>2 DEF TypeOK, Images
<1>3. CASE kept' = j /\ UNCHANGED store
  BY <1>3 DEF TypeOK, Images
<1>4. CASE UNCHANGED amp
  BY <1>4 DEF TypeOK, amp
<1> QED BY <1>1, <1>2, <1>3, <1>4 DEF Accepts

LEMMA TypeSend == ASSUME TypeOK, Sends, image \in Images PROVE TypeOK'
<1>1. PICK t \in Types : Send(t)
  BY DEF Sends
<1>2. PICK m \in 0..Len(line) :
        \/ (Lost(m) \/ Does(t, image, frame, m)) /\ UNCHANGED faults
        \/ Refuses(t, image, frame, m) /\ Fault(1)
  BY <1>1 DEF Send
<1>3. line' \in Seq(Answers) /\ Len(line') <= MaxLine
  BY <1>2, Requested DEF TypeOK, Answers, Adds, Drops
<1>4. faults' \in 0..Retry_Max
  BY <1>2 DEF TypeOK, Fault, Retry_Max
<1>5. store' \in [FrameNos -> 0..2] /\ kept' \in 0..2
  <2>1. Accepts(t, image, frame) \/ UNCHANGED amp
    BY <1>2 DEF Lost, Does, Refuses
  <2> QED BY <2>1, TypeAmp DEF TypeOK
<1> QED BY <1>1, <1>3, <1>4, <1>5 DEF Send, TypeOK, Answers

LEMMA TypeStart ==
    ASSUME TypeOK, NEW t \in Types \cup {"other"}, Start(t)
    PROVE  TypeOK'
<1>1. image' \in Images /\ image' = image + 1
  BY DEF Start, Begin, TypeOK, Images
<1>2. PICK m \in 0..Len(line) :
        \/ Lost(m)
        \/ t # "other" /\ Refuses(t, image + 1, 0, m)
        \/ t = "chk" /\ Does(t, image + 1, 0, m)
  BY DEF Start
<1>3. t # "other" => t \in Types
  OBVIOUS
<1>4. line' \in Seq(Answers) /\ Len(line') <= MaxLine
  <2>1. CASE Lost(m)
    <3>1. "chk" \in Types
      BY DEF Types
    <3> QED BY <1>1, <2>1, <3>1, Requested, FrameFacts DEF TypeOK, Answers, Drops
  <2>2. CASE ~Lost(m)
    BY <1>1, <1>2, <1>3, <2>2, Requested, FrameFacts DEF TypeOK, Answers, Adds, Drops, Types
  <2> QED BY <2>1, <2>2
<1>5. store' \in [FrameNos -> 0..2] /\ kept' \in 0..2
  BY <1>2 DEF TypeOK, Lost, Does, Refuses, Accepts, amp
<1>6. faults' \in 0..Retry_Max
  BY <1>4 DEF Start, Retry_Max
<1>7. forgot' \in BOOLEAN /\ blind' \in BOOLEAN
  BY Zenon DEF Start
<1> QED BY <1>1, <1>4, <1>5, <1>6, <1>7, FrameFacts DEF Start, TypeOK, Answers, Images, Retry_Max

LEMMA TypeStep == TypeOK /\ (st # None => image \in Images) /\ [Next]_vars => TypeOK'
<1> SUFFICES ASSUME TypeOK, st # None => image \in Images, [Next]_vars PROVE TypeOK'
  OBVIOUS
<1>1. CASE Request
  BY <1>1, RequestSends, TypeSend DEF Request, Notify, Check, SendFrame, SendEnd, None
<1>2. ASSUME NEW t \in Types \cup {"other"}, Start(t) PROVE TypeOK'
  BY <1>2, TypeStart
<1>3. CASE StartFails
  <2>1. forgot' \in BOOLEAN /\ blind' \in BOOLEAN
    BY <1>3, Zenon DEF StartFails
  <2> QED BY <1>3, <2>1, FrameFacts DEF StartFails, Begin, TypeOK, Retry_Max, amp
<1>4. CASE TimeOut
  BY <1>4 DEF TimeOut, TriesAgain, Fault, TypeOK, Retry_Max, amp
<1>5. CASE Reject
  <2>1. line' \in Seq(Answers) /\ Len(line') <= MaxLine
    BY <1>5, TailLine, SendAssumption DEF Reject, Comes, TypeOK, Answers
  <2> QED BY <1>5, <2>1 DEF Reject, TriesAgain, TypeOK, Answers, Retry_Max, amp
<1>6. CASE Take
  <2>1. blind' \in BOOLEAN
    BY <1>6, Zenon DEF Take
  <2>2. line' \in Seq(Answers) /\ Len(line') <= MaxLine
    BY <1>6, TailLine, SendAssumption DEF Take, Comes, TypeOK, Answers
  <2>3. sent \in Types
    BY <1>6, TailLine DEF Take, Comes, Right, TypeOK, Answers
  <2>4. frame' \in FrameNos
    BY <1>6, SendAssumption DEF Take, Last, TypeOK, FrameNos
  <2>5. st' \in {None, "noti_1", "chk", "noti_2", "data", "end", "success"}
    BY <1>6, <2>3 DEF Take, StateAfter, TypeOK, Types
  <2> QED BY <1>6, <2>1, <2>2, <2>4, <2>5 DEF Take, TypeOK, Answers, Retry_Max, amp
<1>7. CASE Success \/ TakenOut
  BY <1>7 DEF Success, TakenOut, TypeOK, amp
<1>8. CASE AmpRestarts
  <2>1. forgot' \in BOOLEAN
    BY <1>8, Zenon DEF AmpRestarts
  <2> QED BY <1>8, <2>1 DEF AmpRestarts, TypeOK, sender
<1>9. CASE UNCHANGED vars
  BY <1>9 DEF vars, sender, amp, TypeOK
<1> QED BY <1>1, <1>2, <1>3, <1>4, <1>5, <1>6, <1>7, <1>8, <1>9 DEF Next, Pass, Wait

-----------------------------------------------------------------------------
(* What the sender believes.  The answers on the line stand in the order   *)
(* of the requests, and a request follows a good answer to the one before  *)
(* it: so no good answer to a frame of an earlier image is left on the     *)
(* line once the check of this one was answered.                           *)

Control ==
    /\ st # None => image \in Images
    /\ image = 0 => line = <<>>
    /\ image = 1 => ~blind
    /\ sent # None => st \in {"noti_1", "chk", "noti_2", "data", "end"}
    /\ st = "chk" => sent \in {None, "chk"}
    /\ st = "noti_2" => sent \in {None, "noti"}
    /\ st = "data" => sent \in {None, "data"}
    /\ st = "end" => sent \in {None, "end"}
    /\ ~blind /\ st \in {"noti_1", "chk", "noti_2"} => frame = 0

\* The i-th answer is a good one, to a request of type t for image j.
Is(i, j, t) == i \in 1..Len(line) /\ line[i].good /\ line[i].image = j /\ line[i].type = t
Late(i, j) == Is(i, j, "data") \/ Is(i, j, "end")

Order ==
    /\ \A i \in 1..Len(line) : line[i].image <= image
    /\ \A i, j \in 1..Len(line) : i < j => line[i].image <= line[j].image
    /\ \A i, j \in 1..Len(line) : ~(Is(i, 1, "chk") /\ Late(j, 1))
    /\ st \in {"noti_1", "chk", "noti_2"} => \A i \in 1..Len(line) : ~Late(i, image)
    /\ image = 1 /\ st \in {"noti_1", "noti_2"} =>
         \A i, j \in 1..Len(line) : i < j => ~(Is(i, 1, "noti") /\ Is(j, 1, "chk"))
    /\ image = 1 /\ st = "chk" =>
         \A i, j \in 1..Len(line) : i < j => ~(Is(i, 1, "chk") /\ Is(j, 1, "noti"))
    /\ image = 1 /\ st \in {"data", "end", "success"} => \A i \in 1..Len(line) : ~Is(i, 1, "chk")
    /\ image = 2 /\ ~blind /\ st \in {"noti_2", "data", "end", "success"} =>
         \A i \in 1..Len(line) : ~Late(i, 1)

Amplifier ==
    /\ ~forgot => \A i \in 1..Len(line) : Is(i, image, "data") => store[line[i].n] = image
    /\ \A i \in 1..Len(line) : Is(i, image, "end") => kept = image

SendInv == Control /\ Order /\ Amplifier /\ AckedStored /\ SuccessWhole

LEMMA SendInit == Init => SendInv
BY DEF Init, SendInv, Control, Order, Amplifier, AckedStored, SuccessWhole, None

LEMMA IsAfter ==
    ASSUME NEW m \in Nat, Drops(m), NEW i \in 1..Len(line'), NEW j, NEW t
    PROVE  /\ Is(i, j, t)' => Is(i + m, j, t)
           /\ Late(i, j)' => Late(i + m, j)
           /\ i + m \in 1..Len(line) /\ line'[i] = line[i + m]
BY DEF Drops, Is, Late

LEMMA IsAdded ==
    ASSUME NEW m \in Nat, NEW a, Adds(m, a), NEW i \in 1..Len(line'), NEW j, NEW t
    PROVE  \/ /\ i + m \in 1..Len(line) /\ line'[i] = line[i + m]
              /\ Is(i, j, t)' => Is(i + m, j, t)
              /\ Late(i, j)' => Late(i + m, j)
           \/ /\ i = Len(line') /\ line'[i] = a
              /\ Is(i, j, t)' <=> a.good /\ a.image = j /\ a.type = t
              /\ Late(i, j)' <=> a.good /\ a.image = j /\ a.type \in {"data", "end"}
BY DEF Adds, Is, Late

\* A step that only takes answers off the line and leaves the state, or ends.
LEMMA OrderDropped ==
    ASSUME TypeOK, SendInv, NEW m \in Nat, Drops(m), image' = image, blind' = blind,
           st' = st \/ st' = None
    PROVE  Order'
<1> USE DEF SendInv, Order
<1>1. ASSUME NEW i \in 1..Len(line') PROVE line'[i].image <= image'
  BY <1>1, IsAfter
<1>2. ASSUME NEW i \in 1..Len(line'), NEW j \in 1..Len(line'), i < j
      PROVE  line'[i].image <= line'[j].image
  <2>1. i + m < j + m
    BY <1>2
  <2> QED BY <2>1, IsAfter
<1>3. ASSUME NEW i \in 1..Len(line'), NEW j \in 1..Len(line')
      PROVE  ~(Is(i, 1, "chk")' /\ Late(j, 1)')
  BY <1>3, IsAfter
<1>4. ASSUME st' \in {"noti_1", "chk", "noti_2"}, NEW i \in 1..Len(line')
      PROVE  ~Late(i, image)'
  <2>1. \A k : Late(i, k)' => Late(i + m, k)
    BY <1>4, IsAfter
  <2>2. i + m \in 1..Len(line)
    BY <1>4, IsAfter
  <2> QED BY <1>4, <2>1, <2>2 DEF None
<1>5. ASSUME image' = 1, st' \in {"noti_1", "noti_2"},
             NEW i \in 1..Len(line'), NEW j \in 1..Len(line'), i < j
      PROVE  ~(Is(i, 1, "noti")' /\ Is(j, 1, "chk")')
  <2>1. i + m < j + m
    BY <1>5
  <2> QED BY <1>5, <2>1, IsAfter DEF None
<1>6. ASSUME image' = 1, st' = "chk",
             NEW i \in 1..Len(line'), NEW j \in 1..Len(line'), i < j
      PROVE  ~(Is(i, 1, "chk")' /\ Is(j, 1, "noti")')
  <2>1. i + m < j + m
    BY <1>6
  <2> QED BY <1>6, <2>1, IsAfter DEF None
<1>7. ASSUME image' = 1, st' \in {"data", "end", "success"}, NEW i \in 1..Len(line')
      PROVE  ~Is(i, 1, "chk")'
  BY <1>7, IsAfter DEF None
<1>8. ASSUME image' = 2, ~blind', st' \in {"noti_2", "data", "end", "success"},
             NEW i \in 1..Len(line')
      PROVE  ~Late(i, 1)'
  BY <1>8, IsAfter DEF None
<1> QED BY <1>1, <1>2, <1>3, <1>4, <1>5, <1>6, <1>7, <1>8

\* A request of the state's type is answered at once.
LEMMA OrderAdded ==
    ASSUME TypeOK, SendInv, NEW m \in Nat, NEW a \in Answers, Adds(m, a), a.image = image,
           UNCHANGED <<image, blind, st>>,
           \/ st \in {"noti_1", "noti_2"} /\ a.type = "noti"
           \/ st = "chk" /\ a.type = "chk"
           \/ st \in {"data", "end"} /\ a.type \in {"data", "end"}
    PROVE  Order'
<1> USE DEF SendInv, Order
<1>0. ASSUME NEW i \in 1..Len(line')
      PROVE  \/ i + m \in 1..Len(line) /\ line'[i] = line[i + m]
             \/ i = Len(line') /\ line'[i] = a
  BY <1>0 DEF Adds
<1>1. ASSUME NEW i \in 1..Len(line') PROVE line'[i].image <= image'
  <2>1. CASE i + m \in 1..Len(line) /\ line'[i] = line[i + m]
    BY <2>1
  <2>2. CASE line'[i] = a
    BY <2>2 DEF TypeOK
  <2> QED BY <1>0, <2>1, <2>2
<1>2. ASSUME NEW i \in 1..Len(line'), NEW j \in 1..Len(line'), i < j
      PROVE  line'[i].image <= line'[j].image
  <2>1. i + m < j + m /\ i # Len(line')
    BY <1>2
  <2>2. i + m \in 1..Len(line) /\ line'[i] = line[i + m]
    BY <1>0, <2>1
  <2>3. CASE j + m \in 1..Len(line) /\ line'[j] = line[j + m]
    BY <2>1, <2>2, <2>3
  <2>4. CASE line'[j] = a
    BY <2>2, <2>4
  <2> QED BY <1>0, <2>3, <2>4
<1>3. ASSUME NEW i \in 1..Len(line'), NEW j \in 1..Len(line')
      PROVE  ~(Is(i, 1, "chk")' /\ Late(j, 1)')
  <2>1. Is(i, 1, "chk")' => \/ Is(i + m, 1, "chk") /\ i + m \in 1..Len(line)
                            \/ a.image = 1 /\ a.type = "chk"
    BY <1>3, IsAdded DEF Late
  <2>2. Late(j, 1)' => \/ Late(j + m, 1) /\ j + m \in 1..Len(line)
                       \/ a.image = 1 /\ a.type \in {"data", "end"}
    BY <1>3, IsAdded DEF Late
  <2> QED BY <2>1, <2>2
<1>4. ASSUME st' \in {"noti_1", "chk", "noti_2"}, NEW i \in 1..Len(line')
      PROVE  ~Late(i, image)'
  <2>1. \A k : Late(i, k)' => (i + m \in 1..Len(line) /\ Late(i + m, k)) \/ a.type \in {"data", "end"}
    BY <1>4, IsAdded
  <2> QED BY <1>4, <2>1
<1>5. ASSUME image' = 1, st' \in {"noti_1", "noti_2"},
             NEW i \in 1..Len(line'), NEW j \in 1..Len(line'), i < j
      PROVE  ~(Is(i, 1, "noti")' /\ Is(j, 1, "chk")')
  <2>1. i + m < j + m /\ i # Len(line')
    BY <1>5
  <2>2. i + m \in 1..Len(line) /\ (Is(i, 1, "noti")' => Is(i + m, 1, "noti"))
    BY <2>1, IsAdded
  <2>3. Is(j, 1, "chk")' => j + m \in 1..Len(line) /\ Is(j + m, 1, "chk")
    BY <1>5, IsAdded
  <2> QED BY <1>5, <2>1, <2>2, <2>3
<1>6. ASSUME image' = 1, st' = "chk",
             NEW i \in 1..Len(line'), NEW j \in 1..Len(line'), i < j
      PROVE  ~(Is(i, 1, "chk")' /\ Is(j, 1, "noti")')
  <2>1. i + m < j + m /\ i # Len(line')
    BY <1>6
  <2>2. i + m \in 1..Len(line) /\ (Is(i, 1, "chk")' => Is(i + m, 1, "chk"))
    BY <2>1, IsAdded
  <2>3. Is(j, 1, "noti")' => j + m \in 1..Len(line) /\ Is(j + m, 1, "noti")
    BY <1>6, IsAdded
  <2> QED BY <1>6, <2>1, <2>2, <2>3
<1>7. ASSUME image' = 1, st' \in {"data", "end", "success"}, NEW i \in 1..Len(line')
      PROVE  ~Is(i, 1, "chk")'
  BY <1>7, IsAdded
<1>8. ASSUME image' = 2, ~blind', st' \in {"noti_2", "data", "end", "success"},
             NEW i \in 1..Len(line')
      PROVE  ~Late(i, 1)'
  BY <1>8, IsAdded DEF Late
<1> QED BY <1>1, <1>2, <1>3, <1>4, <1>5, <1>6, <1>7, <1>8

-----------------------------------------------------------------------------
(* The steps.                                                              *)

LEMMA RequestStep == ASSUME TypeOK, SendInv, Request PROVE SendInv'
<1>1. PICK t \in Types :
        /\ Send(t)
        /\ \/ st \in {"noti_1", "noti_2"} /\ t = "noti"
           \/ st = "chk" /\ t = "chk"
           \/ st = "data" /\ t = "data"
           \/ st = "end" /\ t = "end"
  BY DEF Request, Notify, Check, SendFrame, SendEnd, Types
<1>2. UNCHANGED <<image, st, result, frame, retry, forgot, blind>> /\ sent' = t /\ sent = None
  BY <1>1 DEF Send
<1>3. image \in Images /\ frame \in FrameNos /\ line \in Seq(Answers) /\ Len(line) <= MaxLine
  BY <1>1 DEF SendInv, Control, TypeOK, Answers, None
<1>4. PICK m \in 0..Len(line) : Lost(m) \/ Does(t, image, frame, m) \/ Refuses(t, image, frame, m)
  BY <1>1 DEF Send
<1>5. m \in Nat
  BY <1>3
<1>6. \/ Drops(m)
      \/ \E g \in BOOLEAN : /\ Adds(m, Answer(t, image, frame, g))
                            /\ g => Accepts(t, image, frame)
  BY <1>3, <1>4, Requested DEF Does
<1>7. Accepts(t, image, frame) \/ UNCHANGED amp
  BY <1>4 DEF Lost, Does, Refuses
<1>8. Control'
  BY <1>1, <1>2, <1>3 DEF SendInv, Control, Images
<1>9. Order'
  <2>1. CASE Drops(m)
    BY <1>2, <1>5, <2>1, OrderDropped
  <2>2. ASSUME NEW g \in BOOLEAN, Adds(m, Answer(t, image, frame, g)) PROVE Order'
    <3>1. Answer(t, image, frame, g) \in Answers
      BY <1>3 DEF Answer, Answers
    <3>2. Answer(t, image, frame, g).image = image /\ Answer(t, image, frame, g).type = t
      BY DEF Answer
    <3> QED BY <1>1, <1>2, <1>5, <2>2, <3>1, <3>2, OrderAdded
  <2> QED BY <1>6, <2>1, <2>2
<1>10. Amplifier'
  <2>1. /\ t = "data" => store' = store \/ store' = [store EXCEPT ![frame] = image]
        /\ t \in {"chk", "end"} => store' = store
        /\ kept' = kept \/ kept' = image
    BY <1>7 DEF Accepts, amp
  <2>2. ASSUME NEW i \in 1..Len(line'), Is(i, image, "data")', ~forgot
        PROVE  store'[line'[i].n] = image
    <3>1. CASE i + m \in 1..Len(line) /\ line'[i] = line[i + m]
      <4>0. line[i + m] \in Answers
        BY <1>3, <3>1
      <4>1. Is(i + m, image, "data") /\ line[i + m].n \in FrameNos
        BY <1>2, <2>2, <3>1, <4>0 DEF Is, Answers
      <4>2. store[line[i + m].n] = image
        BY <2>2, <4>1, <3>1 DEF SendInv, Amplifier
      <4>3. t # "noti"
        BY <1>1, <3>1, <4>1 DEF SendInv, Order, Late
      <4> QED BY <1>1, <2>1, <3>1, <4>1, <4>2, <4>3 DEF TypeOK
    <3>2. ASSUME NEW g \in BOOLEAN, line'[i] = Answer(t, image, frame, g),
                 g => Accepts(t, image, frame)
          PROVE  store'[line'[i].n] = image
      BY <1>3, <2>2, <3>2 DEF Is, Answer, Accepts, TypeOK
    <3> QED BY <1>6, <3>1, <3>2 DEF Drops, Adds
  <2>3. ASSUME NEW i \in 1..Len(line'), Is(i, image, "end")' PROVE kept' = image
    <3>1. CASE i + m \in 1..Len(line) /\ line'[i] = line[i + m]
      <4>1. Is(i + m, image, "end")
        BY <1>2, <2>3, <3>1 DEF Is
      <4> QED BY <2>1, <3>1, <4>1 DEF SendInv, Amplifier
    <3>2. ASSUME NEW g \in BOOLEAN, line'[i] = Answer(t, image, frame, g),
                 g => Accepts(t, image, frame)
          PROVE  kept' = image
      BY <2>3, <3>2 DEF Is, Answer, Accepts
    <3> QED BY <1>6, <3>1, <3>2 DEF Drops, Adds
  <2> QED BY <1>2, <2>2, <2>3 DEF Amplifier
<1>11. AckedStored'
  BY <1>1, <1>2, <1>3, <1>7 DEF SendInv, AckedStored, Done, Accepts, amp, TypeOK, FrameNos
<1>12. SuccessWhole'
  BY <1>1, <1>2 DEF SuccessWhole
<1> QED BY <1>8, <1>9, <1>10, <1>11, <1>12 DEF SendInv

\* An answer that does not come or is not taken, and the end of a transfer.
LEMMA NoStep ==
    ASSUME TypeOK, SendInv,
           \/ TimeOut \/ Reject \/ Success \/ TakenOut \/ AmpRestarts \/ UNCHANGED vars
    PROVE  SendInv'
<1>1. /\ UNCHANGED <<image, frame, blind>> /\ kept' = kept
      /\ st' = st \/ st' = None
      /\ sent' = sent \/ sent' = None
      /\ st' = None => sent' = None \/ st = None
      /\ \/ store' = store /\ forgot' = forgot
         \/ forgot'
      /\ line' = line \/ (line # <<>> /\ line' = Tail(line))
  BY DEF TimeOut, Reject, TriesAgain, Comes, Success, TakenOut, AmpRestarts, vars, sender, amp
<1>2. line \in Seq(Answers)
  BY DEF TypeOK, Answers
<1>3. \E m \in Nat : Drops(m)
  <2>1. CASE line' = line
    <3>1. Drops(0)
      BY <1>2, <2>1 DEF Drops
    <3> QED BY <3>1
  <2>2. CASE line # <<>> /\ line' = Tail(line)
    <3>1. Drops(1)
      BY <1>2, <2>2, TailLine DEF Drops
    <3> QED BY <3>1
  <2> QED BY <1>1, <2>1, <2>2
<1>4. PICK m \in Nat : Drops(m)
  BY <1>3
<1>5. Order'
  BY <1>1, <1>4, OrderDropped
<1>6. Control'
  BY <1>1, <1>2, TailLine DEF SendInv, Control, None
<1>7. Amplifier'
  BY <1>1, <1>4, IsAfter DEF SendInv, Amplifier
<1>8. AckedStored' /\ SuccessWhole'
  BY <1>1 DEF SendInv, AckedStored, SuccessWhole, Done, None
<1> QED BY <1>5, <1>6, <1>7, <1>8 DEF SendInv

\* The answers on the line when a transfer starts are of an earlier image, but for
\* that to the first request, which is no frame.
LEMMA StartStep ==
    ASSUME TypeOK, SendInv, StartFails \/ \E t \in Types \cup {"other"} : Start(t)
    PROVE  SendInv'
<1>1. /\ image \in 0..1 /\ image' = image + 1 /\ frame' = 0
      /\ st' = "noti_1" \/ (st' = None /\ sent' = None)
      /\ st' = "noti_1" => sent' # None
  BY DEF StartFails, Start, Begin, TypeOK, None, Types
<1>2. ~blind' /\ ~forgot'
  BY Zenon DEF StartFails, Start
<1>3. line \in Seq(Answers) /\ Len(line) <= MaxLine /\ image + 1 \in Images
  BY <1>1 DEF TypeOK, Answers, Images
\* The answer to the first request, if there is one.
<1>4. \E m \in Nat :
        \/ Drops(m)
        \/ \E t \in Types, g \in BOOLEAN :
              Adds(m, Answer(t, image + 1, 0, g)) /\ (g => t = "chk") /\ st' = "noti_1"
  <2>1. CASE StartFails
    <3>1. Drops(0)
      BY <1>3, <2>1 DEF StartFails, Drops
    <3> QED BY <3>1
  <2>2. ASSUME NEW t \in Types \cup {"other"}, Start(t)
        PROVE  \E m \in Nat :
                 \/ Drops(m)
                 \/ \E u \in Types, g \in BOOLEAN :
                      Adds(m, Answer(u, image + 1, 0, g)) /\ (g => u = "chk") /\ st' = "noti_1"
    <3>1. PICK m \in 0..Len(line) :
            \/ Lost(m)
            \/ t # "other" /\ Refuses(t, image + 1, 0, m)
            \/ t = "chk" /\ Does(t, image + 1, 0, m)
      BY <2>2 DEF Start
    <3>2. m \in Nat
      BY <1>3
    <3>3. "chk" \in Types /\ st' = "noti_1"
      BY <2>2 DEF Types, Start
    <3>4. CASE Lost(m)
      BY <1>3, <3>2, <3>3, <3>4, Requested, FrameFacts
    <3>5. CASE t # "other" /\ Refuses(t, image + 1, 0, m)
      BY <1>3, <3>2, <3>3, <3>5, Requested, FrameFacts
    <3>6. CASE t = "chk" /\ Does(t, image + 1, 0, m)
      BY <1>3, <3>2, <3>3, <3>6, Requested, FrameFacts
    <3> QED BY <3>1, <3>4, <3>5, <3>6
  <2> QED BY <2>1, <2>2
<1>5. PICK m \in Nat :
        \/ Drops(m)
        \/ \E t \in Types, g \in BOOLEAN :
              Adds(m, Answer(t, image + 1, 0, g)) /\ (g => t = "chk") /\ st' = "noti_1"
  BY <1>4
<1>6. ASSUME NEW i \in 1..Len(line')
      PROVE  \/ /\ i + m \in 1..Len(line) /\ line'[i] = line[i + m]
                /\ line'[i].image <= image
             \/ /\ i = Len(line') /\ i + m = Len(line) + 1
                /\ line'[i].image = image + 1
                /\ line'[i].good => line'[i].type = "chk"
  <2>1. CASE Drops(m)
    BY <2>1 DEF Drops, SendInv, Order
  <2>2. ASSUME NEW t \in Types, NEW g \in BOOLEAN, g => t = "chk",
               Adds(m, Answer(t, image + 1, 0, g))
        PROVE  \/ /\ i + m \in 1..Len(line) /\ line'[i] = line[i + m]
                  /\ line'[i].image <= image
               \/ /\ i = Len(line') /\ i + m = Len(line) + 1
                  /\ line'[i].image = image + 1
                  /\ line'[i].good => line'[i].type = "chk"
    BY <1>3, <2>2 DEF Adds, Answer, SendInv, Order
  <2> QED BY <1>5, <2>1, <2>2
<1>7. Control'
  BY <1>1, <1>2, <1>3 DEF Control, None, Images
<1>8. Order'
  <2>1. ASSUME NEW i \in 1..Len(line') PROVE line'[i].image <= image'
    <3>1. CASE i + m \in 1..Len(line) /\ line'[i] = line[i + m] /\ line'[i].image <= image
      <4>1. line[i + m] \in Answers
        BY <1>3, <3>1
      <4> QED BY <1>1, <3>1, <4>1 DEF Answers, Images
    <3>2. CASE line'[i].image = image + 1
      BY <1>1, <3>2
    <3> QED BY <1>6, <3>1, <3>2
  <2>2. ASSUME NEW i \in 1..Len(line'), NEW j \in 1..Len(line'), i < j
        PROVE  line'[i].image <= line'[j].image /\ image = 1
    <3>1. i + m \in 1..Len(line) /\ line'[i] = line[i + m] /\ line'[i].image <= image
      BY <1>3, <1>6, <2>2
    <3>2. CASE j + m \in 1..Len(line) /\ line'[j] = line[j + m]
      BY <1>1, <1>3, <1>5, <2>2, <3>1, <3>2 DEF SendInv, Order, Control
    <3>3. CASE line'[j].image = image + 1
      <4>1. line[i + m] \in Answers
        BY <1>3, <3>1
      <4> QED BY <1>1, <3>1, <3>3, <4>1 DEF Answers, Images
    <3> QED BY <1>6, <3>2, <3>3
  <2>3. ASSUME NEW i \in 1..Len(line'), NEW j \in 1..Len(line')
        PROVE  ~(Is(i, 1, "chk")' /\ Late(j, 1)')
    <3>1. Late(j, 1)' => /\ j + m \in 1..Len(line) /\ line'[j] = line[j + m]
                         /\ Late(j + m, 1) /\ image = 1
      BY <1>1, <1>6 DEF Late, Is
    <3>2. image = 1 /\ Is(i, 1, "chk")' => i + m \in 1..Len(line) /\ Is(i + m, 1, "chk")
      BY <1>6 DEF Is
    <3> QED BY <3>1, <3>2 DEF SendInv, Order
  <2>4. ASSUME NEW i \in 1..Len(line') PROVE ~Late(i, image)'
    <3>1. image \in Nat
      BY <1>1
    <3> QED BY <1>1, <1>6, <2>4, <3>1 DEF Late, Is
  <2> QED BY <1>1, <1>2, <2>1, <2>2, <2>3, <2>4 DEF Order, None
<1>9. Amplifier'
  <2>1. \A i \in 1..Len(line') : ~Is(i, image, "data")' /\ ~Is(i, image, "end")'
    <3>1. image \in Nat
      BY <1>1
    <3> QED BY <1>1, <1>6, <3>1 DEF Is
  <2> QED BY <2>1 DEF Amplifier
<1>10. AckedStored' /\ SuccessWhole'
  BY <1>1 DEF AckedStored, SuccessWhole, None
<1> QED BY <1>7, <1>8, <1>9, <1>10 DEF SendInv

\* A good answer to the request that waits.
LEMMA TakeStep == ASSUME TypeOK, SendInv, Take PROVE SendInv'
<1>1. line \in Seq(Answers) /\ line # <<>> /\ line' = Tail(line)
  BY DEF TypeOK, Answers, Take, Comes
<1>2. Drops(1) /\ 1 \in 1..Len(line) /\ line[1] \in Answers
  BY <1>1, TailLine DEF Drops
<1>3. /\ line[1].good /\ line[1].type = sent
      /\ sent = "data" => line[1].n = frame
  BY <1>1, <1>2, TailLine DEF Take, Right
<1>4. sent' = None /\ UNCHANGED <<image, forgot, store, kept>> /\ st' = StateAfter
  BY DEF Take, amp
<1>5. image \in Images /\ st \in {"noti_1", "chk", "noti_2", "data", "end"} /\ sent \in Types
  BY <1>2, <1>3 DEF SendInv, Control, Take, Comes, Answers, None
<1>6. blind' = (blind \/ (st = "noti_1" /\ sent \in {"data", "end"}))
  BY Zenon DEF Take
<1>7. Is(1, line[1].image, sent) /\ line[1].image \in Images /\ line[1].image <= image
  BY <1>2, <1>3 DEF Is, Answers, SendInv, Order
<1>8. image = 1 => ~(st = "noti_1" /\ sent \in {"data", "end"})
  BY <1>2, <1>7 DEF SendInv, Order, Late, Images
<1>9. /\ st = "noti_1" /\ sent = "noti" => st' = "chk"
      /\ st \in {"noti_1", "chk"} /\ sent = "chk" => st' = "noti_2"
      /\ st = "noti_2" => sent = "noti" /\ st' = "data"
      /\ st = "data" => sent = "data" /\ st' = IF Last THEN "end" ELSE "data"
      /\ st = "end" => sent = "end" /\ st' = "success"
      /\ st = "chk" => sent = "chk"
      /\ st = "noti_1" /\ sent \in {"data", "end"} =>
            st' \in {"noti_1", "end", "success"} /\ blind' /\ image = 2
  BY <1>4, <1>5, <1>6, <1>8 DEF StateAfter, SendInv, Control, Types, Images, None
<1>10. sent # "data" => frame' = frame
  BY DEF Take
<1>11. blind => blind'
  BY <1>6
<1>12. ~blind' => ~blind /\ (st = "noti_1" => sent \in {"noti", "chk"})
  BY <1>5, <1>6 DEF Types
<1>13. Control'
  <2>1. ~blind' /\ st' \in {"noti_1", "chk", "noti_2"} => frame' = 0
    BY <1>5, <1>9, <1>10, <1>12 DEF SendInv, Control
  <2>2. image' = 1 => ~blind'
    BY <1>4, <1>6, <1>8, Zenon DEF SendInv, Control
  <2> QED BY <1>4, <1>5, <2>1, <2>2 DEF SendInv, Control, Images
<1>14. ASSUME NEW i \in 1..Len(line')
       PROVE  /\ i + 1 \in 1..Len(line) /\ 1 < i + 1 /\ line'[i] = line[i + 1]
              /\ \A k, t : Is(i, k, t)' => Is(i + 1, k, t)
              /\ \A k : Late(i, k)' => Late(i + 1, k)
  <2>1. i + 1 \in 1..Len(line) /\ 1 < i + 1 /\ line'[i] = line[i + 1]
    BY <1>2, <1>14 DEF Drops
  <2> QED BY <1>2, <1>14, <2>1, IsAfter
<1>15. Order'
  <2> USE <1>14 DEF SendInv, Order
  <2>1. ASSUME NEW i \in 1..Len(line') PROVE line'[i].image <= image'
    BY <1>4
  <2>2. ASSUME NEW i \in 1..Len(line'), NEW j \in 1..Len(line'), i < j
        PROVE  line'[i].image <= line'[j].image
    <3>1. i + 1 < j + 1
      BY <2>2
    <3> QED BY <3>1
  <2>3. ASSUME NEW i \in 1..Len(line'), NEW j \in 1..Len(line')
        PROVE  ~(Is(i, 1, "chk")' /\ Late(j, 1)')
    OBVIOUS
  <2>4. ASSUME st' \in {"noti_1", "chk", "noti_2"}, NEW i \in 1..Len(line')
        PROVE  ~Late(i, image)'
    BY <1>4, <1>5, <1>9, <2>4
  <2>5. ASSUME image' = 1, st' \in {"noti_1", "noti_2"},
               NEW i \in 1..Len(line'), NEW j \in 1..Len(line'), i < j
        PROVE  ~(Is(i, 1, "noti")' /\ Is(j, 1, "chk")')
    <3>1. i + 1 < j + 1
      BY <2>5
    <3>2. CASE st = "noti_1"
      BY <1>4, <2>5, <3>1, <3>2
    <3>3. CASE st = "chk"
      <4>1. Is(1, 1, "chk")
        BY <1>4, <1>7, <1>9, <2>5, <3>3 DEF Images
      <4> QED BY <1>2, <1>4, <2>5, <3>3, <4>1
    <3> QED BY <1>5, <1>9, <2>5, <3>2, <3>3
  <2>6. ASSUME image' = 1, st' = "chk",
               NEW i \in 1..Len(line'), NEW j \in 1..Len(line'), i < j
        PROVE  ~(Is(i, 1, "chk")' /\ Is(j, 1, "noti")')
    <3>1. st = "noti_1" /\ sent = "noti"
      BY <1>5, <1>8, <1>9, <2>6 DEF Types
    <3>2. Is(1, 1, "noti")
      BY <1>4, <1>7, <2>6, <3>1 DEF Images
    <3> QED BY <1>2, <1>4, <2>6, <3>1, <3>2
  <2>7. ASSUME image' = 1, st' \in {"data", "end", "success"}, NEW i \in 1..Len(line')
        PROVE  ~Is(i, 1, "chk")'
    <3>1. CASE st \in {"data", "end"}
      BY <1>4, <2>7, <3>1
    <3>2. CASE st = "noti_2"
      <4>1. Is(1, 1, "noti")
        BY <1>4, <1>7, <1>9, <2>7, <3>2 DEF Images
      <4> QED BY <1>2, <1>4, <2>7, <3>2, <4>1
    <3> QED BY <1>4, <1>5, <1>9, <2>7, <3>1, <3>2 DEF Types
  <2>8. ASSUME image' = 2, ~blind', st' \in {"noti_2", "data", "end", "success"},
               NEW i \in 1..Len(line')
        PROVE  ~Late(i, 1)'
    <3>1. CASE st \in {"noti_2", "data", "end"}
      BY <1>4, <1>12, <2>8, <3>1
    <3>2. CASE sent = "chk" /\ line[1].image = 1
      BY <1>2, <1>7, <3>2
    <3>3. CASE line[1].image = 2
      <4>1. line[1].image <= line[i + 1].image
        BY <1>2
      <4> QED BY <3>3, <4>1 DEF Late, Is
    <3> QED BY <1>5, <1>7, <1>9, <1>12, <2>8, <3>1, <3>2, <3>3 DEF Images
  <2> QED BY <2>1, <2>2, <2>3, <2>4, <2>5, <2>6, <2>7, <2>8
<1>16. Amplifier'
  BY <1>4, <1>14 DEF SendInv, Amplifier
<1>17. ~blind /\ st \in {"data", "end"} => line[1].image = image
  BY <1>2, <1>3, <1>5, <1>7, <1>9 DEF SendInv, Order, Late, Images
<1>18. AckedStored'
  <2> SUFFICES ASSUME st' \in {"data", "end", "success"}, ~forgot, ~blind',
                      NEW k \in FrameNos, Done(k)'
               PROVE  store[k] = image
    BY <1>4 DEF AckedStored
  <2>1. CASE st = "noti_2"
    BY <1>9, <1>10, <1>12, <2>1 DEF SendInv, Control, Done, FrameNos
  <2>2. CASE st = "data"
    <3>1. store[frame] = image
      BY <1>2, <1>3, <1>7, <1>9, <1>12, <1>17, <2>2 DEF SendInv, Amplifier
    <3>2. k < frame \/ k = frame
      BY <1>9, <2>2, SendAssumption DEF Done, Take, Last, FrameNos, TypeOK
    <3> QED BY <1>12, <2>2, <3>1, <3>2 DEF SendInv, AckedStored, Done
  <2>3. CASE st = "end"
    BY <1>12, <2>3 DEF SendInv, AckedStored, Done
  <2> QED BY <1>5, <1>9, <1>12, <2>1, <2>2, <2>3 DEF Types
<1>19. SuccessWhole'
  <2> SUFFICES ASSUME st' = "success", ~blind' PROVE kept = image
    BY <1>4 DEF SuccessWhole
  <2>1. st = "end"
    BY <1>5, <1>9, <1>12 DEF Types
  <2> QED BY <1>2, <1>7, <1>9, <1>12, <1>17, <2>1 DEF SendInv, Amplifier
<1> QED BY <1>13, <1>15, <1>16, <1>18, <1>19 DEF SendInv

LEMMA SendStep == TypeOK /\ SendInv /\ [Next]_vars => SendInv'
BY RequestStep, NoStep, StartStep, TakeStep DEF Next, Pass, Wait

LEMMA Sending == Spec => [](TypeOK /\ SendInv)
<1>1. TypeOK /\ SendInv /\ [Next]_vars => TypeOK'
  BY TypeStep DEF SendInv, Control
<1> QED BY <1>1, TypeInit, SendInit, SendStep, PTL DEF Spec

\* The number of a frame stays within the image, whatever comes on the line.
THEOREM TypeCorrect == Spec => []TypeOK
<1> QED BY Sending, PTL

\* A frame that counts as sent is stored in the amplifier as a frame of this image,
\* however late its answers and those of an earlier image come.
THEOREM SentIsStored == Spec => []AckedStored
<1>1. SendInv => AckedStored
  BY DEF SendInv
<1> QED BY <1>1, Sending, PTL

\* A transfer succeeds only when the amplifier keeps the image that was sent.
THEOREM SuccessIsWhole == Spec => []SuccessWhole
<1>1. SendInv => SuccessWhole
  BY DEF SendInv
<1> QED BY <1>1, Sending, PTL

-----------------------------------------------------------------------------
(* Few faults do not make a transfer fail.  Every try behind was cost by a   *)
(* fault of its own, and every answer on the line that will cost one too is  *)
(* due to another: an answer to an earlier request was left there by a       *)
(* request that timed out, and one to this request is wrong when refused.    *)

\* What the request that waits, or the next one, asks for.
Want == IF sent # None THEN sent ELSE IF st \in {"noti_1", "noti_2"} THEN "noti" ELSE st
Fits(a) == a.good /\ a.type = Want /\ (a.type = "data" => a.n = frame)
Wrong == {i \in 1..Len(line) : ~Fits(line[i])}
Waiting == IF sent = None THEN 0 ELSE 1

\* The first request may want what no answer is to.
Counted ==
    /\ Len(line) <= faults + Waiting
    /\ st \notin {None, "success"} => retry + Cardinality(Wrong) <= faults
    /\ st = "noti_1" /\ sent \notin {None, "noti"} => retry = 0 /\ Len(line) < faults

FaultsInv == FewFaults /\ (faults < Retry_Max => Counted)

LEMMA Few ==
    ASSUME NEW n \in Nat, NEW W \in SUBSET (1..n)
    PROVE  IsFiniteSet(W) /\ Cardinality(W) \in Nat /\ Cardinality(W) <= n
<1>1. IsFiniteSet(1..n) /\ Cardinality(1..n) = n
  BY FS_Interval
<1> QED BY <1>1, FS_Subset, FS_CardinalityType

LEMMA Shifted ==
    ASSUME NEW S \in SUBSET Nat, NEW T, IsFiniteSet(T), NEW m \in Nat,
           \A i \in S : i + m \in T
    PROVE  IsFiniteSet(S) /\ Cardinality(S) <= Cardinality(T)
<1> DEFINE f == [i \in S |-> i + m]
<1>1. f \in Injection(S, T)
  BY DEF Injection, IsInjective
<1> QED BY <1>1, FS_Injection

LEMMA WrongFinite ==
    ASSUME line \in Seq(Answers), line' \in Seq(Answers)
    PROVE  /\ IsFiniteSet(Wrong) /\ Cardinality(Wrong) \in Nat
           /\ IsFiniteSet(Wrong') /\ Cardinality(Wrong') \in Nat
           /\ Cardinality(Wrong') <= Len(line')
           /\ Wrong \subseteq Nat /\ Wrong' \subseteq Nat
<1>1. Wrong \in SUBSET (1..Len(line)) /\ Wrong' \in SUBSET (1..Len(line'))
  BY DEF Wrong
<1>2. Len(line) \in Nat /\ Len(line') \in Nat
  OBVIOUS
<1> QED BY <1>1, <1>2, Few

LEMMA WrongDropped ==
    ASSUME line \in Seq(Answers), NEW m \in Nat, Drops(m)
    PROVE  /\ Len(line') <= Len(line)
           /\ Want' = Want /\ frame' = frame => Cardinality(Wrong') <= Cardinality(Wrong)
<1>1. line' \in Seq(Answers)
  BY DEF Drops
<1>2. Len(line') <= Len(line)
  BY <1>1 DEF Drops
<1>3. ASSUME Want' = Want, frame' = frame, NEW i \in Wrong' PROVE i + m \in Wrong
  BY <1>3 DEF Drops, Wrong, Fits
<1> QED BY <1>1, <1>2, <1>3, WrongFinite, Shifted

LEMMA WrongAdded ==
    ASSUME line \in Seq(Answers), NEW m \in Nat, NEW a, Adds(m, a),
           Want' = Want, frame' = frame
    PROVE  /\ Len(line') <= Len(line) + 1
           /\ Cardinality(Wrong') <= Cardinality(Wrong) + 1
           /\ Fits(a)' => Cardinality(Wrong') <= Cardinality(Wrong)
<1>1. line' \in Seq(Answers) /\ Len(line) \in Nat /\ Len(line') \in Nat
  BY DEF Adds
<1>2. Len(line') <= Len(line) + 1
  BY <1>1 DEF Adds
<1>3. ASSUME NEW i \in Wrong', i # Len(line') \/ Fits(a)' PROVE i + m \in Wrong
  BY <1>3 DEF Adds, Wrong, Fits
<1>4. Fits(a)' => Cardinality(Wrong') <= Cardinality(Wrong)
  BY <1>1, <1>3, WrongFinite, Shifted
<1>5. Cardinality(Wrong') <= Cardinality(Wrong) + 1
  <2> DEFINE W == Wrong' \ {Len(line')}
  <2>1. W \in SUBSET Nat /\ \A i \in W : i + m \in Wrong
    BY <1>1, <1>3, WrongFinite
  <2>2. IsFiniteSet(W) /\ Cardinality(W) <= Cardinality(Wrong)
    BY <1>1, <2>1, WrongFinite, Shifted
  <2>3. Cardinality(W) \in Nat /\ Cardinality(Wrong') <= Cardinality(W) + 1
    <3>1. IsFiniteSet(Wrong') /\ Cardinality(Wrong') \in Nat
      BY <1>1, WrongFinite
    <3>2. Cardinality(W) = IF Len(line') \in Wrong' THEN Cardinality(Wrong') - 1
                                                   ELSE Cardinality(Wrong')
      BY <3>1, FS_RemoveElement
    <3>3. Cardinality(W) \in Nat
      BY <2>2, FS_CardinalityType
    <3> HIDE DEF W
    <3> QED BY <3>1, <3>2, <3>3
  <2> QED BY <1>1, <2>2, <2>3, WrongFinite
<1> QED BY <1>2, <1>4, <1>5

\* An answer that is rejected is one of those counted.
LEMMA WrongRejected ==
    ASSUME line \in Seq(Answers), line # <<>>, line' = Tail(line), ~Fits(Head(line))
    PROVE  /\ Len(line') = Len(line) - 1
           /\ Cardinality(Wrong) >= 1
           /\ Want' = Want /\ frame' = frame => Cardinality(Wrong') <= Cardinality(Wrong) - 1
<1>1. line' \in Seq(Answers) /\ 1 \in Wrong
  BY TailLine DEF Wrong
<1>2. IsFiniteSet(Wrong \ {1}) /\ Cardinality(Wrong \ {1}) = Cardinality(Wrong) - 1
  BY <1>1, WrongFinite, FS_RemoveElement
<1>3. Cardinality(Wrong) >= 1
  BY <1>1, <1>2, WrongFinite, FS_CardinalityType
<1>4. ASSUME Want' = Want, frame' = frame, NEW i \in Wrong' PROVE i + 1 \in Wrong \ {1}
  BY <1>1, <1>4, TailLine DEF Wrong, Fits
<1>5. Want' = Want /\ frame' = frame => Cardinality(Wrong') <= Cardinality(Wrong \ {1})
  BY <1>1, <1>2, <1>4, WrongFinite, Shifted
<1> QED BY <1>2, <1>3, <1>5, TailLine

LEMMA FaultsInit == Init => FaultsInv
<1> SUFFICES ASSUME Init PROVE FaultsInv
  OBVIOUS
<1>1. line = <<>> /\ st = None /\ faults = 0 /\ result = None /\ sent = None
  BY DEF Init
<1>2. FewFaults
  BY <1>1 DEF FewFaults, None
<1>3. Counted
  BY <1>1 DEF Counted, Waiting, None
<1> QED BY <1>2, <1>3 DEF FaultsInv

\* A request that is refused is a fault, one that is answered well fits.
LEMMA FaultsRequest ==
    ASSUME TypeOK, SendInv, FaultsInv, Request
    PROVE  FaultsInv'
<1>1. PICK t \in Types : Send(t) /\ st # None /\ st # "success" /\ t = Want
  BY DEF Request, Notify, Check, SendFrame, SendEnd, Send, Want, Types, None
<1>2. PICK m \in 0..Len(line) :
        \/ (Lost(m) \/ Does(t, image, frame, m)) /\ UNCHANGED faults
        \/ Refuses(t, image, frame, m) /\ Fault(1)
  BY <1>1 DEF Send
<1>3. /\ UNCHANGED <<image, st, result, frame, retry>> /\ sent = None /\ sent' = t
      /\ t # None /\ Want' = t /\ Want' = Want
      /\ st = "noti_1" => sent' = "noti"
  BY <1>1 DEF Send, Want, Types, None
<1>4. /\ line \in Seq(Answers) /\ Len(line) <= MaxLine /\ m \in Nat
      /\ image \in Images /\ frame \in FrameNos /\ faults \in 0..Retry_Max /\ retry \in Nat
      /\ Len(line) \in Nat
  BY <1>1 DEF TypeOK, Answers, SendInv, Control
<1>5. FewFaults' /\ (faults' < Retry_Max => faults < Retry_Max)
  BY <1>2, <1>3, <1>4 DEF FaultsInv, FewFaults, Fault, Retry_Max
<1>6. CASE UNCHANGED faults /\ (Drops(m) \/ Adds(m, Answer(t, image, frame, TRUE)))
  <2>1. Fits(Answer(t, image, frame, TRUE))'
    BY <1>3 DEF Fits, Answer
  <2>2. Len(line') <= Len(line) + 1 /\ Cardinality(Wrong') <= Cardinality(Wrong)
    <3>1. CASE Drops(m)
      <4>1. Len(line') <= Len(line) /\ Cardinality(Wrong') <= Cardinality(Wrong)
        BY <1>3, <1>4, <3>1, WrongDropped
      <4>2. Len(line') \in Nat
        BY <3>1 DEF Drops
      <4> QED BY <1>4, <4>1, <4>2
    <3>2. CASE Adds(m, Answer(t, image, frame, TRUE))
      BY <1>3, <1>4, <2>1, <3>2, WrongAdded
    <3> QED BY <1>6, <3>1, <3>2
  <2>3. line' \in Seq(Answers)
    BY <1>6 DEF Drops, Adds
  <2> QED BY <1>1, <1>3, <1>4, <1>5, <1>6, <2>2, <2>3, WrongFinite
          DEF FaultsInv, Counted, Waiting
<1>7. CASE Fault(1) /\ Adds(m, Answer(t, image, frame, FALSE))
  <2>1. Len(line') <= Len(line) + 1 /\ Cardinality(Wrong') <= Cardinality(Wrong) + 1
    BY <1>3, <1>4, <1>7, WrongAdded
  <2>2. line' \in Seq(Answers)
    BY <1>7 DEF Adds
  <2>3. faults' < Retry_Max => faults' = faults + 1
    BY <1>7 DEF Fault
  <2> QED BY <1>1, <1>3, <1>4, <1>5, <2>1, <2>2, <2>3, WrongFinite
          DEF FaultsInv, Counted, Waiting
<1> QED BY <1>2, <1>4, <1>6, <1>7, Requested

\* A try more, for an answer that did not come (a fault) or that is wrong.
LEMMA FaultsTry ==
    ASSUME TypeOK, SendInv, FaultsInv, TimeOut \/ Reject
    PROVE  FaultsInv'
<1>1. /\ sent # None /\ sent' = None /\ UNCHANGED <<image, frame>>
      /\ st \in {"noti_1", "chk", "noti_2", "data", "end"}
      /\ \/ retry + 1 < Retry_Max /\ retry' = retry + 1 /\ UNCHANGED <<st, result>>
         \/ retry + 1 >= Retry_Max /\ retry' = 0 /\ st' = None /\ result' = "fail"
  BY DEF TimeOut, Reject, TriesAgain, Comes, SendInv, Control, TypeOK, Retry_Max
<1>2. /\ line \in Seq(Answers) /\ Len(line) \in Nat /\ faults \in 0..Retry_Max
      /\ retry \in 0..Retry_Max - 1
  BY DEF TypeOK, Answers
<1>3. st' = st /\ (st # "noti_1" \/ sent = "noti") => Want' = Want
  BY <1>1 DEF Want, SendInv, Control, None
<1>4. Want = sent
  BY <1>1 DEF Want
<1>5. CASE TimeOut
  <2>1. line' = line /\ faults' = IF faults + 1 < Retry_Max THEN faults + 1 ELSE Retry_Max
    BY <1>5 DEF TimeOut, Fault
  <2>2. Drops(0) /\ Cardinality(Wrong) \in Nat /\ Cardinality(Wrong') \in Nat
    BY <1>2, <2>1, WrongFinite DEF Drops
  <2>3. Want' = Want => Cardinality(Wrong') <= Cardinality(Wrong)
    BY <1>1, <1>2, <2>2, WrongDropped
  <2>4. Cardinality(Wrong') <= Len(line)
    BY <1>2, <2>1, WrongFinite
  <2>5. FewFaults'
    BY <1>1, <1>2, <2>1, <2>2 DEF FaultsInv, FewFaults, Counted, Retry_Max, None
  <2>6. faults' < Retry_Max => Counted'
    BY <1>1, <1>2, <1>3, <2>1, <2>2, <2>3, <2>4
       DEF FaultsInv, FewFaults, Counted, Waiting, Retry_Max, None
  <2> QED BY <2>5, <2>6 DEF FaultsInv
<1>6. CASE Reject
  <2>1. line # <<>> /\ line' = Tail(line) /\ UNCHANGED faults /\ ~Fits(Head(line))
    BY <1>4, <1>6 DEF Reject, Comes, Right, Fits
  <2>2. /\ Len(line') = Len(line) - 1 /\ Cardinality(Wrong) >= 1
        /\ Want' = Want => Cardinality(Wrong') <= Cardinality(Wrong) - 1
    BY <1>1, <1>2, <2>1, WrongRejected
  <2>3. /\ line' \in Seq(Answers)
        /\ Cardinality(Wrong) \in Nat /\ Cardinality(Wrong') \in Nat
        /\ Cardinality(Wrong') <= Len(line')
    BY <1>2, <2>1, TailLine, WrongFinite
  <2>4. FewFaults'
    BY <1>1, <1>2, <2>1, <2>2, <2>3 DEF FaultsInv, FewFaults, Counted, Retry_Max, None
  <2>5. faults' < Retry_Max => Counted'
    BY <1>1, <1>2, <1>3, <2>1, <2>2, <2>3
       DEF FaultsInv, FewFaults, Counted, Waiting, Retry_Max, None
  <2> QED BY <2>4, <2>5 DEF FaultsInv
<1> QED BY <1>5, <1>6

\* After an answer that fits, whatever is left on the line may be wrong.
LEMMA FaultsTake ==
    ASSUME TypeOK, SendInv, FaultsInv, Take
    PROVE  FaultsInv'
<1>1. /\ line \in Seq(Answers) /\ Len(line) \in Nat /\ faults \in Nat
      /\ line # <<>> /\ line' = Tail(line)
      /\ sent' = None /\ retry' = 0 /\ UNCHANGED <<result, faults>>
  BY DEF TypeOK, Answers, Take, Comes
<1>2. line' \in Seq(Answers) /\ Len(line') = Len(line) - 1
  BY <1>1, TailLine
<1>3. Cardinality(Wrong') \in Nat /\ Cardinality(Wrong') <= Len(line')
  BY <1>1, <1>2, WrongFinite
<1> QED BY <1>1, <1>2, <1>3 DEF FaultsInv, FewFaults, Counted, Waiting

LEMMA FaultsStart ==
    ASSUME TypeOK, SendInv, FaultsInv, StartFails \/ \E t \in Types \cup {"other"} : Start(t)
    PROVE  FaultsInv'
<1>1. CASE StartFails
  BY <1>1 DEF StartFails, FaultsInv, FewFaults, Retry_Max
<1>2. ASSUME NEW t \in Types \cup {"other"}, Start(t) PROVE FaultsInv'
  <2>1. /\ result' = "progress" /\ retry' = 0 /\ sent' = t /\ t # None /\ st' = "noti_1"
        /\ faults' = IF Len(line') + 1 < Retry_Max THEN Len(line') + 1 ELSE Retry_Max
    BY <1>2 DEF Start, Types, None
  <2>2. line \in Seq(Answers)
    BY DEF TypeOK, Answers
  <2>3. line' \in Seq(Answers)
    BY TypeStep, <1>2 DEF SendInv, Control, TypeOK, Answers, Next
  <2>4. Cardinality(Wrong') \in Nat /\ Cardinality(Wrong') <= Len(line') /\ Len(line') \in Nat
    BY <2>2, <2>3, WrongFinite
  <2> QED BY <2>1, <2>4 DEF FaultsInv, FewFaults, Counted, Waiting, Retry_Max
<1> QED BY <1>1, <1>2

LEMMA FaultsRest ==
    ASSUME TypeOK, SendInv, FaultsInv,
           Success \/ TakenOut \/ AmpRestarts \/ UNCHANGED vars
    PROVE  FaultsInv'
<1>1. CASE Success \/ TakenOut
  <2>1. st' = None /\ UNCHANGED <<result, sent, line, faults>> /\ sent = None
    BY <1>1 DEF Success, TakenOut
  <2> QED BY <2>1 DEF FaultsInv, FewFaults, Counted, Waiting
<1>2. CASE AmpRestarts \/ UNCHANGED vars
  <2>1. UNCHANGED <<st, result, frame, retry, sent, line, faults>>
    BY <1>2 DEF AmpRestarts, vars, sender
  <2>2. Wrong' = Wrong /\ Waiting' = Waiting
    BY <2>1 DEF Wrong, Fits, Want, Waiting
  <2> QED BY <2>1, <2>2 DEF FaultsInv, FewFaults, Counted
<1> QED BY <1>1, <1>2

\* A transfer fails only after five faults of its own or of what an earlier transfer
\* left on the line, for any number of frames: one late answer costs every frame that
\* follows a try, and never adds up.
THEOREM FailureIsFaults == Spec => []FewFaults
<1>1. TypeOK /\ SendInv /\ FaultsInv /\ [Next]_vars => FaultsInv'
  BY FaultsRequest, FaultsTry, FaultsTake, FaultsStart, FaultsRest DEF Next, Pass, Wait
<1>2. FaultsInv => FewFaults
  BY DEF FaultsInv
<1> QED BY <1>1, <1>2, FaultsInit, Sending, PTL DEF Spec
=============================================================================
