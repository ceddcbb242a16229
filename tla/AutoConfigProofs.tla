-------------------------- MODULE AutoConfigProofs --------------------------
(***************************************************************************)
(* Proofs about AutoConfig, for any number of changes of the line and in   *)
(* whatever way the threads interleave: the types, BootOrder, and what the *)
(* registration's flags and radiation owe to the last restart.             *)
(***************************************************************************)
EXTENDS AutoConfig, TLAPS

-----------------------------------------------------------------------------
(* The order of the statuses.                                              *)

LEMMA StatusValues ==
    Statuses = {"System_Init", "RE_ID_Acqui", "Init_Notify", "CPRI_St_Req",
                "Dly_Set_Req", "Completed"}
<1>1. \A i \in 1..6 : i = 1 \/ i = 2 \/ i = 3 \/ i = 4 \/ i = 5 \/ i = 6
  OBVIOUS
<1> QED BY <1>1 DEF Statuses, Init_St

LEMMA RankValues == \A i \in 1..6 : Rank(Init_St[i]) = i
<1> SUFFICES ASSUME NEW i \in 1..6 PROVE Rank(Init_St[i]) = i
  OBVIOUS
<1>1. \A j \in 1..6 : Init_St[j] = Init_St[i] => j = i
  BY DEF Init_St
<1> QED BY <1>1 DEF Rank

\* A status not below Dly_Set_Req is one of the last two.
LEMMA NotBelow ==
    ASSUME NEW st \in Statuses, ~Below(st, "Dly_Set_Req")
    PROVE  st \in {"Dly_Set_Req", "Completed"}
<1>1. PICK i \in 1..6 : st = Init_St[i]
  BY DEF Statuses
<1>2. Rank(st) = i /\ Rank("Dly_Set_Req") = 5
  <2>1. Init_St[5] = "Dly_Set_Req" /\ 5 \in 1..6
    BY DEF Init_St
  <2>2. Rank(Init_St[5]) = 5
    BY <2>1, RankValues
  <2> QED BY <1>1, <2>1, <2>2, RankValues
<1>3. i = 5 \/ i = 6
  BY <1>2 DEF Below
<1> QED BY <1>1, <1>3 DEF Init_St

-----------------------------------------------------------------------------
(* Types.                                                                  *)

LEMMA TypeInit == Init => TypeOK
<1> SUFFICES ASSUME Init PROVE TypeOK
  OBVIOUS
<1>1. RU_Init_Status \in Statuses
  BY StatusValues DEF Init
<1>2. env \in Nat /\ met \subseteq Msgs /\ net \subseteq Msgs \ Requests
  BY DEF Init
<1> QED BY <1>1, <1>2 DEF Init, TypeOK, IpSteps, NotiSteps

\* TypeOK in two parts, of which one is Boolean.
BoolType ==
    /\ Init_Status \in BOOLEAN /\ RU_Id_Alloc \in BOOLEAN
    /\ Base_Is_Stable \in BOOLEAN /\ Base_Changed \in BOOLEAN /\ Changed2 \in BOOLEAN
    /\ gREMS_Noti_Ready \in BOOLEAN /\ AMP_Ctrl_Allowed \in BOOLEAN
    /\ Is_CPRI_Lock \in BOOLEAN
    /\ Reg_Ready_Flag \in BOOLEAN /\ prev_lock_st \in BOOLEAN
    /\ torn \in BOOLEAN

StepType ==
    /\ AutoConfig_Step \in {"STEP04", "STEP05"}
    /\ Ip_Assign_Step \in IpSteps /\ Init_Noti_Step \in NotiSteps
    /\ RU_Init_Status \in Statuses
    /\ pc \in {"pass", "unlock", "restart", "clear", "clear2", "clear3", "prev", "locked",
               "step", "sent", "check", "cpri"}
    /\ back \in {"restart", "prev"} /\ cur \in NotiSteps
    /\ rx \in Msgs \cup {"idle", "acked", "delayed", "Dly_Set_Req", "Completed"}
    /\ met \subseteq Msgs /\ net \subseteq Msgs \ Requests
    /\ env \in Nat

LEMMA TypeParts == TypeOK <=> BoolType /\ StepType
BY DEF TypeOK, BoolType, StepType

LEMMA BoolStep ==
    ASSUME TypeOK, [Next]_vars
    PROVE  BoolType'
<1> USE TypeParts DEF BoolType, flags, base, enables, hist, line,
        task, CaseFrame, EndPass, SetStep, HandlerFrame
<1>1. CASE Proc___gREMS_Comm_Start
  <2>1. UNCHANGED <<flags, base, line, prev_lock_st, hist>>
    BY <1>1 DEF Proc___gREMS_Comm_Start
  <2>2. /\ gREMS_Noti_Ready' \in BOOLEAN /\ AMP_Ctrl_Allowed' \in BOOLEAN
    BY <1>1 DEF Proc___gREMS_Comm_Start
  <2> QED BY <2>1, <2>2
<1>2. CASE OnUnlock
  <2>1. Base_Is_Stable' \in BOOLEAN
    BY <1>2 DEF OnUnlock
  <2>2. UNCHANGED <<flags, Base_Changed, Changed2, enables, line, prev_lock_st, hist>>
    BY <1>2 DEF OnUnlock
  <2> QED BY <2>1, <2>2
<1>3. CASE OnChange
  BY <1>3 DEF OnChange
<1>4. CASE ClearSteps
  <2>1. torn' \in BOOLEAN
    BY <1>4 DEF ClearSteps, HandlerAtWork
  <2> QED BY <1>4, <2>1 DEF ClearSteps
<1>5. CASE ClearFlags
  <2>1. torn' \in BOOLEAN
    BY <1>5 DEF ClearFlags, HandlerAtWork
  <2> QED BY <1>5, <2>1 DEF ClearFlags
<1>6. CASE ClearStatus
  <2>1. torn' \in BOOLEAN
    BY <1>6 DEF ClearStatus, HandlerAtWork
  <2> QED BY <1>6, <2>1 DEF ClearStatus
<1>7. CASE KeepLock
  BY <1>7 DEF KeepLock
<1>8. CASE AutoConfig_Proc
  BY <1>8 DEF AutoConfig_Proc
<1>9. CASE IpReady
  <2>1. Base_Changed' \in BOOLEAN
    BY <1>9 DEF IpReady
  <2>2. UNCHANGED <<Init_Status, RU_Id_Alloc, Base_Is_Stable, Changed2, enables, line,
                    prev_lock_st, hist>>
    BY <1>9 DEF IpReady
  <2> QED BY <2>1, <2>2
<1>10. CASE IpBaseChanged
  BY <1>10 DEF IpBaseChanged
<1>11. CASE IpFinish
  BY <1>11 DEF IpFinish
<1>12. CASE NotiReady
  BY <1>12 DEF NotiReady
<1>13. CASE NotiFinish
  BY <1>13 DEF NotiFinish
<1>14. CASE RaiseToCpri
  BY <1>14 DEF RaiseToCpri
<1>15. CASE SendNoti
  BY <1>15 DEF SendNoti
<1>16. CASE SetStatus
  BY <1>16 DEF SetStatus
<1>17. CASE SetCheck
  BY <1>17 DEF SetCheck
<1>18. CASE Expired
  BY <1>18 DEF Expired
<1>19. CASE NoCase
  BY <1>19 DEF NoCase
<1>20. CASE Processing
  BY <1>20 DEF Processing
<1>21. CASE RuIdAck
  BY <1>21 DEF RuIdAck
<1>22. CASE InitAck
  BY <1>22 DEF InitAck
<1>23. CASE Recv_FX_INIT_NOTI_ACK
  BY <1>23 DEF Recv_FX_INIT_NOTI_ACK
<1>24. CASE CpriReq
  BY <1>24 DEF CpriReq
<1>25. CASE DelayReq
  BY <1>25 DEF DelayReq
<1>26. CASE DelaySet
  BY <1>26 DEF DelaySet
<1>27. CASE RaiseStatus
  BY <1>27 DEF RaiseStatus
<1>28. ASSUME NEW m \in Msgs, Receive(m) PROVE BoolType'
  <2>1. torn' \in BOOLEAN /\ RU_Id_Alloc' \in BOOLEAN
    BY <1>28 DEF Receive
  <2> QED BY <1>28, <2>1 DEF Receive
<1>29. CASE Lose
  BY <1>29 DEF Lose
<1>30. CASE Lock
  BY <1>30 DEF Lock
<1>31. CASE Unlock
  BY <1>31 DEF Unlock
<1>32. CASE RegReady
  BY <1>32 DEF RegReady
<1>33. CASE BaseStable
  BY <1>33 DEF BaseStable
<1>34. CASE BaseChange
  BY <1>34 DEF BaseChange
<1>35. CASE UNCHANGED vars
  BY <1>35 DEF vars
<1> QED
  BY <1>1, <1>2, <1>3, <1>4, <1>5, <1>6, <1>7, <1>8, <1>9, <1>10, <1>11, <1>12,
     <1>13, <1>14, <1>15, <1>16, <1>17, <1>18, <1>19, <1>20, <1>21, <1>22, <1>23,
     <1>24, <1>25, <1>26, <1>27, <1>28, <1>29, <1>30, <1>31, <1>32, <1>33, <1>34,
     <1>35
     DEF Next, Auto_Config_Task, AutoConfig_Flag_Clear, Ip_Assign_Process, Init_Noti_Process,
         Both_Process, Handle

LEMMA StepStep ==
    ASSUME TypeOK, [Next]_vars
    PROVE  StepType'
<1> USE TypeParts, StatusValues
    DEF StepType, IpSteps, NotiSteps, Msgs, Requests, flags, base, enables, hist, line,
        task, CaseFrame, EndPass, SetStep, HandlerFrame
<1>1. CASE Proc___gREMS_Comm_Start
  BY <1>1 DEF Proc___gREMS_Comm_Start, Early
<1>2. CASE OnUnlock
  BY <1>2 DEF OnUnlock
<1>3. CASE OnChange
  BY <1>3 DEF OnChange
<1>4. CASE ClearSteps
  BY <1>4 DEF ClearSteps
<1>5. CASE ClearFlags
  BY <1>5 DEF ClearFlags
<1>6. CASE ClearStatus
  BY <1>6 DEF ClearStatus
<1>7. CASE KeepLock
  BY <1>7 DEF KeepLock
<1>8. CASE AutoConfig_Proc
  BY <1>8 DEF AutoConfig_Proc
<1>9. CASE IpReady
  BY <1>9 DEF IpReady
<1>10. CASE IpBaseChanged
  BY <1>10 DEF IpBaseChanged
<1>11. CASE IpFinish
  BY <1>11 DEF IpFinish
<1>12. CASE NotiReady
  BY <1>12 DEF NotiReady
<1>13. CASE NotiFinish
  BY <1>13 DEF NotiFinish
<1>14. CASE RaiseToCpri
  BY <1>14 DEF RaiseToCpri
<1>15. CASE SendNoti
  BY <1>15 DEF SendNoti
<1>16. CASE SetStatus
  BY <1>16 DEF SetStatus
<1>17. CASE SetCheck
  BY <1>17 DEF SetCheck
<1>18. CASE Expired
  BY <1>18 DEF Expired
<1>19. CASE NoCase
  BY <1>19 DEF NoCase
<1>20. CASE Processing
  BY <1>20 DEF Processing
<1>21. CASE RuIdAck
  BY <1>21 DEF RuIdAck
<1>22. CASE InitAck
  BY <1>22 DEF InitAck
<1>23. CASE Recv_FX_INIT_NOTI_ACK
  BY <1>23 DEF Recv_FX_INIT_NOTI_ACK
<1>24. CASE CpriReq
  BY <1>24 DEF CpriReq
<1>25. CASE DelayReq
  BY <1>25 DEF DelayReq
<1>26. CASE DelaySet
  BY <1>26 DEF DelaySet
<1>27. CASE RaiseStatus
  BY <1>27 DEF RaiseStatus
<1>28. ASSUME NEW m \in Msgs, Receive(m) PROVE StepType'
  BY <1>28 DEF Receive
<1>29. CASE Lose
  BY <1>29 DEF Lose
<1>30. CASE Lock
  BY <1>30 DEF Lock
<1>31. CASE Unlock
  BY <1>31 DEF Unlock
<1>32. CASE RegReady
  BY <1>32 DEF RegReady
<1>33. CASE BaseStable
  BY <1>33 DEF BaseStable
<1>34. CASE BaseChange
  BY <1>34 DEF BaseChange
<1>35. CASE UNCHANGED vars
  BY <1>35 DEF vars
<1> QED
  BY <1>1, <1>2, <1>3, <1>4, <1>5, <1>6, <1>7, <1>8, <1>9, <1>10, <1>11, <1>12,
     <1>13, <1>14, <1>15, <1>16, <1>17, <1>18, <1>19, <1>20, <1>21, <1>22, <1>23,
     <1>24, <1>25, <1>26, <1>27, <1>28, <1>29, <1>30, <1>31, <1>32, <1>33, <1>34,
     <1>35
     DEF Next, Auto_Config_Task, AutoConfig_Flag_Clear, Ip_Assign_Process, Init_Noti_Process,
         Both_Process, Handle

LEMMA TypeStep == TypeOK /\ [Next]_vars => TypeOK'
<1> SUFFICES ASSUME TypeOK, [Next]_vars PROVE TypeOK'
  OBVIOUS
<1>1. BoolType' /\ StepType'
  BY BoolStep, StepStep
<1> QED BY <1>1 DEF TypeOK, BoolType, StepType

\* The flags, steps and status stay in their types, whatever the threads do to them.
THEOREM TypeCorrect == Spec => []TypeOK
<1> QED BY TypeInit, TypeStep, PTL DEF Spec
-----------------------------------------------------------------------------
(* What the statuses and the steps owe to the messages accepted.           *)

\* Each message accepted presupposes the one before it in the registration.
MetInOrder ==
    /\ "CPRI_REQ" \in met => "INIT_ACK" \in met
    /\ "INIT_ACK" \in met => "RUID_ACK" \in met

\* What the receive thread is doing, and the flag it sets, come from messages accepted.
ReceiverMet ==
    /\ rx \in Msgs \ {"DELAY_REQ"} => rx \in met
    /\ rx = "acked" => "INIT_ACK" \in met
    /\ rx \in {"delayed", "Dly_Set_Req", "Completed"} => "CPRI_REQ" \in met
    /\ Init_Status => "INIT_ACK" \in met

\* So do the steps it sets, which the task follows ...
StepsMet ==
    /\ Ip_Assign_Step \in {"PROCESSING", "FINISH"} => "RUID_ACK" \in met
    /\ Init_Noti_Step = "PROCESSING" => "RUID_ACK" \in met
    /\ cur = "PROCESSING" => "RUID_ACK" \in met

\* ... and the last two statuses.
StatusMet == RU_Init_Status \in {"Dly_Set_Req", "Completed"} => "CPRI_REQ" \in met

\* None of it is undone by a restart: it speaks of the messages since boot.
IInv == TypeOK /\ MetInOrder /\ ReceiverMet /\ StepsMet /\ StatusMet /\ BootOrder

LEMMA InvInit == Init => IInv
<1> SUFFICES ASSUME Init PROVE IInv
  OBVIOUS
<1>1. TypeOK
  BY TypeInit
<1>2. MetInOrder /\ StepsMet /\ StatusMet /\ BootOrder
  BY DEF Init, MetInOrder, StepsMet, StatusMet, BootOrder
<1>3. ReceiverMet
  BY DEF Init, ReceiverMet, Msgs, Requests
<1> QED BY <1>1, <1>2, <1>3 DEF IInv

LEMMA InvStep == IInv /\ [Next]_vars => IInv'
<1> SUFFICES ASSUME IInv, [Next]_vars PROVE IInv'
  OBVIOUS
<1>0. TypeOK'
  BY TypeStep DEF IInv
<1> DEFINE Goal == MetInOrder /\ ReceiverMet /\ StepsMet /\ StatusMet /\ BootOrder
<1> USE DEF IInv, TypeOK, MetInOrder, ReceiverMet, StepsMet, StatusMet, BootOrder, Msgs, Requests,
        flags, base, enables, hist, line, task, CaseFrame, EndPass, SetStep, HandlerFrame
<1>1. ASSUME Proc___gREMS_Comm_Start PROVE Goal'
  BY <1>1 DEF Proc___gREMS_Comm_Start, Early
<1>2. ASSUME OnUnlock PROVE Goal'
  BY <1>2 DEF OnUnlock
<1>3. ASSUME OnChange PROVE Goal'
  BY <1>3 DEF OnChange
<1>4. ASSUME ClearSteps PROVE Goal'
  BY <1>4 DEF ClearSteps
<1>5. ASSUME ClearFlags PROVE Goal'
  BY <1>5 DEF ClearFlags
<1>6. ASSUME ClearStatus PROVE Goal'
  BY <1>6 DEF ClearStatus
<1>7. ASSUME KeepLock PROVE Goal'
  BY <1>7 DEF KeepLock
<1>8. ASSUME AutoConfig_Proc PROVE Goal'
  BY <1>8 DEF AutoConfig_Proc
<1>9. ASSUME IpReady PROVE Goal'
  BY <1>9 DEF IpReady
<1>10. ASSUME IpBaseChanged PROVE Goal'
  BY <1>10 DEF IpBaseChanged
<1>11. ASSUME IpFinish PROVE Goal'
  BY <1>11 DEF IpFinish
<1>12. ASSUME NotiReady PROVE Goal'
  BY <1>12 DEF NotiReady
<1>13. ASSUME NotiFinish PROVE Goal'
  BY <1>13 DEF NotiFinish
<1>14. ASSUME RaiseToCpri PROVE Goal'
  BY <1>14 DEF RaiseToCpri
<1>15. ASSUME SendNoti PROVE Goal'
  BY <1>15 DEF SendNoti
<1>16. ASSUME SetStatus PROVE Goal'
  BY <1>16 DEF SetStatus
<1>17. ASSUME SetCheck PROVE Goal'
  BY <1>17 DEF SetCheck
<1>18. ASSUME Expired PROVE Goal'
  BY <1>18 DEF Expired
<1>19. ASSUME NoCase PROVE Goal'
  BY <1>19 DEF NoCase
<1>20. ASSUME Processing PROVE Goal'
  BY <1>20 DEF Processing
<1>21. ASSUME RuIdAck PROVE Goal'
  BY <1>21 DEF RuIdAck
<1>22. ASSUME InitAck PROVE Goal'
  BY <1>22 DEF InitAck
<1>23. ASSUME Recv_FX_INIT_NOTI_ACK PROVE Goal'
  BY <1>23 DEF Recv_FX_INIT_NOTI_ACK
<1>24. ASSUME CpriReq PROVE Goal'
  BY <1>24 DEF CpriReq
<1>25. ASSUME DelayReq PROVE Goal'
  <2>1. ~Below(RU_Init_Status, "Dly_Set_Req") => "CPRI_REQ" \in met
    BY NotBelow
  <2>2. rx' = "delayed" => "CPRI_REQ" \in met
    BY <1>25, <2>1 DEF DelayReq
  <2>3. rx' \in {"idle", "delayed"}
    BY <1>25 DEF DelayReq
  <2> QED BY <1>25, <2>2, <2>3 DEF DelayReq
<1>26. ASSUME DelaySet PROVE Goal'
  BY <1>26 DEF DelaySet
<1>27. ASSUME RaiseStatus PROVE Goal'
  BY <1>27 DEF RaiseStatus
<1>28. ASSUME NEW m \in Msgs, Receive(m) PROVE Goal'
  BY <1>28 DEF Receive, Accepts
<1>29. ASSUME Lose PROVE Goal'
  BY <1>29 DEF Lose
<1>30. ASSUME Lock PROVE Goal'
  BY <1>30 DEF Lock
<1>31. ASSUME Unlock PROVE Goal'
  BY <1>31 DEF Unlock
<1>32. ASSUME RegReady PROVE Goal'
  BY <1>32 DEF RegReady
<1>33. ASSUME BaseStable PROVE Goal'
  BY <1>33 DEF BaseStable
<1>34. ASSUME BaseChange PROVE Goal'
  BY <1>34 DEF BaseChange
<1>35. ASSUME UNCHANGED vars PROVE Goal'
  BY <1>35 DEF vars
<1> QED
  BY <1>0, <1>1, <1>2, <1>3, <1>4, <1>5, <1>6, <1>7, <1>8, <1>9, <1>10, <1>11, <1>12,
     <1>13, <1>14, <1>15, <1>16, <1>17, <1>18, <1>19, <1>20, <1>21, <1>22, <1>23,
     <1>24, <1>25, <1>26, <1>27, <1>28, <1>29, <1>30, <1>31, <1>32, <1>33, <1>34,
     <1>35
     DEF Next, Auto_Config_Task, AutoConfig_Flag_Clear, Ip_Assign_Process, Init_Noti_Process,
         Both_Process, Handle

\* Nothing is radiated or reported to gREMS before the unit has been given an ID, been
\* acknowledged and been asked for its CPRI status, in whatever way the threads and the
\* messages interleave.
THEOREM BootInOrder == Spec => []BootOrder
<1>1. IInv => BootOrder
  BY DEF IInv
<1> QED BY InvInit, InvStep, <1>1, PTL DEF Spec

-----------------------------------------------------------------------------
(* What the flags owe to the last restart, unless a handler was at work      *)
(* while they were cleared.                                                  *)

\* While the flags are cleared no handler is at work, and none has moved the steps.
Cleared ==
    /\ pc \in {"clear2", "clear3"} =>
          rx = "idle" /\ Assigning /\ Ip_Assign_Step = "READY"
    /\ pc = "clear3" => ~Init_Status /\ ~RU_Id_Alloc

\* The ladder of the address is beyond its notification only with an ID, and an ID is taken
\* only while it is not; what the switch found is still there.
Assigned ==
    /\ Ip_Assign_Step \in {"PROCESSING", "FINISH"} => RU_Id_Alloc
    /\ rx = "RUID_ACK" => RU_Id_Alloc /\ Ip_Assign_Step \notin {"PROCESSING", "FINISH"}
    /\ pc = "step" /\ Assigning /\ cur \in {"PROCESSING", "FINISH"} => Ip_Assign_Step = cur
    /\ ~Assigning => Ip_Assign_Step = "FINISH"

\* An INIT_NOTI_ACK being handled finds the address assigned, and so does what it sets.
Acknowledged ==
    /\ rx \in {"INIT_ACK", "acked"} => ~Assigning
    /\ Init_Status /\ pc # "clear2" => ~Assigning

\* The requests of the LS, and the statuses they raise, come after it.
Asked ==
    /\ rx \in Requests \cup {"delayed", "Dly_Set_Req", "Completed"} => Init_Status
    /\ RU_Init_Status \in {"Dly_Set_Req", "Completed"} /\ pc \notin {"clear2", "clear3"} =>
          Init_Status
    /\ pc = "unlock" /\ AMP_Ctrl_Allowed => Init_Status

RegInv == ~torn => Cleared /\ Assigned /\ Acknowledged /\ Asked

LEMMA RegInit == Init => RegInv
<1> SUFFICES ASSUME Init PROVE RegInv
  OBVIOUS
<1> USE DEF Init, Requests, Assigning
<1>1. Cleared /\ Assigned
  BY DEF Cleared, Assigned
<1>2. Acknowledged /\ Asked
  BY DEF Acknowledged, Asked
<1> QED BY <1>1, <1>2 DEF RegInv

LEMMA RegStep == TypeOK /\ RegInv /\ [Next]_vars => RegInv'
<1> SUFFICES ASSUME TypeOK, RegInv, [Next]_vars PROVE RegInv'
  OBVIOUS
<1> USE DEF TypeOK, RegInv, Cleared, Assigned, Assigning, Acknowledged, Asked, HandlerAtWork,
        Msgs, Requests, flags, base, enables, hist, line, task, CaseFrame, EndPass,
        SetStep, HandlerFrame
<1>1. ASSUME Proc___gREMS_Comm_Start PROVE RegInv'
  BY <1>1 DEF Proc___gREMS_Comm_Start, Early
<1>2. ASSUME OnUnlock PROVE RegInv'
  BY <1>2 DEF OnUnlock
<1>3. ASSUME OnChange PROVE RegInv'
  BY <1>3 DEF OnChange
<1>4. ASSUME ClearSteps PROVE RegInv'
  BY <1>4 DEF ClearSteps
<1>5. ASSUME ClearFlags PROVE RegInv'
  BY <1>5 DEF ClearFlags
<1>6. ASSUME ClearStatus PROVE RegInv'
  BY <1>6 DEF ClearStatus
<1>7. ASSUME KeepLock PROVE RegInv'
  BY <1>7 DEF KeepLock
<1>8. ASSUME AutoConfig_Proc PROVE RegInv'
  BY <1>8 DEF AutoConfig_Proc
<1>9. ASSUME IpReady PROVE RegInv'
  BY <1>9 DEF IpReady
<1>10. ASSUME IpBaseChanged PROVE RegInv'
  BY <1>10 DEF IpBaseChanged
<1>11. ASSUME IpFinish PROVE RegInv'
  BY <1>11 DEF IpFinish
<1>12. ASSUME NotiReady PROVE RegInv'
  BY <1>12 DEF NotiReady
<1>13. ASSUME NotiFinish PROVE RegInv'
  BY <1>13 DEF NotiFinish
<1>14. ASSUME RaiseToCpri PROVE RegInv'
  BY <1>14 DEF RaiseToCpri
<1>15. ASSUME SendNoti PROVE RegInv'
  BY <1>15 DEF SendNoti
<1>16. ASSUME SetStatus PROVE RegInv'
  BY <1>16 DEF SetStatus
<1>17. ASSUME SetCheck PROVE RegInv'
  BY <1>17 DEF SetCheck
<1>18. ASSUME Expired PROVE RegInv'
  BY <1>18 DEF Expired
<1>19. ASSUME NoCase PROVE RegInv'
  BY <1>19 DEF NoCase
<1>20. ASSUME Processing PROVE RegInv'
  BY <1>20 DEF Processing
<1>21. ASSUME RuIdAck PROVE RegInv'
  BY <1>21 DEF RuIdAck
<1>22. ASSUME InitAck PROVE RegInv'
  BY <1>22 DEF InitAck
<1>23. ASSUME Recv_FX_INIT_NOTI_ACK PROVE RegInv'
  BY <1>23 DEF Recv_FX_INIT_NOTI_ACK
<1>24. ASSUME CpriReq PROVE RegInv'
  BY <1>24 DEF CpriReq
<1>25. ASSUME DelayReq PROVE RegInv'
  BY <1>25 DEF DelayReq
<1>26. ASSUME DelaySet PROVE RegInv'
  BY <1>26 DEF DelaySet
<1>27. ASSUME RaiseStatus PROVE RegInv'
  BY <1>27 DEF RaiseStatus
<1>28. ASSUME NEW m \in Msgs, Receive(m) PROVE RegInv'
  BY <1>28 DEF Receive, Accepts
<1>29. ASSUME Lose PROVE RegInv'
  BY <1>29 DEF Lose
<1>30. ASSUME Lock PROVE RegInv'
  BY <1>30 DEF Lock
<1>31. ASSUME Unlock PROVE RegInv'
  BY <1>31 DEF Unlock
<1>32. ASSUME RegReady PROVE RegInv'
  BY <1>32 DEF RegReady
<1>33. ASSUME BaseStable PROVE RegInv'
  BY <1>33 DEF BaseStable
<1>34. ASSUME BaseChange PROVE RegInv'
  BY <1>34 DEF BaseChange
<1>35. ASSUME UNCHANGED vars PROVE RegInv'
  BY <1>35 DEF vars
<1> QED
  BY <1>1, <1>2, <1>3, <1>4, <1>5, <1>6, <1>7, <1>8, <1>9, <1>10, <1>11, <1>12,
     <1>13, <1>14, <1>15, <1>16, <1>17, <1>18, <1>19, <1>20, <1>21, <1>22, <1>23,
     <1>24, <1>25, <1>26, <1>27, <1>28, <1>29, <1>30, <1>31, <1>32, <1>33, <1>34,
     <1>35
     DEF Next, Auto_Config_Task, AutoConfig_Flag_Clear, Ip_Assign_Process, Init_Noti_Process,
         Both_Process, Handle

LEMMA Registration == Spec => [](TypeOK /\ RegInv)
<1>1. TypeOK /\ RegInv /\ [Next]_vars => TypeOK' /\ RegInv'
  BY RegStep, TypeStep
<1> QED BY <1>1, TypeInit, RegInit, PTL DEF Spec

\* However the threads interleave, a unit that answers the LS has been registered since the
\* last restart, unless a handler was at work during it: no acknowledgement of an earlier
\* registration completes a new one.
THEOREM RegisteredAfresh == Spec => []InitStatusFresh
<1>1. TypeOK /\ RegInv => InitStatusFresh
  BY DEF TypeOK, RegInv, Cleared, Assigned, Acknowledged, Assigning, InitStatusFresh
<1> QED BY <1>1, Registration, PTL

\* However the threads interleave, a pass that has judged the status allows the amplifiers
\* only to a unit registered since the last restart, with the same exception.
THEOREM RadiatesRegistered == Spec => []RadiationRegistered
<1>1. RegInv => RadiationRegistered
  BY DEF RegInv, Asked, RadiationRegistered
<1> QED BY <1>1, Registration, PTL
=============================================================================
