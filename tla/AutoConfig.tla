----------------------------- MODULE AutoConfig -----------------------------
(***************************************************************************)
(* Registration of the radio unit with the layer splitter (LS):            *)
(* auto_cofig_proc.c and the message handlers of lsh_udp_comm.c.           *)
(*                                                                         *)
(* Two threads share AufoConfigFlag and m_St.RU_Init_Status and no lock    *)
(* protects them.  Auto_Config_Task makes a pass every 500 ms; its pc cuts *)
(* the pass wherever the other threads can get in between two accesses.    *)
(* The LS receive thread (UDP_Sel_Proc_Task) handles one message at a      *)
(* time; rx says how far.  The thread that reads the FPGA moves the CPRI   *)
(* lock and the base address.                                              *)
(*                                                                         *)
(* The LS and the network are external: a notification is answered,        *)
(* requests follow, and every message may be lost, delayed or repeated.    *)
(* An acknowledgement for another unit only gives its sender's address and *)
(* is not modelled, nor are the addresses, the notifications of alarms and *)
(* of the C&M path, the ID mismatch alarm and factory mode.                *)
(***************************************************************************)
EXTENDS Integers

CONSTANT MaxEnv     \* bound on losses of the lock and address changes, together

ASSUME ConstAssumption == MaxEnv \in Nat

\* AID 0x500D, in the order of its values.
Init_St == <<"System_Init", "RE_ID_Acqui", "Init_Notify", "CPRI_St_Req",
             "Dly_Set_Req", "Completed">>
Statuses == {Init_St[i] : i \in 1..6}
Rank(st) == CHOOSE i \in 1..6 : Init_St[i] = st
BelowOrAt(st, limit) == Rank(st) <= Rank(limit)     \* mutation of Below
Below(st, limit) == Rank(st) < Rank(limit)

IpSteps == {"READY", "START", "CHECK", "PROCESSING", "FINISH"}
NotiSteps == IpSteps \cup {"END"}

Requests == {"CPRI_REQ", "DELAY_REQ"}
Msgs == {"RUID_ACK", "INIT_ACK"} \cup Requests

VARIABLES
    \* AufoConfigFlag
    AutoConfig_Step,    \* "STEP04": address assignment, "STEP05": notification
    Ip_Assign_Step, Init_Noti_Step,
    Init_Status,        \* INIT_NOTI_ACK received
    RU_Id_Alloc,        \* RU_Id allocated
    Base_Is_Stable,
    Base_Changed,       \* Base_Mac_Changed or Base_Ip_Changed
    Changed2,           \* the same, or the port number or cascade ID changed:
                        \* the flags that ask for a restart
    RU_Init_Status,     \* m_St
    gREMS_Noti_Ready, AMP_Ctrl_Allowed, \* m_Env
    Is_CPRI_Lock,       \* m_St
    Reg_Ready_Flag,
    \* Auto_Config_Task
    prev_lock_st,
    pc,
    back,               \* where AutoConfig_Flag_Clear returns
    cur,                \* the step the switch of this pass found
    rx,                 \* the handler the receive thread is in, or "idle"
    met,                \* history: the messages accepted since boot, but DELAY_REQ
    torn,               \* history: a handler was at work while the flags were
                        \* last cleared, so that its writes and the clearing mix
    \* external
    net,                \* acknowledgements under way
    env                 \* losses and changes so far

flags == <<AutoConfig_Step, Ip_Assign_Step, Init_Noti_Step, Init_Status, RU_Id_Alloc>>
base == <<Base_Is_Stable, Base_Changed, Changed2>>
enables == <<gREMS_Noti_Ready, AMP_Ctrl_Allowed>>
hist == <<met, torn>>
line == <<Is_CPRI_Lock, Reg_Ready_Flag, env>>
task == <<prev_lock_st, pc, back, cur>>
vars == <<flags, base, enables, line, task, net, rx, hist, RU_Init_Status>>

-----------------------------------------------------------------------------
(* Auto_Config_Task                                                        *)

\* Proc___gREMS_Comm_Start.  The 10-minute timer, restarted by the early
\* statuses, and the delays kept in m_Eep are choices.
Early == \/ RU_Init_Status \in {"System_Init", "RE_ID_Acqui", "Init_Notify"}
         \/ RU_Init_Status = "CPRI_St_Req"

Proc___gREMS_Comm_Start ==
    /\ pc = "pass"
    /\ \/ /\ Early
          /\ gREMS_Noti_Ready' = FALSE
          /\ AMP_Ctrl_Allowed' = FALSE
       \/ /\ RU_Init_Status = "Dly_Set_Req"
          /\ \E timeout, normal \in BOOLEAN :
               /\ gREMS_Noti_Ready' = (gREMS_Noti_Ready \/ timeout)
               /\ AMP_Ctrl_Allowed' = (AMP_Ctrl_Allowed \/ (gREMS_Noti_Ready' /\ normal))
       \/ /\ RU_Init_Status = "Completed"
          /\ AMP_Ctrl_Allowed' = TRUE
          /\ gREMS_Noti_Ready' = TRUE
    /\ pc' = "unlock"
    /\ UNCHANGED <<flags, base, line, prev_lock_st, back, cur, net, rx, hist, RU_Init_Status>>

\* Unlocked before an ID was allocated: start over, the base address too.
OnUnlock ==
    /\ pc = "unlock"
    /\ IF prev_lock_st /\ ~Is_CPRI_Lock /\ ~RU_Id_Alloc
       THEN pc' = "clear" /\ back' = "restart" /\ Base_Is_Stable' = FALSE
       ELSE pc' = "restart" /\ UNCHANGED <<back, Base_Is_Stable>>
    /\ UNCHANGED <<flags, Base_Changed, Changed2, enables, line, prev_lock_st, cur, net,
                   rx, hist, RU_Init_Status>>

\* A changed port, cascade ID or base address, or the CPRI lock regained.
MustRestart == Changed2 \/ (Is_CPRI_Lock /\ ~prev_lock_st)

OnChange ==
    /\ pc = "restart"
    /\ IF MustRestart
       THEN pc' = "clear"
       ELSE pc' = "prev"
    /\ Changed2' = FALSE
    /\ UNCHANGED <<flags, Base_Is_Stable, Base_Changed, enables, line, prev_lock_st, back, cur,
                   net, rx, hist, RU_Init_Status>>

\* AutoConfig_Flag_Clear: first the steps, then the flags, then the status.
HandlerAtWork == rx # "idle"

ClearSteps ==
    /\ pc = "clear"
    /\ AutoConfig_Step' = "STEP04"
    /\ Ip_Assign_Step' = "READY"
    /\ Init_Noti_Step' = "READY"
    /\ torn' = HandlerAtWork
    /\ pc' = "clear2"
    /\ UNCHANGED <<Init_Status, RU_Id_Alloc, base, enables, line, prev_lock_st, back, cur,
                   net, rx, met, RU_Init_Status>>

ClearFlags ==
    /\ pc = "clear2"
    /\ Init_Status' = FALSE
    /\ RU_Id_Alloc' = FALSE
    /\ Reg_Ready_Flag' = FALSE
    /\ torn' = (torn \/ HandlerAtWork)
    /\ pc' = "clear3"
    /\ UNCHANGED <<AutoConfig_Step, Ip_Assign_Step, Init_Noti_Step, base, enables,
                   Is_CPRI_Lock, env, prev_lock_st, back, cur, net, rx, met, RU_Init_Status>>

\* Set___RU_Initial_Status(Init_St_System_Init)
StatusKept ==       \* mutation: the restart leaves the status
    /\ pc = "clear3"
    /\ torn' = (torn \/ HandlerAtWork)
    /\ pc' = back /\ back' = "prev"
    /\ UNCHANGED <<flags, base, enables, line, prev_lock_st, cur, net, rx, met,
                   RU_Init_Status>>
ClearStatus ==
    /\ pc = "clear3"
    /\ RU_Init_Status' = "System_Init"
    /\ torn' = (torn \/ HandlerAtWork)
    /\ pc' = back /\ back' = "prev"
    /\ UNCHANGED <<flags, base, enables, line, prev_lock_st, cur, net, rx, met>>

AutoConfig_Flag_Clear == ClearSteps \/ ClearFlags \/ ClearStatus

KeepLock ==
    /\ pc = "prev"
    /\ prev_lock_st' = Is_CPRI_Lock
    /\ pc' = "locked"
    /\ UNCHANGED <<flags, base, enables, line, back, cur, net, rx, hist, RU_Init_Status>>

\* AutoConfig_Proc: the switch reads the step, its case acts on what it read.
AutoConfig_Proc ==
    /\ pc = "locked"
    /\ IF Is_CPRI_Lock /\ Reg_Ready_Flag
       THEN /\ cur' = IF AutoConfig_Step = "STEP04" THEN Ip_Assign_Step ELSE Init_Noti_Step
            /\ pc' = "step"
       ELSE pc' = "pass" /\ UNCHANGED cur
    /\ UNCHANGED <<flags, base, enables, line, prev_lock_st, back, net, rx, hist, RU_Init_Status>>

\* The rest of the state in the cases below.
CaseFrame == UNCHANGED <<Base_Is_Stable, Changed2, enables, line, prev_lock_st, back, net,
                         rx, hist>>

\* The case ends: the pass is over and cur forgotten.
EndPass == pc' = "pass" /\ cur' = "READY"

Assigning == AutoConfig_Step = "STEP04"

\* IP_ASSIGN_READY; the address may turn out impossible to derive.
IpReady ==
    /\ pc = "step" /\ Assigning /\ cur = "READY"
    /\ IF Base_Is_Stable
       THEN Base_Changed' = FALSE /\ Ip_Assign_Step' \in {"READY", "START"}
       ELSE UNCHANGED <<Base_Changed, Ip_Assign_Step>>
    /\ EndPass /\ CaseFrame
    /\ UNCHANGED <<AutoConfig_Step, Init_Noti_Step, Init_Status, RU_Id_Alloc, RU_Init_Status>>

IpBaseChanged ==
    /\ pc = "step" /\ Assigning /\ cur = "START" /\ Base_Changed
    /\ Base_Changed' = FALSE
    /\ Ip_Assign_Step' = "READY"
    /\ EndPass /\ CaseFrame
    /\ UNCHANGED <<AutoConfig_Step, Init_Noti_Step, Init_Status, RU_Id_Alloc, RU_Init_Status>>

\* The START cases send their notification, whose acknowledgement is under way
\* from then on, ...
SendNoti ==
    /\ pc = "step" /\ cur = "START" /\ ~(Assigning /\ Base_Changed)
    /\ net' = net \cup {IF Assigning THEN "RUID_ACK" ELSE "INIT_ACK"}
    /\ pc' = "sent"
    /\ UNCHANGED <<flags, base, enables, line, prev_lock_st, back, cur, rx, hist, RU_Init_Status>>

\* ... then set the status, then the step.
SetStatus ==
    /\ pc = "sent"
    /\ RU_Init_Status' = IF Assigning THEN "RE_ID_Acqui" ELSE "Init_Notify"
    /\ pc' = "check"
    /\ UNCHANGED <<flags, base, enables, line, prev_lock_st, back, cur, net, rx, hist>>

\* A write to the step the switch is about.
SetStep(step) ==
    IF Assigning
    THEN Ip_Assign_Step' = step /\ UNCHANGED Init_Noti_Step
    ELSE Init_Noti_Step' = step /\ UNCHANGED Ip_Assign_Step

SetCheck ==
    /\ pc = "check"
    /\ SetStep("CHECK")
    /\ EndPass /\ CaseFrame
    /\ UNCHANGED <<AutoConfig_Step, Init_Status, RU_Id_Alloc, Base_Changed, RU_Init_Status>>

\* The CHECK cases: START again once 2 s have passed.
Expired ==
    /\ pc = "step" /\ cur = "CHECK"
    /\ SetStep("START")
    /\ EndPass /\ CaseFrame
    /\ UNCHANGED <<AutoConfig_Step, Init_Status, RU_Id_Alloc, Base_Changed, RU_Init_Status>>

\* Nothing to do: the 2 s have not passed, or the notification is over.
NoCase ==
    /\ pc = "step" /\ cur \in {"CHECK", "END"}
    /\ EndPass /\ CaseFrame
    /\ UNCHANGED <<flags, Base_Changed, RU_Init_Status>>

\* IP_ASSIGN_PROCESSING and INIT_NOTI_PROCESSING
Processing ==
    /\ pc = "step" /\ cur = "PROCESSING"
    /\ SetStep("FINISH")
    /\ EndPass /\ CaseFrame
    /\ UNCHANGED <<AutoConfig_Step, Init_Status, RU_Id_Alloc, Base_Changed, RU_Init_Status>>

IpFinish ==
    /\ pc = "step" /\ Assigning /\ cur = "FINISH"
    /\ AutoConfig_Step' = "STEP05"
    /\ EndPass /\ CaseFrame
    /\ UNCHANGED <<Ip_Assign_Step, Init_Noti_Step, Init_Status, RU_Id_Alloc, Base_Changed,
                   RU_Init_Status>>

NotiReady ==
    /\ pc = "step" /\ ~Assigning /\ cur = "READY"
    /\ Init_Noti_Step' = "START"
    /\ EndPass /\ CaseFrame
    /\ UNCHANGED <<AutoConfig_Step, Ip_Assign_Step, Init_Status, RU_Id_Alloc, Base_Changed,
                   RU_Init_Status>>

\* INIT_NOTI_FINISH tests the status, and may then raise it.
NotiFinish ==
    /\ pc = "step" /\ ~Assigning /\ cur = "FINISH"
    /\ Init_Noti_Step' = "END"
    /\ IF Below(RU_Init_Status, "CPRI_St_Req")
       THEN pc' = "cpri" /\ UNCHANGED cur
       ELSE EndPass
    /\ CaseFrame
    /\ UNCHANGED <<AutoConfig_Step, Ip_Assign_Step, Init_Status, RU_Id_Alloc, Base_Changed,
                   RU_Init_Status>>

RaiseToCpri ==
    /\ pc = "cpri"
    /\ RU_Init_Status' = "CPRI_St_Req"
    /\ EndPass /\ CaseFrame
    /\ UNCHANGED <<flags, Base_Changed>>

Ip_Assign_Process == IpReady \/ IpBaseChanged \/ IpFinish
Init_Noti_Process == NotiReady \/ NotiFinish \/ RaiseToCpri
Both_Process == SendNoti \/ SetStatus \/ SetCheck \/ Expired \/ NoCase \/ Processing

Auto_Config_Task ==
    \/ Proc___gREMS_Comm_Start \/ OnUnlock \/ OnChange \/ AutoConfig_Flag_Clear
    \/ KeepLock \/ AutoConfig_Proc \/ Ip_Assign_Process \/ Init_Noti_Process \/ Both_Process

-----------------------------------------------------------------------------
(* The receive thread: Proc_LSH_Node_Pkt and LSH_Data_Analysis             *)

\* Is message m acted upon?  The requests need Init_Status, an ID is taken
\* once, and INIT_NOTI_ACK only when the address has been assigned.
AcceptsLateAck(m) ==    \* mutation: an INIT_NOTI_ACK from before a restart too
    CASE m = "RUID_ACK" -> ~RU_Id_Alloc
      [] m = "INIT_ACK" -> TRUE
      [] m \in Requests -> Init_Status
AcceptsRequests(m) ==   \* mutation: requests before the INIT_NOTI_ACK too
    CASE m = "RUID_ACK" -> ~RU_Id_Alloc
      [] m = "INIT_ACK" -> Ip_Assign_Step = "FINISH" /\ AutoConfig_Step = "STEP05"
      [] m \in Requests -> TRUE
Accepts(m) ==
    CASE m = "RUID_ACK" -> ~RU_Id_Alloc
      [] m = "INIT_ACK" -> Ip_Assign_Step = "FINISH" /\ AutoConfig_Step = "STEP05"
      [] m \in Requests -> Init_Status

\* Recv_FX_RUID_ACQU_NOTI_ACK allocates the ID before LSH_Data_Analysis sets
\* the step.  The message may come again.
Receive(m) ==
    /\ rx = "idle"
    /\ \/ m \in net /\ net' \in {net, net \ {m}}
       \/ m \in Requests /\ UNCHANGED net
    /\ Is_CPRI_Lock /\ Accepts(m)
    /\ rx' = m
    /\ RU_Id_Alloc' = (RU_Id_Alloc \/ m = "RUID_ACK")
    /\ met' = met \cup ({m} \ {"DELAY_REQ"})
    /\ torn' = (torn \/ pc \in {"clear2", "clear3"})
    /\ UNCHANGED <<AutoConfig_Step, Ip_Assign_Step, Init_Noti_Step, Init_Status, base,
                   enables, line, task, RU_Init_Status>>

\* Lost in the network, or dismissed: unlocked, or not accepted.
Lose ==
    /\ rx = "idle"
    /\ \E m \in net : net' = net \ {m}
    /\ UNCHANGED <<flags, base, enables, line, task, rx, hist, RU_Init_Status>>

HandlerFrame == UNCHANGED <<AutoConfig_Step, RU_Id_Alloc, base, enables, line, task, net, hist>>

RuIdAck ==
    /\ rx = "RUID_ACK"
    /\ Ip_Assign_Step' = "PROCESSING"
    /\ rx' = "idle"
    /\ HandlerFrame /\ UNCHANGED <<Init_Noti_Step, Init_Status, RU_Init_Status>>

InitAck ==
    /\ rx = "INIT_ACK"
    /\ Init_Noti_Step' = "PROCESSING"
    /\ rx' = "acked"
    /\ HandlerFrame /\ UNCHANGED <<Ip_Assign_Step, Init_Status, RU_Init_Status>>

\* Recv_FX_INIT_NOTI_ACK
Recv_FX_INIT_NOTI_ACK ==
    /\ rx = "acked"
    /\ Init_Status' = TRUE
    /\ rx' = "idle"
    /\ HandlerFrame /\ UNCHANGED <<Ip_Assign_Step, Init_Noti_Step, RU_Init_Status>>

\* FX_CPRI_STS_REQ tests the status, and may then raise it.
CpriReq ==
    /\ rx = "CPRI_REQ"
    /\ rx' = IF Below(RU_Init_Status, "Dly_Set_Req") THEN "Dly_Set_Req" ELSE "idle"
    /\ HandlerFrame /\ UNCHANGED <<Ip_Assign_Step, Init_Noti_Step, Init_Status, RU_Init_Status>>

\* FX_DELAY_SET_REQ: refused before Dly_Set_Req or for its values; otherwise
\* Set___RU_Initial_Status(Init_St___Completed) tests the status.
DelayReq ==
    /\ rx = "DELAY_REQ"
    /\ rx' \in {"idle"} \cup (IF Below(RU_Init_Status, "Dly_Set_Req") THEN {} ELSE {"delayed"})
    /\ HandlerFrame /\ UNCHANGED <<Ip_Assign_Step, Init_Noti_Step, Init_Status, RU_Init_Status>>

DelaySet ==
    /\ rx = "delayed"
    /\ rx' = IF RU_Init_Status = "Dly_Set_Req" THEN "Completed" ELSE "idle"
    /\ HandlerFrame /\ UNCHANGED <<Ip_Assign_Step, Init_Noti_Step, Init_Status, RU_Init_Status>>

\* The write both end with.
RaiseStatus ==
    /\ rx \in {"Dly_Set_Req", "Completed"}
    /\ RU_Init_Status' = rx
    /\ rx' = "idle"
    /\ HandlerFrame /\ UNCHANGED <<Ip_Assign_Step, Init_Noti_Step, Init_Status>>

Handle == \/ RuIdAck \/ InitAck \/ Recv_FX_INIT_NOTI_ACK
          \/ CpriReq \/ DelayReq \/ DelaySet \/ RaiseStatus

-----------------------------------------------------------------------------
(* The rest of the system, and the LS                                      *)

\* The CPRI lock as the FPGA thread reports it.
Lock ==
    /\ ~Is_CPRI_Lock
    /\ Is_CPRI_Lock' = TRUE
    /\ UNCHANGED <<flags, base, enables, Reg_Ready_Flag, env, task, net, rx, hist, RU_Init_Status>>

Unlock ==
    /\ Is_CPRI_Lock /\ env < MaxEnv
    /\ env' = env + 1
    /\ Is_CPRI_Lock' = FALSE
    /\ Reg_Ready_Flag' = FALSE
    /\ UNCHANGED <<flags, base, enables, task, net, rx, hist, RU_Init_Status>>

\* Chk___Base_IP_Mac: the address read is valid for the tenth time ...
RegReady ==
    /\ Is_CPRI_Lock /\ ~Reg_Ready_Flag
    /\ Reg_Ready_Flag' = TRUE
    /\ UNCHANGED <<flags, base, enables, Is_CPRI_Lock, env, task, net, rx, hist, RU_Init_Status>>

\* ... and the same for the tenth time,
BaseStable ==
    /\ Is_CPRI_Lock /\ ~Base_Is_Stable
    /\ Base_Is_Stable' = TRUE
    /\ UNCHANGED <<flags, Base_Changed, Changed2, enables, line, task, net, rx, hist, RU_Init_Status>>

\* perhaps different from the one before; or another number changed.
BaseChange ==
    /\ Is_CPRI_Lock /\ env < MaxEnv
    /\ env' = env + 1
    /\ Changed2' = TRUE
    /\ \/ Base_Is_Stable' = TRUE /\ Base_Changed' = TRUE
       \/ UNCHANGED <<Base_Is_Stable, Base_Changed>>
    /\ UNCHANGED <<flags, enables, Is_CPRI_Lock, Reg_Ready_Flag, task, net, rx, hist, RU_Init_Status>>

-----------------------------------------------------------------------------
Init ==
    /\ AutoConfig_Step = "STEP04" /\ Ip_Assign_Step = "READY" /\ Init_Noti_Step = "READY"
    /\ Init_Status = FALSE /\ RU_Id_Alloc = FALSE
    /\ Base_Is_Stable = FALSE /\ Base_Changed = FALSE /\ Changed2 = FALSE
    /\ RU_Init_Status = "System_Init"
    /\ gREMS_Noti_Ready = FALSE /\ AMP_Ctrl_Allowed = FALSE
    /\ Is_CPRI_Lock \in BOOLEAN /\ Reg_Ready_Flag = FALSE
    /\ prev_lock_st = FALSE /\ pc = "pass" /\ back = "prev" /\ cur = "READY"
    /\ rx = "idle" /\ met = {} /\ torn = FALSE
    /\ net = {} /\ env = 0

Next ==
    \/ Auto_Config_Task
    \/ Handle
    \/ \E m \in Msgs : Receive(m)
    \/ Lose
    \/ Lock \/ Unlock \/ RegReady \/ BaseStable \/ BaseChange

\* What the timers, the LS and the network owe to a unit whose line is up.
Working == Is_CPRI_Lock /\ Reg_Ready_Flag
Step == IF Assigning THEN Ip_Assign_Step ELSE Init_Noti_Step

\* No step waits for ever: 2 s pass, and a stable base address gives an address.
TimersExpire ==
    /\ []<>~(Working /\ Step = "CHECK")
    /\ []<>~(Working /\ Base_Is_Stable /\ Assigning /\ Step = "READY")

\* A notification sent again and again is answered.  The task sleeps 500 ms between two
\* passes: an INIT_NOTI is answered while it does, too, and not only in the instants in
\* which the task writes over what the handler has set.
Asleep == pc = "pass"
Answered ==
    /\ []<><<SendNoti /\ Assigning /\ Accepts("RUID_ACK")>>_vars =>
           []<><<Receive("RUID_ACK")>>_vars
    /\ []<><<SendNoti /\ Accepts("INIT_ACK")>>_vars => []<><<InitAck /\ Asleep>>_vars

\* The LS keeps asking a unit that answers, and its delay is valid at last.
Asking == Is_CPRI_Lock /\ Init_Status
Requested ==
    /\ []<>(~Asking \/ rx = "CPRI_REQ")
    /\ []<>(~Asking \/ Below(RU_Init_Status, "Dly_Set_Req") \/ rx = "delayed")

\* Both threads run for ever, and an address that stays readable is found valid and stable.
Fairness ==
    /\ WF_vars(Auto_Config_Task) /\ WF_vars(Handle)
    /\ WF_vars(RegReady) /\ WF_vars(BaseStable)
    /\ TimersExpire /\ Answered /\ Requested

Spec == Init /\ [][Next]_vars /\ Fairness

-----------------------------------------------------------------------------
\* The state stays in its types; the steps of the two ladders in particular.
TypeOK ==
    /\ AutoConfig_Step \in {"STEP04", "STEP05"}
    /\ Ip_Assign_Step \in IpSteps /\ Init_Noti_Step \in NotiSteps
    /\ Init_Status \in BOOLEAN /\ RU_Id_Alloc \in BOOLEAN
    /\ Base_Is_Stable \in BOOLEAN /\ Base_Changed \in BOOLEAN /\ Changed2 \in BOOLEAN
    /\ gREMS_Noti_Ready \in BOOLEAN /\ AMP_Ctrl_Allowed \in BOOLEAN
    /\ Is_CPRI_Lock \in BOOLEAN
    /\ Reg_Ready_Flag \in BOOLEAN /\ prev_lock_st \in BOOLEAN
    /\ torn \in BOOLEAN
    /\ RU_Init_Status \in Statuses
    /\ pc \in {"pass", "unlock", "restart", "clear", "clear2", "clear3", "prev", "locked",
               "step", "sent", "check", "cpri"}
    /\ back \in {"restart", "prev"} /\ cur \in NotiSteps
    /\ rx \in Msgs \cup {"idle", "acked", "delayed", "Dly_Set_Req", "Completed"}
    /\ met \subseteq Msgs /\ net \subseteq Msgs \ Requests
    /\ env \in Nat

\* However the threads interleave, nothing is radiated or reported to gREMS before the
\* unit has, since boot, been given an ID, been acknowledged and been asked for its
\* CPRI status.
BootOrder ==
    AMP_Ctrl_Allowed \/ gREMS_Noti_Ready =>
        {"RUID_ACK", "INIT_ACK", "CPRI_REQ"} \subseteq met

\* Unless a handler was at work while the flags were last cleared, a unit that answers
\* the LS has been registered since that restart: it holds an ID and its address is
\* assigned.  (Between the first two writes of the clearing the flags are out of step.)
InitStatusFresh ==
    Init_Status /\ ~torn /\ pc # "clear2" =>
        RU_Id_Alloc /\ AutoConfig_Step = "STEP05" /\ Ip_Assign_Step = "FINISH"

\* With the same exception, when a pass has judged the status, the amplifiers are allowed
\* only for a unit registered since the last restart.
RadiationRegistered ==
    pc = "unlock" /\ AMP_Ctrl_Allowed /\ ~torn => Init_Status

\* The acknowledgement of the ID has been taken, so that no other will be, and the step
\* that is to follow it was written over: by the task, which was between its read of the
\* step and its own write, or by a handler at work since before the flags were cleared.
Overwritten == RU_Id_Alloc /\ Ip_Assign_Step # "FINISH"

\* The step an INIT_NOTI_ACK set has outlived the clearing of the flags, or the clearing has
\* taken the rest of what it set: the notification is over and not acknowledged.
Skipped == torn /\ ~Init_Status /\ Init_Noti_Step = "END"

\* With the lock there for good, the unit completes its initialisation and its
\* amplifiers are allowed, whatever is lost on the way, unless one of these two races
\* stops it.
Registers ==
    <>[]Is_CPRI_Lock =>
        <>[](\/ RU_Init_Status = "Completed" /\ AMP_Ctrl_Allowed
            \/ Overwritten \/ Skipped)

-----------------------------------------------------------------------------
(* What the comments of the code say.                                      *)

\* "Flag set : Auto_Config_Task -> AutoConfig_Proc -> Ip_Assign_Process": an ID that was
\* taken is followed by the task, unless the lock is lost or the unit starts over.
IdFollowed ==
    RU_Id_Alloc ~> (Ip_Assign_Step = "FINISH" \/ ~RU_Id_Alloc \/ ~Is_CPRI_Lock)

\* "AutoConfig-Restart when CPRI unlock -> CPRI Lock": the pass that finds the lock regained
\* after a loss has made the unit register again (unless a handler was at work meanwhile).
RelockRestarts ==
    [][KeepLock /\ Is_CPRI_Lock /\ ~prev_lock_st /\ ~torn => ~Init_Status]_vars
=============================================================================
