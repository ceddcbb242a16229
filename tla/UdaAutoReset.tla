---------------------------- MODULE UdaAutoReset ----------------------------
(***************************************************************************)
(* The automatic reset of the radio unit on a persisting UDA alarm, and    *)
(* its suppression: uda_proc.c, the boot path of main.c that restores it,  *)
(* and the reset-info record of alarm.c / eep_emul.c that carries it over  *)
(* the reset.                                                              *)
(*                                                                         *)
(* The main thread (Alarm_Process) calls Proc___Reset_By_UDA and then      *)
(* Proc___Auto_Rst_UDA about once a second: one pass.  pc cuts a pass at   *)
(* the places where a higher-priority thread (the operator's command, the  *)
(* watchdog task's reboot, another reset request) may run.  A pass lasts   *)
(* more than 1000 ms (100 sleeps of 10 ms and the body), so the one-second *)
(* guard of Proc___Auto_Rst_UDA is always met and the delays of            *)
(* Proc___Reset_By_UDA, 1 s and 2 s, are one and two passes.  The long     *)
(* timers are counted in a coarser unit, advanced by Tick between passes.  *)
(* A timer saturates at the only value it is compared with.                *)
(*                                                                         *)
(* The two alarm codes of UDA_STR say no more than "the flag set is not    *)
(* empty" and are not modelled; nor are alarms forced by a test command    *)
(* (AlmFlag/AlmCtrl), JIG mode, and the reports to gREMS.                  *)
(***************************************************************************)
EXTENDS Integers

CONSTANTS
    Sources,        \* the UDA sources whose alarm may come up
    CNT_Ref,        \* CNT_Ref_ms: the window alarms are counted in
    DIG_KEEP_Ref,   \* DIG_KEEP_Ref_ms: an alarm kept that long asks for a reset
    Normal_Keep,    \* Normal__Keep_ms: a UDA alarm clears after that long
    Suppress_Off,   \* Suppress_Off_ms: suppression ends after that long
    SUPPRESS_ON,    \* SUPPRESS_ON__ms: resets are counted in that window
    Alm_Cnt_Max,    \* alarms in CNT_Ref that ask for a reset
    SUPPRESS_MAX,   \* automatic resets before suppression
    MaxEnv          \* bound on operator commands, foreign resets and crashes

UDA == {"Clock", "PD_CP"}               \* UDA_Link is skipped by every loop

ASSUME ConstAssumption ==
    /\ Sources \subseteq UDA
    /\ {CNT_Ref, DIG_KEEP_Ref, Normal_Keep, Suppress_Off, SUPPRESS_ON,
        Alm_Cnt_Max, SUPPRESS_MAX} \subseteq Nat \ {0}
    /\ MaxEnv \in Nat

\* An alarm that lasts asks for a reset every 30 minutes, a suppression ends after 35.
ASSUME TimesAssumption == DIG_KEEP_Ref <= Suppress_Off

AR_Mode == {"AR_Reset", "AR_No_Action", "AR_Alm_Only"}

Rst_By_Uda(u) == IF u = "PD_CP" THEN "Rst_By_Uda_Pd_CPRI" ELSE "Rst_By_Uda_Clock"
UdaReason == {Rst_By_Uda(u) : u \in UDA}
ResetInfo == {"Rst_None", "Rst_By_User", "Rst_By_PwrCtrl"} \cup UdaReason

VARIABLES
    mode,       \* m_Eep.UDA_Oper_Mode
    modePrev,   \* UDA_Oper_Mode_Prev
    uda,        \* m_Uda
    m_rst_info, \* the reset-info record in RAM
    flash,      \* the record as ResetInfo_Write last stored it
    req,        \* {u : auto_rst_req[u] = 1}
    Reset_En,   \* m_Env.UDA_Reset_En
    rstDly,     \* passes since UDA_Rst_Dly_Timer was reset
    tm,         \* the five timers of each source
    Alm_Cnt,
    almPrev,    \* UDA_Alm_Prev
    alm,        \* Curr_Alm: the alarms the last pass read
    AlmSt,      \* {u : m_St.AlmSt.UDA.u = 1}, the UDA alarm reported
    SupprAlm,   \* {u : the reset-suppression alarm of u is reported}
    supprPrev,  \* UDA_RST_Suppr_f_Prev
    rst_f,      \* rst_f[] of the pass under way
    ResetReason,\* m_St.ResetReason
    is_reboot,  \* m_Env.is_reboot
    pc,         \* where the main thread is; between a reset and the boot "off",
                \* or "wdt" when the CPU watchdog was the cause
    ticked,     \* the timers advanced since the last pass
    env         \* operator commands, foreign resets and crashes so far

vars == <<mode, modePrev, uda, m_rst_info, flash, req, Reset_En, rstDly, tm,
          Alm_Cnt, almPrev, alm, AlmSt, SupprAlm, supprPrev, rst_f,
          ResetReason, is_reboot, pc, ticked, env>>

-----------------------------------------------------------------------------
ZeroOf(S) == [u \in S |-> 0]

\* m_Uda all zero, as memset and the "All Init" branch leave it.
UDA_Zero == [Reset_Code |-> FALSE, UDA_Alarm_f |-> {}, RST_Suppr_f |-> {},
             Rst_Suppress |-> {}, UDA_Rst_Cnt |-> ZeroOf(UDA),
             time_backup |-> ZeroOf(UDA)]

Timers == {"Alm_Cnt", "Alm_Keep", "Alm_Clr", "Suppress_ON", "Suppress_OFF"}

\* The value a timer saturates at.
Limit(t) == CASE t = "Alm_Cnt"      -> CNT_Ref
              [] t = "Alm_Keep"     -> DIG_KEEP_Ref
              [] t = "Alm_Clr"      -> Normal_Keep
              [] t = "Suppress_ON"  -> SUPPRESS_ON
              [] t = "Suppress_OFF" -> Suppress_Off

Least(a, b) == IF a <= b THEN a ELSE b

\* f with value v for the members of S.
Set(f, S, v) == [u \in UDA |-> IF u \in S THEN v ELSE f[u]]

InReset == {u \in UDA : mode[u] = "AR_Reset"}
NoAction == {u \in UDA : mode[u] = "AR_No_Action"}

\* SetResetInfo: the reason goes into the RAM record, the record to flash.
SetResetInfo(ram, reason) ==
    /\ m_rst_info' = [ram EXCEPT !.reset_info = reason]
    /\ flash' = m_rst_info'

-----------------------------------------------------------------------------
(* Boot: Chk_ResetReason, Chk_Auto_Reset_By_UDA_Suppress, Init_UDA_Proc.   *)

\* The reason the boot reports, from the hardware's cause and the record.
BootReason ==
    CASE pc = "wdt" -> "Rst_By_Etc"
      [] pc = "off" /\ flash.reset_info # "Rst_None" -> flash.reset_info
      [] OTHER -> "Rst_By_PwrFail"

\* Chk_Auto_Reset_By_UDA_Suppress: what is taken back from the record, and the
\* suppression alarms reported for it.
RestoredUdaNoCount(saved) ==    \* mutation: the resets are counted afresh
    IF saved.Reset_Code
    THEN [saved EXCEPT !.Reset_Code = FALSE, !.UDA_Rst_Cnt = ZeroOf(UDA)]
    ELSE UDA_Zero
RestoredUda(saved) ==
    IF saved.Reset_Code THEN [saved EXCEPT !.Reset_Code = FALSE] ELSE UDA_Zero

RestoredSupprHidden(saved) == {}    \* mutation: the alarms are not reported again
RestoredSuppr(saved) == saved.RST_Suppr_f

\* The power-on values of everything in RAM but m_Uda.
InitRam(restored) ==
    /\ modePrev' = mode
    /\ req' = {}
    /\ Reset_En' = 0
    /\ rstDly' = 0
    /\ tm' = [t \in Timers |-> ZeroOf(UDA)]
    /\ Alm_Cnt' = ZeroOf(UDA)
    /\ almPrev' = {}
    /\ AlmSt' = restored.UDA_Alarm_f
    /\ SupprAlm' = RestoredSuppr(restored)
    /\ supprPrev' = restored.RST_Suppr_f
    /\ rst_f' = {}
    /\ is_reboot' = FALSE
    /\ pc' = "rst"
    /\ ticked' = TRUE       \* no unit of time passes before the first pass

Down == pc \in {"off", "wdt"}

Boot ==
    /\ Down
    /\ ResetReason' = BootReason
    /\ SetResetInfo([m_rst_info EXCEPT !.UDA = UDA_Zero], "Rst_None")
    /\ uda' = RestoredUda(flash.UDA)
    /\ InitRam(flash.UDA)
    /\ UNCHANGED <<mode, alm, env>>

-----------------------------------------------------------------------------
(* Proc___Reset_By_UDA                                                     *)

\* UDA_Auto_Reset_EEP_Save: m_Uda goes into the RAM record; the record is
\* written with the reason of the first UDA alarm flag set, PD_CPRI first,
\* and is not written at all when no flag is set.
UDA_Auto_Reset_EEP_Save ==
    LET saved == [uda EXCEPT !.Reset_Code = TRUE]
        ram == [m_rst_info EXCEPT !.UDA = saved]
        flags == uda.UDA_Alarm_f
    IN  IF flags = {}
        THEN m_rst_info' = ram /\ UNCHANGED flash
        ELSE SetResetInfo(ram, Rst_By_Uda(IF "PD_CP" \in flags THEN "PD_CP" ELSE "Clock"))

\* A request opens the reset; a pass later the record is saved.
ResetRequested ==
    /\ Reset_En = 0
    /\ Reset_En' = IF req # {} THEN 1 ELSE 0
    /\ rstDly' = 0
    /\ UNCHANGED <<m_rst_info, flash, is_reboot>>

ResetSave ==
    /\ Reset_En = 1
    /\ UDA_Auto_Reset_EEP_Save
    /\ Reset_En' = 2
    /\ rstDly' = 0
    /\ UNCHANGED is_reboot

ResetDelay ==
    /\ Reset_En = 2 /\ rstDly < 1
    /\ rstDly' = rstDly + 1
    /\ UNCHANGED <<Reset_En, m_rst_info, flash, is_reboot>>

\* The power supply did not take the unit down: reboot by the watchdog task.
ResetByPsuFailed ==
    /\ Reset_En = 2 /\ rstDly = 1
    /\ Reset_En' = 3
    /\ is_reboot' = TRUE
    /\ UNCHANGED <<rstDly, m_rst_info, flash>>

\* Nothing is left to do but wait for the reboot.
ResetFailed ==
    /\ Reset_En = 3
    /\ UNCHANGED <<Reset_En, rstDly, m_rst_info, flash, is_reboot>>

Proc___Reset_By_UDA ==
    /\ pc = "rst"
    /\ ResetRequested \/ ResetSave \/ ResetDelay \/ ResetByPsuFailed \/ ResetFailed
    /\ AlmSt' = AlmSt \cup req
    /\ uda' = [uda EXCEPT !.UDA_Alarm_f = @ \cup (req \cap InReset),
                          !.Reset_Code = @ \/ Reset_En = 1]
    /\ SupprAlm' = (SupprAlm \ (supprPrev \ uda.RST_Suppr_f))
                     \cup (uda.RST_Suppr_f \ supprPrev)
    /\ supprPrev' = uda.RST_Suppr_f
    /\ pc' = "auto"
    /\ UNCHANGED <<mode, modePrev, req, tm, Alm_Cnt, almPrev, alm, rst_f,
                   ResetReason, ticked, env>>

\* The halt inside Proc___Reset_By_UDA: the power supply cuts the unit off and
\* the call does not return.
Halt ==
    /\ pc = "rst" /\ Reset_En = 2 /\ rstDly = 1
    /\ pc' = "off"
    /\ UNCHANGED <<mode, modePrev, uda, m_rst_info, flash, req, Reset_En, rstDly,
                   tm, Alm_Cnt, almPrev, alm, AlmSt, SupprAlm, supprPrev, rst_f,
                   ResetReason, is_reboot, ticked, env>>

\* Proc_PSU_Reset, called later in the main loop, finds the request the failed
\* reset left and records a reason only if there is none.
Proc_PSU_Reset ==
    /\ pc = "rst" /\ Reset_En = 3
    /\ m_rst_info.reset_info = "Rst_None"
    /\ SetResetInfo(m_rst_info, "Rst_By_PwrCtrl")
    /\ UNCHANGED <<mode, modePrev, uda, req, Reset_En, rstDly, tm, Alm_Cnt,
                   almPrev, alm, AlmSt, SupprAlm, supprPrev, rst_f, ResetReason,
                   is_reboot, pc, ticked, env>>

-----------------------------------------------------------------------------
(* Proc___Auto_Rst_UDA, up to the reset decision: the reset flags of this  *)
(* pass.  The operators below give one source's values after each part.    *)

\* A mode that changed since the last pass, or AR_No_Action, starts afresh.
InitReq == NoAction \cup {u \in UDA : modePrev[u] # mode[u]}

ReqKept == req \ InitReq
CntAfterInit(u) == IF u \in InitReq THEN 0 ELSE Alm_Cnt[u]
TmAfterInit(t, u) == IF u \in InitReq THEN 0 ELSE tm[t][u]

\* Alarms raised since the last pass; a source whose reset is requested has no
\* previous alarm.
Raised(a) == a \ (almPrev \ (InitReq \cup ReqKept))

\* The sources whose alarms are judged: no reset requested, and in use.
Watched == UDA \ (ReqKept \cup NoAction)

\* 1. Alarms counted in a window that starts with the first of them.
CntNow(a, u) == Least(CntAfterInit(u) + (IF u \in Raised(a) THEN 1 ELSE 0), Alm_Cnt_Max)
WindowNow(u) == IF CntAfterInit(u) = 0 THEN 0 ELSE tm["Alm_Cnt"][u]
WindowEnd == {u \in Watched : WindowNow(u) >= CNT_Ref}
TooMany(a) == {u \in WindowEnd : CntNow(a, u) >= Alm_Cnt_Max}

\* 2. Alarms kept, and the UDA alarm cleared after a normal time.
Kept(a) == {u \in Watched \cap a : TmAfterInit("Alm_Keep", u) >= DIG_KEEP_Ref}
SetNow(a) == Kept(a) \cup {u \in TooMany(a) : mode[u] = "AR_Alm_Only"}
AlarmOn(a) == (AlmSt \ InitReq) \cup SetNow(a)
Normal(a) == {u \in (Watched \ a) \cap AlarmOn(a) : TmAfterInit("Alm_Clr", u) >= Normal_Keep}

\* The timers the judgement leaves running.
KeepRuns(a) == (Watched \cap a) \ Kept(a)
ClrRuns(a) == ((Watched \ a) \cap AlarmOn(a)) \ Normal(a)

TimersJudged(a) ==
    [tm EXCEPT
       !["Alm_Cnt"] = [u \in UDA |->
            CASE u \in WindowEnd \cup Kept(a) -> 0
              [] u \in Watched \ (WindowEnd \cup Kept(a)) -> WindowNow(u)
              [] OTHER -> TmAfterInit("Alm_Cnt", u)],
       !["Alm_Keep"] = [u \in UDA |->
            IF u \in Watched \ KeepRuns(a) THEN 0 ELSE TmAfterInit("Alm_Keep", u)],
       !["Alm_Clr"] = [u \in UDA |->
            IF u \in Watched \ ClrRuns(a) THEN 0 ELSE TmAfterInit("Alm_Clr", u)]]

Judge(a) ==
    /\ pc = "auto"
    /\ modePrev' = mode
    /\ req' = ReqKept
    /\ tm' = TimersJudged(a)
    /\ Alm_Cnt' = [u \in UDA |->
           CASE u \in WindowEnd \cup Kept(a) -> 0
             [] u \in Watched \ (WindowEnd \cup Kept(a)) -> CntNow(a, u)
             [] OTHER -> CntAfterInit(u)]
    /\ AlmSt' = AlarmOn(a) \ Normal(a)
    /\ uda' = [uda EXCEPT
           !.UDA_Alarm_f = ((@ \ (AlmSt \cap InitReq)) \cup (SetNow(a) \cap InReset)) \ Normal(a),
           !.Rst_Suppress = @ \ InitReq,
           !.UDA_Rst_Cnt = Set(@, InitReq, 0),
           !.time_backup = Set(@, InitReq, 0)]
    /\ SupprAlm' = SupprAlm \ NoAction
    /\ almPrev' = a
    /\ alm' = a
    /\ rst_f' = (TooMany(a) \cup Kept(a)) \cap InReset
    /\ pc' = "decide"
    /\ UNCHANGED <<mode, m_rst_info, flash, Reset_En, rstDly, supprPrev,
                   ResetReason, is_reboot, ticked, env>>

-----------------------------------------------------------------------------
(* Proc___Auto_Rst_UDA, the decision: one source at most is reset, Clock   *)
(* before PD_CP, unless the one chosen is suppressed.                      *)

Chosen == IF "Clock" \in rst_f THEN {"Clock"} ELSE rst_f
Accepted == Chosen \ uda.Rst_Suppress
NeverRejected == {}     \* mutation: a rejected request leaves the timer running
Rejected == Chosen \cap uda.Rst_Suppress

\* Values after the decision and before the suppression check.
RstCntNow(u) == uda.UDA_Rst_Cnt[u] + (IF u \in Accepted THEN 1 ELSE 0)
BackupNow(u) ==
    IF u \in Accepted
    THEN Least(uda.time_backup[u] + tm["Suppress_ON"][u], SUPPRESS_ON)
    ELSE uda.time_backup[u]
OffNow(u) == IF u \in Rejected THEN 0 ELSE tm["Suppress_OFF"][u]

\* The four outcomes of the suppression check.
Idle == {u \in UDA : u \notin InReset \/ RstCntNow(u) = 0}
NotSuppressed == UDA \ (Idle \cup uda.Rst_Suppress)
SuppressedLate == {u \in NotSuppressed : RstCntNow(u) > SUPPRESS_MAX}  \* mutation
Suppressed == {u \in NotSuppressed : RstCntNow(u) >= SUPPRESS_MAX}
Restarted == {u \in NotSuppressed \ Suppressed :
                tm["Suppress_ON"][u] + BackupNow(u) >= SUPPRESS_ON}
NeverReleased == {}     \* mutation: suppression has no end
Released == {u \in uda.Rst_Suppress \ Idle : OffNow(u) >= Suppress_Off}

Decide ==
    /\ pc = "decide"
    /\ req' = req \cup Accepted
    /\ Alm_Cnt' = Set(Alm_Cnt, rst_f, 0)
    /\ tm' = [tm EXCEPT
           !["Alm_Cnt"] = Set(@, rst_f, 0),
           !["Alm_Keep"] = Set(@, rst_f, 0),
           !["Suppress_ON"] = Set(@, Idle \cup Suppressed \cup Restarted, 0),
           !["Suppress_OFF"] = Set(@, Idle \cup Suppressed \cup Rejected, 0)]
    /\ uda' = [uda EXCEPT
           !.UDA_Alarm_f = @ \ (Idle \cup Suppressed \cup Restarted \cup (Released \cap AlmSt)),
           !.RST_Suppr_f = (@ \ (Idle \cup Restarted \cup Released)) \cup Suppressed,
           !.Rst_Suppress = (@ \ (Idle \cup Released)) \cup Suppressed,
           !.UDA_Rst_Cnt = [u \in UDA |->
                IF u \in Restarted \cup Released THEN 0 ELSE RstCntNow(u)],
           !.time_backup = [u \in UDA |->
                IF u \in Idle \cup Suppressed \cup Restarted THEN 0 ELSE BackupNow(u)]]
    /\ SupprAlm' = SupprAlm \ Released
    /\ AlmSt' = AlmSt \ Released
    /\ rst_f' = {}
    /\ ticked' = FALSE
    /\ pc' = "rst"
    /\ UNCHANGED <<mode, modePrev, m_rst_info, flash, Reset_En, rstDly, almPrev,
                   alm, supprPrev, ResetReason, is_reboot, env>>

-----------------------------------------------------------------------------
(* The passing of time, and the rest of the system.                        *)

\* Between two passes every timer may pass one unit.  A reset under way takes
\* seconds and no timer it leaves behind outlives it.
Tick ==
    /\ pc = "rst" /\ ~ticked
    /\ Reset_En = 0 /\ req = {} /\ ~is_reboot
    /\ ticked' = TRUE
    /\ tm' = [t \in Timers |-> [u \in UDA |-> Least(tm[t][u] + 1, Limit(t))]]
    /\ UNCHANGED <<mode, modePrev, uda, m_rst_info, flash, req, Reset_En, rstDly,
                   Alm_Cnt, almPrev, alm, AlmSt, SupprAlm, supprPrev, rst_f,
                   ResetReason, is_reboot, pc, env>>

\* Use_UDA_Oper_Mode_Ctrl, from the thread that serves the operator.
Use_UDA_Oper_Mode_Ctrl(u, m) ==
    /\ ~Down /\ env < MaxEnv
    /\ env' = env + 1
    /\ mode' = [mode EXCEPT ![u] = m]
    /\ uda' = [uda EXCEPT !.UDA_Rst_Cnt[u] = 0, !.time_backup[u] = 0,
                          !.Rst_Suppress = @ \ {u}, !.UDA_Alarm_f = @ \ {u}]
    /\ tm' = [tm EXCEPT !["Alm_Cnt"][u] = 0, !["Alm_Keep"][u] = 0]
    /\ Alm_Cnt' = [Alm_Cnt EXCEPT ![u] = 0]
    /\ req' = req \ {u}
    /\ UNCHANGED <<modePrev, m_rst_info, flash, Reset_En, rstDly, almPrev, alm,
                   AlmSt, SupprAlm, supprPrev, rst_f, ResetReason, is_reboot, pc,
                   ticked>>

\* A reset asked for by someone else: the operator, a download, another alarm.
ForeignReset ==
    /\ ~Down /\ env < MaxEnv
    /\ env' = env + 1
    /\ SetResetInfo(m_rst_info, "Rst_By_User")
    /\ is_reboot' = TRUE
    /\ UNCHANGED <<mode, modePrev, uda, req, Reset_En, rstDly, tm, Alm_Cnt, almPrev,
                   alm, AlmSt, SupprAlm, supprPrev, rst_f, ResetReason, pc, ticked>>

\* WDT_Task carries out a reboot request, whatever the main thread is doing.
Reboot ==
    /\ ~Down /\ is_reboot
    /\ pc' = "off"
    /\ UNCHANGED <<mode, modePrev, uda, m_rst_info, flash, req, Reset_En, rstDly,
                   tm, Alm_Cnt, almPrev, alm, AlmSt, SupprAlm, supprPrev, rst_f,
                   ResetReason, is_reboot, ticked, env>>

\* Power failure or watchdog expiry.
Crash ==
    /\ ~Down /\ env < MaxEnv
    /\ env' = env + 1
    /\ pc' \in {"off", "wdt"}
    /\ UNCHANGED <<mode, modePrev, uda, m_rst_info, flash, req, Reset_En, rstDly,
                   tm, Alm_Cnt, almPrev, alm, AlmSt, SupprAlm, supprPrev, rst_f,
                   ResetReason, is_reboot, ticked>>

-----------------------------------------------------------------------------
Init ==
    /\ mode \in [UDA -> AR_Mode]
    /\ modePrev = mode
    /\ uda = UDA_Zero
    /\ m_rst_info = [reset_info |-> "Rst_None", UDA |-> UDA_Zero]
    /\ flash = m_rst_info
    /\ req = {} /\ Reset_En = 0 /\ rstDly = 0
    /\ tm = [t \in Timers |-> ZeroOf(UDA)]
    /\ Alm_Cnt = ZeroOf(UDA)
    /\ almPrev = {} /\ alm = {} /\ AlmSt = {} /\ SupprAlm = {} /\ supprPrev = {}
    /\ rst_f = {}
    /\ ResetReason = "Rst_By_PwrFail"
    /\ is_reboot = FALSE
    /\ pc = "rst" /\ ticked = FALSE /\ env = 0

\* One step of the main thread.
Pass == Proc___Reset_By_UDA \/ (\E a \in SUBSET Sources : Judge(a)) \/ Decide

Next ==
    \/ Pass
    \/ Halt
    \/ Proc_PSU_Reset
    \/ Tick
    \/ Boot
    \/ \E u \in UDA, m \in AR_Mode : Use_UDA_Oper_Mode_Ctrl(u, m)
    \/ ForeignReset
    \/ Reboot
    \/ Crash

\* The main thread and the watchdog task run for ever, time passes and the unit
\* boots; nothing is assumed of the alarms, the operator or crashes.
Fairness ==
    /\ WF_vars(Pass) /\ SF_vars(Tick) /\ WF_vars(Reboot)
    /\ WF_vars(Boot)

Spec == Init /\ [][Next]_vars /\ Fairness

-----------------------------------------------------------------------------
UDA_STR == [Reset_Code : BOOLEAN, UDA_Alarm_f : SUBSET UDA, RST_Suppr_f : SUBSET UDA,
            Rst_Suppress : SUBSET UDA, UDA_Rst_Cnt : [UDA -> 0..SUPPRESS_MAX],
            time_backup : [UDA -> 0..SUPPRESS_ON]]
DownInfoSTR == [reset_info : ResetInfo, UDA : UDA_STR]

\* The state stays in its types; in particular the INT8U reset counter never
\* passes SUPPRESS_MAX, restored from flash or not.
TypeOK ==
    /\ mode \in [UDA -> AR_Mode] /\ modePrev \in [UDA -> AR_Mode]
    /\ uda \in UDA_STR /\ m_rst_info \in DownInfoSTR /\ flash \in DownInfoSTR
    /\ req \subseteq UDA /\ Reset_En \in 0..3 /\ rstDly \in 0..1
    /\ tm \in [Timers -> [UDA -> Nat]]
    /\ Alm_Cnt \in [UDA -> 0..Alm_Cnt_Max]
    /\ almPrev \subseteq UDA /\ alm \subseteq UDA /\ AlmSt \subseteq UDA
    /\ SupprAlm \subseteq UDA /\ supprPrev \subseteq UDA /\ rst_f \subseteq UDA
    /\ ResetReason \in ResetInfo \cup {"Rst_By_Etc", "Rst_By_PwrFail"}
    /\ is_reboot \in BOOLEAN /\ ticked \in BOOLEAN /\ env \in Nat
    /\ pc \in {"rst", "auto", "decide", "off", "wdt"}

\* A reset is never granted to a source that used up its automatic resets: when a pass
\* decides, such a source is suppressed, whatever resets, restored records and mode
\* changes came before.
SpentIsSuppressed ==
    pc = "decide" => \A u \in rst_f :
        uda.UDA_Rst_Cnt[u] >= SUPPRESS_MAX => u \in uda.Rst_Suppress

\* Suppression is never hidden, nor reported without cause: when a pass has updated
\* the reported alarms they are those of the flags kept in m_Uda, and every suppressed
\* source is among them.
SuppressionReported ==
    pc = "auto" => SupprAlm = uda.RST_Suppr_f /\ uda.Rst_Suppress \subseteq SupprAlm

\* An alarm that never goes away ends in suppression, not in an endless series of
\* resets: rejected requests, 30 minutes apart, keep restarting the 35 minutes.
SuppressionConverges ==
    <>[](alm = {"Clock"} /\ mode["Clock"] = "AR_Reset")
        => <>[]("Clock" \in uda.Rst_Suppress)

\* Once no alarm comes up any more, the resets allowed, the UDA alarm and the
\* suppression alarm all return to normal and stay so.
AlarmFreeClears ==
    <>[](alm = {}) => <>[](uda.Rst_Suppress = {} /\ AlmSt = {} /\ SupprAlm = {})
=============================================================================
