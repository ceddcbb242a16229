------------------------- MODULE UdaAutoResetProofs -------------------------
(***************************************************************************)
(* For every value of the constants: the types, SpentIsSuppressed and      *)
(* SuppressionReported of UdaAutoReset, by one inductive invariant, and    *)
(* ResetsBounded and ReleaseNotDuringAlarm of UdaAutoResetHistory, by ones *)
(* that extend it.                                                         *)
(***************************************************************************)
EXTENDS UdaAutoResetHistory, TLAPS

\* A source may be out of resets and not suppressed only from the boot to its first
\* decision (a record saved before a mode change can say so); no timer has run then.
SpentHandled ==
    \A u \in InReset :
        (uda.UDA_Rst_Cnt[u] >= SUPPRESS_MAX /\ u \notin uda.Rst_Suppress /\ ~Down)
            => /\ ticked
               /\ tm["Alm_Keep"][u] = 0
               /\ tm["Alm_Cnt"][u] = 0

\* SpentIsSuppressed, wherever the main thread is.
RequestsHandled ==
    \A u \in rst_f : uda.UDA_Rst_Cnt[u] >= SUPPRESS_MAX => u \in uda.Rst_Suppress

\* A suppressed source is flagged, in RAM and in both copies of the record.
Flagged ==
    /\ uda.Rst_Suppress \subseteq uda.RST_Suppr_f
    /\ flash.UDA.Rst_Suppress \subseteq flash.UDA.RST_Suppr_f
    /\ m_rst_info.UDA.Rst_Suppress \subseteq m_rst_info.UDA.RST_Suppr_f

\* The alarms reported follow the flags with a pass of delay; a flag whose alarm a mode
\* change took off is about to be cleared.
AlarmsFollow ==
    /\ SupprAlm \subseteq supprPrev
    /\ pc = "rst" => supprPrev \cap uda.RST_Suppr_f \subseteq SupprAlm
    /\ pc = "auto" => SupprAlm = uda.RST_Suppr_f /\ supprPrev = uda.RST_Suppr_f
    /\ pc = "decide" => /\ supprPrev = uda.RST_Suppr_f
                        /\ \A u \in supprPrev \ SupprAlm :
                               uda.UDA_Rst_Cnt[u] = 0 /\ u \notin rst_f

IInv == TypeOK /\ SpentHandled /\ RequestsHandled /\ Flagged /\ AlarmsFollow

-----------------------------------------------------------------------------
LEMMA ConstNat ==
    /\ SUPPRESS_MAX \in Nat /\ SUPPRESS_MAX >= 1
    /\ SUPPRESS_ON \in Nat /\ Alm_Cnt_Max \in Nat
    /\ CNT_Ref \in Nat /\ CNT_Ref >= 1
    /\ DIG_KEEP_Ref \in Nat /\ DIG_KEEP_Ref >= 1
    /\ Normal_Keep \in Nat /\ Suppress_Off \in Nat
  BY ConstAssumption

LEMMA ZeroTyped == UDA_Zero \in UDA_STR
  BY ConstNat DEF UDA_Zero, UDA_STR, ZeroOf

LEMMA LimitNat == \A t \in Timers : Limit(t) \in Nat
  BY ConstNat DEF Timers, Limit

LEMMA TmZeroTyped == [t \in Timers |-> ZeroOf(UDA)] \in [Timers -> [UDA -> Nat]]
  BY DEF ZeroOf

LEMMA InitInv == Init => IInv
<1> SUFFICES ASSUME Init PROVE IInv
  OBVIOUS
<1>1. TypeOK
  <2>1. mode \in [UDA -> AR_Mode] /\ modePrev \in [UDA -> AR_Mode]
    BY DEF Init
  <2>2. uda \in UDA_STR /\ m_rst_info \in DownInfoSTR /\ flash \in DownInfoSTR
    BY ZeroTyped DEF Init, DownInfoSTR, ResetInfo
  <2>3. tm \in [Timers -> [UDA -> Nat]]
    BY TmZeroTyped DEF Init
  <2>4. Alm_Cnt \in [UDA -> 0..Alm_Cnt_Max]
    BY ConstNat DEF Init, ZeroOf
  <2>5. /\ req \subseteq UDA /\ Reset_En \in 0..3 /\ rstDly \in 0..1
        /\ almPrev \subseteq UDA /\ alm \subseteq UDA /\ AlmSt \subseteq UDA
        /\ SupprAlm \subseteq UDA /\ supprPrev \subseteq UDA /\ rst_f \subseteq UDA
    BY DEF Init
  <2>6. /\ ResetReason \in ResetInfo \cup {"Rst_By_Etc", "Rst_By_PwrFail"}
        /\ is_reboot \in BOOLEAN /\ ticked \in BOOLEAN /\ env \in Nat
        /\ pc \in {"rst", "auto", "decide", "off", "wdt"}
    BY DEF Init
  <2> QED BY <2>1, <2>2, <2>3, <2>4, <2>5, <2>6 DEF TypeOK
<1>2. SpentHandled
  BY ConstNat DEF Init, SpentHandled, UDA_Zero, ZeroOf, InReset
<1>3. RequestsHandled /\ Flagged /\ AlarmsFollow
  BY DEF Init, RequestsHandled, Flagged, AlarmsFollow, UDA_Zero
<1> QED BY <1>1, <1>2, <1>3 DEF IInv

\* The part of TypeOK about the flags and small counters.
SmallType ==
    /\ req \subseteq UDA /\ Reset_En \in 0..3 /\ rstDly \in 0..1
    /\ almPrev \subseteq UDA /\ alm \subseteq UDA /\ AlmSt \subseteq UDA
    /\ SupprAlm \subseteq UDA /\ supprPrev \subseteq UDA /\ rst_f \subseteq UDA
    /\ ResetReason \in ResetInfo \cup {"Rst_By_Etc", "Rst_By_PwrFail"}
    /\ is_reboot \in BOOLEAN /\ ticked \in BOOLEAN /\ env \in Nat
    /\ pc \in {"rst", "auto", "decide", "off", "wdt"}

RecordType == uda \in UDA_STR /\ m_rst_info \in DownInfoSTR /\ flash \in DownInfoSTR
TimerType == tm \in [Timers -> [UDA -> Nat]] /\ Alm_Cnt \in [UDA -> 0..Alm_Cnt_Max]
ModeType == mode \in [UDA -> AR_Mode] /\ modePrev \in [UDA -> AR_Mode]

LEMMA TypeParts == TypeOK <=> SmallType /\ RecordType /\ TimerType /\ ModeType
  BY DEF TypeOK, SmallType, RecordType, TimerType, ModeType

\* The fields of a record in UDA_STR.
LEMMA UdaFields ==
    ASSUME NEW r \in UDA_STR
    PROVE  /\ r.Reset_Code \in BOOLEAN
           /\ r.UDA_Alarm_f \subseteq UDA /\ r.RST_Suppr_f \subseteq UDA
           /\ r.Rst_Suppress \subseteq UDA
           /\ r.UDA_Rst_Cnt \in [UDA -> 0..SUPPRESS_MAX]
           /\ r.time_backup \in [UDA -> 0..SUPPRESS_ON]
  BY DEF UDA_STR

-----------------------------------------------------------------------------
\* Steps that only take the unit down, and the others that leave m_Uda, the timers and
\* the main thread's place alone, preserve the invariant.
LEMMA DownStep ==
    ASSUME IInv, Halt \/ Reboot \/ Crash
    PROVE  IInv'
<1>1. TypeOK'
  BY DEF IInv, TypeOK, Halt, Reboot, Crash
<1>2. Down'
  BY DEF Halt, Reboot, Crash, Down
<1>3. SpentHandled' /\ RequestsHandled' /\ Flagged'
  BY <1>2 DEF IInv, Halt, Reboot, Crash, SpentHandled, RequestsHandled, Flagged
<1>4. AlarmsFollow'
  BY <1>2 DEF IInv, Halt, Reboot, Crash, AlarmsFollow, Down
<1> QED BY <1>1, <1>3, <1>4 DEF IInv

LEMMA RecordStep ==
    ASSUME IInv, Proc_PSU_Reset \/ ForeignReset
    PROVE  IInv'
<1>1. m_rst_info' \in DownInfoSTR /\ flash' = m_rst_info'
      /\ m_rst_info'.UDA = m_rst_info.UDA
  BY DEF IInv, TypeOK, Proc_PSU_Reset, ForeignReset, SetResetInfo, DownInfoSTR, ResetInfo
<1>2. UNCHANGED <<uda, rst_f, tm, ticked, mode, pc, SupprAlm, supprPrev>>
  BY DEF Proc_PSU_Reset, ForeignReset
<1>3. ModeType' /\ TimerType' /\ RecordType'
  BY <1>1, <1>2, TypeParts
     DEF IInv, ModeType, TimerType, RecordType, Proc_PSU_Reset, ForeignReset
<1>4. SmallType'
  <2>1. SmallType
    BY TypeParts DEF IInv
  <2>2. CASE Proc_PSU_Reset
    BY <2>1, <2>2 DEF SmallType, Proc_PSU_Reset
  <2>3. CASE ForeignReset
    BY <2>1, <2>3 DEF SmallType, ForeignReset
  <2> QED BY <2>2, <2>3
<1>5. SpentHandled' /\ RequestsHandled' /\ AlarmsFollow'
  BY <1>2 DEF IInv, SpentHandled, RequestsHandled, AlarmsFollow, InReset, Down
<1>6. Flagged'
  BY <1>1, <1>2 DEF IInv, Flagged
<1>7. TypeOK'
  BY <1>3, <1>4 DEF TypeOK, SmallType, RecordType, TimerType, ModeType
<1> QED BY <1>5, <1>6, <1>7 DEF IInv

LEMMA TickStep ==
    ASSUME IInv, Tick
    PROVE  IInv'
<1>1. tm' \in [Timers -> [UDA -> Nat]]
  <2>1. \A t \in Timers, u \in UDA : Least(tm[t][u] + 1, Limit(t)) \in Nat
    BY LimitNat DEF IInv, TypeOK, Least
  <2> QED BY <2>1 DEF Tick
<1>2. TypeOK'
  BY <1>1 DEF IInv, TypeOK, Tick
<1>3. SpentHandled'
  <2>1. ~ticked /\ ~Down
    BY DEF Tick, Down
  <2> QED BY <2>1 DEF IInv, SpentHandled, Tick, InReset, Down
<1>4. RequestsHandled' /\ Flagged' /\ AlarmsFollow'
  BY DEF IInv, RequestsHandled, Flagged, AlarmsFollow, Tick
<1> QED BY <1>2, <1>3, <1>4 DEF IInv

LEMMA BootStep ==
    ASSUME IInv, Boot
    PROVE  IInv'
<1>1. uda' \in UDA_STR /\ uda'.Rst_Suppress \subseteq uda'.RST_Suppr_f
  <2>1. flash.UDA \in UDA_STR
    BY DEF IInv, TypeOK, DownInfoSTR
  <2>2. CASE flash.UDA.Reset_Code
    BY <2>1, <2>2, UdaFields DEF IInv, Boot, RestoredUda, Flagged, UDA_STR
  <2>3. CASE ~flash.UDA.Reset_Code
    BY <2>3, ZeroTyped DEF Boot, RestoredUda, UDA_Zero
  <2> QED BY <2>2, <2>3
<1>2. m_rst_info' \in DownInfoSTR /\ flash' = m_rst_info' /\ m_rst_info'.UDA = UDA_Zero
  BY ZeroTyped DEF IInv, TypeOK, Boot, SetResetInfo, DownInfoSTR, ResetInfo
<1>3. TimerType' /\ ModeType' /\ RecordType'
  BY <1>1, <1>2, TmZeroTyped, ConstNat, TypeParts
     DEF IInv, TimerType, ModeType, RecordType, Boot, InitRam, ZeroOf
<1>4. SmallType'
  <2>1. flash.UDA \in UDA_STR /\ flash.reset_info \in ResetInfo
    BY DEF IInv, TypeOK, DownInfoSTR
  <2>2. flash.UDA.UDA_Alarm_f \subseteq UDA /\ flash.UDA.RST_Suppr_f \subseteq UDA
    BY <2>1, UdaFields
  <2>3. ResetReason' \in ResetInfo \cup {"Rst_By_Etc", "Rst_By_PwrFail"}
    BY <2>1 DEF Boot, BootReason
  <2>4. alm' = alm /\ env' = env /\ alm \subseteq UDA /\ env \in Nat
    BY DEF Boot, IInv, TypeOK
  <2>5. /\ AlmSt' = flash.UDA.UDA_Alarm_f
        /\ SupprAlm' = flash.UDA.RST_Suppr_f /\ supprPrev' = flash.UDA.RST_Suppr_f
        /\ req' = {} /\ almPrev' = {} /\ rst_f' = {} /\ Reset_En' = 0 /\ rstDly' = 0
        /\ is_reboot' = FALSE /\ ticked' = TRUE /\ pc' = "rst"
    BY DEF Boot, InitRam, RestoredSuppr
  <2>6. /\ req' \subseteq UDA /\ almPrev' \subseteq UDA /\ rst_f' \subseteq UDA
        /\ alm' \subseteq UDA /\ AlmSt' \subseteq UDA
        /\ SupprAlm' \subseteq UDA /\ supprPrev' \subseteq UDA
    BY <2>2, <2>4, <2>5
  <2>7. Reset_En' \in 0..3 /\ rstDly' \in 0..1 /\ env' \in Nat
    BY <2>4, <2>5
  <2>8. /\ is_reboot' \in BOOLEAN /\ ticked' \in BOOLEAN
        /\ pc' \in {"rst", "auto", "decide", "off", "wdt"}
    BY <2>5, Zenon
  <2> QED BY <2>3, <2>6, <2>7, <2>8 DEF SmallType
<1>5. SpentHandled' /\ RequestsHandled'
  BY DEF SpentHandled, RequestsHandled, Boot, InitRam, InReset, ZeroOf, Timers
<1>6. Flagged'
  BY <1>1, <1>2 DEF Flagged, UDA_Zero
<1>7. AlarmsFollow'
  BY DEF AlarmsFollow, Boot, InitRam, RestoredSuppr
<1>8. TypeOK'
  BY <1>3, <1>4 DEF TypeOK, SmallType, RecordType, TimerType, ModeType
<1> QED BY <1>5, <1>6, <1>7, <1>8 DEF IInv

\* One source's command: it may only take requests and suppression away, and counts
\* from zero again.
LEMMA ControlStep ==
    ASSUME IInv, NEW u \in UDA, NEW m \in AR_Mode, Use_UDA_Oper_Mode_Ctrl(u, m)
    PROVE  IInv'
<1> USE DEF Use_UDA_Oper_Mode_Ctrl
<1>0. uda \in UDA_STR
  BY DEF IInv, TypeOK
<1>1. /\ uda'.Rst_Suppress = uda.Rst_Suppress \ {u}
      /\ uda'.RST_Suppr_f = uda.RST_Suppr_f
      /\ uda'.UDA_Rst_Cnt = [uda.UDA_Rst_Cnt EXCEPT ![u] = 0]
      /\ uda' \in UDA_STR
  <2> DEFINE cnt == [uda.UDA_Rst_Cnt EXCEPT ![u] = 0]
             backup == [uda.time_backup EXCEPT ![u] = 0]
  <2>1. cnt \in [UDA -> 0..SUPPRESS_MAX] /\ backup \in [UDA -> 0..SUPPRESS_ON]
    BY <1>0, UdaFields, ConstNat
  <2>2. uda' = [Reset_Code |-> uda.Reset_Code, UDA_Alarm_f |-> uda.UDA_Alarm_f \ {u},
                RST_Suppr_f |-> uda.RST_Suppr_f, Rst_Suppress |-> uda.Rst_Suppress \ {u},
                UDA_Rst_Cnt |-> cnt, time_backup |-> backup]
    BY <1>0 DEF UDA_STR
  <2> QED BY <1>0, <2>1, <2>2, UdaFields DEF UDA_STR
<1>2. \A v \in UDA : uda'.UDA_Rst_Cnt[v] = IF v = u THEN 0 ELSE uda.UDA_Rst_Cnt[v]
  BY <1>0, <1>1, UdaFields
<1>3. tm' \in [Timers -> [UDA -> Nat]] /\ Alm_Cnt' \in [UDA -> 0..Alm_Cnt_Max]
  BY ConstNat DEF IInv, TypeOK, Timers
<1>4. TypeOK'
  <2>1. SmallType /\ RecordType /\ TimerType /\ ModeType
    BY TypeParts DEF IInv
  <2>2. SmallType'
    BY <2>1 DEF SmallType
  <2>3. RecordType' /\ TimerType'
    BY <2>1, <1>1, <1>3 DEF RecordType, TimerType
  <2>4. ModeType'
    BY <2>1 DEF ModeType
  <2> QED BY <2>2, <2>3, <2>4, TypeParts DEF SmallType, RecordType, TimerType, ModeType, TypeOK
<1>5. SpentHandled'
  <2> SUFFICES ASSUME NEW v \in UDA, mode'[v] = "AR_Reset",
                      uda'.UDA_Rst_Cnt[v] >= SUPPRESS_MAX,
                      v \notin uda'.Rst_Suppress, ~Down'
               PROVE  ticked' /\ tm'["Alm_Keep"][v] = 0 /\ tm'["Alm_Cnt"][v] = 0
    BY DEF SpentHandled, InReset
  <2>1. v # u
    BY <1>2, ConstNat
  <2>2. mode[v] = "AR_Reset" /\ uda.UDA_Rst_Cnt[v] >= SUPPRESS_MAX
        /\ v \notin uda.Rst_Suppress /\ ~Down
    BY <2>1, <1>1, <1>2 DEF IInv, TypeOK, Down
  <2>3. ticked /\ tm["Alm_Keep"][v] = 0 /\ tm["Alm_Cnt"][v] = 0
    BY <2>2 DEF IInv, SpentHandled, InReset
  <2>4. tm'["Alm_Keep"][v] = tm["Alm_Keep"][v] /\ tm'["Alm_Cnt"][v] = tm["Alm_Cnt"][v]
    BY <2>1 DEF IInv, TypeOK, Timers
  <2> QED BY <2>3, <2>4
<1>6. RequestsHandled'
  BY <1>1, <1>2, ConstNat DEF IInv, TypeOK, RequestsHandled
<1>7. Flagged'
  BY <1>1 DEF IInv, Flagged
<1>8. AlarmsFollow'
  BY <1>1, <1>2 DEF IInv, TypeOK, AlarmsFollow
<1> QED BY <1>4, <1>5, <1>6, <1>7, <1>8 DEF IInv

-----------------------------------------------------------------------------
(* The main thread.                                                        *)

LEMMA ResetStep ==
    ASSUME IInv, Proc___Reset_By_UDA
    PROVE  IInv'
<1>0. uda \in UDA_STR /\ m_rst_info \in DownInfoSTR /\ flash \in DownInfoSTR
  BY DEF IInv, TypeOK
<1>1. /\ uda' \in UDA_STR
      /\ uda'.Rst_Suppress = uda.Rst_Suppress /\ uda'.RST_Suppr_f = uda.RST_Suppr_f
      /\ uda'.UDA_Rst_Cnt = uda.UDA_Rst_Cnt
  BY <1>0 DEF Proc___Reset_By_UDA, UDA_STR, InReset
<1>2. /\ m_rst_info' \in DownInfoSTR /\ flash' \in DownInfoSTR
      /\ m_rst_info'.UDA.Rst_Suppress \subseteq m_rst_info'.UDA.RST_Suppr_f
      /\ flash'.UDA.Rst_Suppress \subseteq flash'.UDA.RST_Suppr_f
  <2>1. CASE UNCHANGED <<m_rst_info, flash>>
    BY <2>1, <1>0 DEF IInv, Flagged
  <2>2. CASE UDA_Auto_Reset_EEP_Save
    <3> DEFINE saved == [uda EXCEPT !.Reset_Code = TRUE]
               ram == [m_rst_info EXCEPT !.UDA = saved]
    <3>1. saved \in UDA_STR /\ saved.Rst_Suppress \subseteq saved.RST_Suppr_f
      BY <1>0 DEF UDA_STR, IInv, Flagged
    <3>2. ram \in DownInfoSTR /\ ram.UDA = saved
      BY <1>0, <3>1 DEF DownInfoSTR
    <3>3. CASE m_rst_info' = ram /\ UNCHANGED flash
      BY <3>1, <3>2, <3>3, <1>0 DEF IInv, Flagged
    <3>4. CASE \E x \in UDA : SetResetInfo(ram, Rst_By_Uda(x))
      <4>1. PICK x \in UDA : SetResetInfo(ram, Rst_By_Uda(x))
        BY <3>4
      <4>2. Rst_By_Uda(x) \in ResetInfo
        BY DEF ResetInfo, UdaReason
      <4>3. m_rst_info' \in DownInfoSTR /\ m_rst_info'.UDA = saved /\ flash' = m_rst_info'
        BY <3>2, <4>1, <4>2 DEF SetResetInfo, DownInfoSTR
      <4> QED BY <4>3, <3>1
    <3> QED BY <2>2, <3>3, <3>4 DEF UDA_Auto_Reset_EEP_Save, UDA
  <2> QED BY <2>1, <2>2
          DEF Proc___Reset_By_UDA, ResetRequested, ResetSave, ResetDelay, ResetByPsuFailed,
              ResetFailed
<1>3. SmallType'
  <2>0. Reset_En \in 0..3 /\ rstDly \in 0..1 /\ is_reboot \in BOOLEAN
    BY DEF IInv, TypeOK
  <2>1. Reset_En' \in 0..3 /\ rstDly' \in 0..1 /\ is_reboot' \in BOOLEAN
    <3>1. CASE ResetRequested
      BY <2>0, <3>1 DEF ResetRequested
    <3>2. CASE ResetSave
      BY <2>0, <3>2 DEF ResetSave
    <3>3. CASE ResetDelay
      BY <2>0, <3>3 DEF ResetDelay
    <3>4. CASE ResetByPsuFailed
      BY <2>0, <3>4 DEF ResetByPsuFailed
    <3>5. CASE ResetFailed
      BY <2>0, <3>5 DEF ResetFailed
    <3> QED BY <3>1, <3>2, <3>3, <3>4, <3>5 DEF Proc___Reset_By_UDA
  <2>2. AlmSt' \subseteq UDA /\ SupprAlm' \subseteq UDA /\ supprPrev' \subseteq UDA
    BY <1>0, UdaFields DEF IInv, TypeOK, Proc___Reset_By_UDA
  <2> QED BY <2>1, <2>2 DEF IInv, TypeOK, SmallType, Proc___Reset_By_UDA
<1>4. TypeOK'
  BY <1>1, <1>2, <1>3 DEF IInv, TypeOK, SmallType, Proc___Reset_By_UDA
<1>5. SpentHandled'
  BY <1>1 DEF IInv, SpentHandled, Proc___Reset_By_UDA, InReset, Down
<1>6. RequestsHandled'
  BY <1>1 DEF IInv, RequestsHandled, Proc___Reset_By_UDA
<1>7. Flagged'
  BY <1>1, <1>2 DEF IInv, Flagged
<1>8. AlarmsFollow'
  BY <1>1 DEF IInv, AlarmsFollow, Proc___Reset_By_UDA
<1> QED BY <1>4, <1>5, <1>6, <1>7, <1>8 DEF IInv

LEMMA JudgeStep ==
    ASSUME IInv, NEW a \in SUBSET Sources, Judge(a)
    PROVE  IInv'
<1>0. /\ uda \in UDA_STR /\ a \subseteq UDA
      /\ tm \in [Timers -> [UDA -> Nat]] /\ Alm_Cnt \in [UDA -> 0..Alm_Cnt_Max]
  BY ConstAssumption DEF IInv, TypeOK
<1>f. /\ uda.UDA_Rst_Cnt \in [UDA -> 0..SUPPRESS_MAX]
      /\ uda.time_backup \in [UDA -> 0..SUPPRESS_ON]
      /\ uda.UDA_Alarm_f \subseteq UDA /\ uda.Rst_Suppress \subseteq UDA
      /\ uda.RST_Suppr_f \subseteq UDA /\ uda.Reset_Code \in BOOLEAN
  BY <1>0, UdaFields
<1>1. /\ uda'.Rst_Suppress = uda.Rst_Suppress \ InitReq
      /\ uda'.RST_Suppr_f = uda.RST_Suppr_f
      /\ uda'.UDA_Rst_Cnt = Set(uda.UDA_Rst_Cnt, InitReq, 0)
      /\ uda' \in UDA_STR
  <2> DEFINE alarms == ((uda.UDA_Alarm_f \ (AlmSt \cap InitReq)) \cup (SetNow(a) \cap InReset))
                          \ Normal(a)
             cnt == Set(uda.UDA_Rst_Cnt, InitReq, 0)
             backup == Set(uda.time_backup, InitReq, 0)
  <2>1. cnt \in [UDA -> 0..SUPPRESS_MAX] /\ backup \in [UDA -> 0..SUPPRESS_ON]
    BY <1>f, ConstNat DEF Set
  <2>2. alarms \subseteq UDA
    BY <1>f DEF InReset
  <2> HIDE DEF alarms, cnt, backup
  <2>3. uda' = [Reset_Code |-> uda.Reset_Code, UDA_Alarm_f |-> alarms,
                RST_Suppr_f |-> uda.RST_Suppr_f, Rst_Suppress |-> uda.Rst_Suppress \ InitReq,
                UDA_Rst_Cnt |-> cnt, time_backup |-> backup]
    BY <1>0 DEF UDA_STR, Judge, alarms, cnt, backup
  <2>4. cnt = Set(uda.UDA_Rst_Cnt, InitReq, 0)
    BY DEF cnt
  <2>5. uda.Rst_Suppress \ InitReq \subseteq UDA
    BY <1>f
  <2> QED BY <1>f, <2>1, <2>2, <2>3, <2>4, <2>5 DEF UDA_STR
<1>2. \A u \in UDA : uda'.UDA_Rst_Cnt[u] = IF u \in InitReq THEN 0 ELSE uda.UDA_Rst_Cnt[u]
  BY <1>1 DEF Set
<1>3. tm' \in [Timers -> [UDA -> Nat]]
      /\ Alm_Cnt' \in [UDA -> 0..Alm_Cnt_Max]
  <2>1. \A u \in UDA, t \in Timers : TmAfterInit(t, u) \in Nat /\ WindowNow(u) \in Nat
    BY <1>0 DEF TmAfterInit, WindowNow, Timers
  <2>2. \A u \in UDA : CntNow(a, u) \in 0..Alm_Cnt_Max /\ CntAfterInit(u) \in 0..Alm_Cnt_Max
    BY <1>0, ConstNat DEF CntNow, CntAfterInit, Least
  <2>3. Alm_Cnt' \in [UDA -> 0..Alm_Cnt_Max]
    BY <2>2, ConstNat DEF Judge
  <2>4. TimersJudged(a) \in [Timers -> [UDA -> Nat]]
    <3> DEFINE f == [u \in UDA |->
                       CASE u \in WindowEnd \cup Kept(a) -> 0
                         [] u \in Watched \ (WindowEnd \cup Kept(a)) -> WindowNow(u)
                         [] OTHER -> TmAfterInit("Alm_Cnt", u)]
               g == [u \in UDA |->
                       IF u \in Watched \ KeepRuns(a) THEN 0 ELSE TmAfterInit("Alm_Keep", u)]
               h == [u \in UDA |->
                       IF u \in Watched \ ClrRuns(a) THEN 0 ELSE TmAfterInit("Alm_Clr", u)]
    <3>1. f \in [UDA -> Nat] /\ g \in [UDA -> Nat] /\ h \in [UDA -> Nat]
      BY <2>1 DEF Timers
    <3>2. TimersJudged(a) = [tm EXCEPT !["Alm_Cnt"] = f, !["Alm_Keep"] = g, !["Alm_Clr"] = h]
      BY DEF TimersJudged
    <3> HIDE DEF f, g, h
    <3> QED BY <3>1, <3>2, <1>0 DEF Timers
  <2> QED BY <2>3, <2>4 DEF Judge
<1>4. SmallType'
  <2>1. req' \subseteq UDA /\ rst_f' \subseteq UDA /\ AlmSt' \subseteq UDA
        /\ SupprAlm' \subseteq UDA
    BY DEF IInv, TypeOK, Judge, ReqKept, InReset, AlarmOn, SetNow, Kept, Watched, TooMany,
           WindowEnd
  <2> QED BY <1>0, <2>1 DEF IInv, TypeOK, SmallType, Judge
<1>5. TypeOK'
  BY <1>1, <1>3, <1>4 DEF IInv, TypeOK, SmallType, Judge
<1>6. RequestsHandled'
  <2> SUFFICES ASSUME NEW u \in rst_f', uda'.UDA_Rst_Cnt[u] >= SUPPRESS_MAX,
                      u \notin uda'.Rst_Suppress
               PROVE  FALSE
    BY DEF RequestsHandled
  <2>1. u \in UDA /\ mode[u] = "AR_Reset" /\ (u \in Kept(a) \/ u \in TooMany(a))
    BY DEF Judge, InReset
  <2>2. u \notin InitReq /\ uda.UDA_Rst_Cnt[u] >= SUPPRESS_MAX /\ u \notin uda.Rst_Suppress
    BY <1>1, <1>2, <2>1, ConstNat
  <2>3. tm["Alm_Keep"][u] = 0 /\ tm["Alm_Cnt"][u] = 0
    BY <2>1, <2>2 DEF IInv, SpentHandled, InReset, Judge, Down
  <2>4. u \notin Kept(a)
    BY <2>2, <2>3, ConstNat DEF Kept, TmAfterInit
  <2>5. u \notin TooMany(a)
    BY <2>3, ConstNat DEF TooMany, WindowEnd, WindowNow
  <2> QED BY <2>1, <2>4, <2>5
<1>7. SpentHandled'
  <2> SUFFICES ASSUME NEW u \in UDA, mode[u] = "AR_Reset",
                      uda'.UDA_Rst_Cnt[u] >= SUPPRESS_MAX, u \notin uda'.Rst_Suppress
               PROVE  ticked' /\ tm'["Alm_Keep"][u] = 0 /\ tm'["Alm_Cnt"][u] = 0
    BY DEF SpentHandled, InReset, Judge
  <2>1. u \notin InitReq /\ uda.UDA_Rst_Cnt[u] >= SUPPRESS_MAX /\ u \notin uda.Rst_Suppress
    BY <1>1, <1>2, ConstNat
  <2>2. ticked /\ tm["Alm_Keep"][u] = 0 /\ tm["Alm_Cnt"][u] = 0
    BY <2>1 DEF IInv, SpentHandled, InReset, Judge, Down
  <2>3. TmAfterInit("Alm_Keep", u) = 0 /\ TmAfterInit("Alm_Cnt", u) = 0 /\ WindowNow(u) = 0
    BY <2>2 DEF TmAfterInit, WindowNow
  <2>4. tm'["Alm_Keep"][u] = 0
    BY <1>0, <2>3 DEF Judge, TimersJudged, Timers
  <2>5. tm'["Alm_Cnt"][u] = 0
    BY <1>0, <2>3 DEF Judge, TimersJudged, Timers
  <2> QED BY <2>2, <2>4, <2>5 DEF Judge
<1>8. Flagged'
  BY <1>1 DEF IInv, Flagged, Judge
<1>9. AlarmsFollow'
  <2>1. SupprAlm' = SupprAlm \ NoAction /\ supprPrev' = supprPrev /\ pc' = "decide"
        /\ SupprAlm = uda.RST_Suppr_f /\ supprPrev = uda.RST_Suppr_f
    BY DEF IInv, AlarmsFollow, Judge
  <2>2. \A u \in supprPrev' \ SupprAlm' : uda'.UDA_Rst_Cnt[u] = 0 /\ u \notin rst_f'
    <3> TAKE u \in supprPrev' \ SupprAlm'
    <3>1. u \in NoAction /\ u \in UDA
      BY <2>1, <1>f
    <3>2. u \in InitReq /\ u \notin InReset
      BY <3>1 DEF InitReq, NoAction, InReset
    <3> QED BY <1>2, <3>1, <3>2 DEF Judge
  <2> QED BY <1>1, <2>1, <2>2 DEF AlarmsFollow
<1> QED BY <1>5, <1>6, <1>7, <1>8, <1>9 DEF IInv

LEMMA DecideStep ==
    ASSUME IInv, Decide
    PROVE  IInv'
<1>0. /\ uda \in UDA_STR /\ rst_f \subseteq UDA
      /\ tm \in [Timers -> [UDA -> Nat]] /\ Alm_Cnt \in [UDA -> 0..Alm_Cnt_Max]
  BY DEF IInv, TypeOK
<1>f. /\ uda.UDA_Rst_Cnt \in [UDA -> 0..SUPPRESS_MAX]
      /\ uda.time_backup \in [UDA -> 0..SUPPRESS_ON]
      /\ uda.UDA_Alarm_f \subseteq UDA /\ uda.Rst_Suppress \subseteq UDA
      /\ uda.RST_Suppr_f \subseteq UDA /\ uda.Reset_Code \in BOOLEAN
  BY <1>0, UdaFields
<1>1. Accepted \subseteq rst_f /\ Accepted \cap uda.Rst_Suppress = {}
  BY DEF Accepted, Chosen
\* A source granted a reset still had one.
<1>2. \A u \in UDA : RstCntNow(u) \in 0..SUPPRESS_MAX
  <2> TAKE u \in UDA
  <2>1. CASE u \in Accepted
    <3>1. ~(uda.UDA_Rst_Cnt[u] >= SUPPRESS_MAX)
      BY <1>1, <2>1 DEF IInv, RequestsHandled
    <3> QED BY <1>f, <2>1, <3>1, ConstNat DEF RstCntNow
  <2>2. CASE u \notin Accepted
    BY <1>f, <2>2, ConstNat DEF RstCntNow
  <2> QED BY <2>1, <2>2
<1>3. \A u \in UDA : BackupNow(u) \in 0..SUPPRESS_ON
  BY <1>0, <1>f, ConstNat DEF BackupNow, Least, Timers
<1>4. Idle \subseteq UDA /\ Suppressed \subseteq UDA /\ Restarted \subseteq UDA
      /\ Released \subseteq uda.Rst_Suppress
      /\ Suppressed \cap (Idle \cup Restarted \cup uda.Rst_Suppress) = {}
  BY DEF Idle, Suppressed, Restarted, Released, NotSuppressed
<1>5. /\ uda'.Rst_Suppress = (uda.Rst_Suppress \ (Idle \cup Released)) \cup Suppressed
      /\ uda'.RST_Suppr_f =
            (uda.RST_Suppr_f \ (Idle \cup Restarted \cup Released)) \cup Suppressed
      /\ \A u \in UDA : uda'.UDA_Rst_Cnt[u] =
                          IF u \in Restarted \cup Released THEN 0 ELSE RstCntNow(u)
      /\ uda' \in UDA_STR
  <2> DEFINE alarms == uda.UDA_Alarm_f
                         \ (Idle \cup Suppressed \cup Restarted \cup (Released \cap AlmSt))
             flags == (uda.RST_Suppr_f \ (Idle \cup Restarted \cup Released)) \cup Suppressed
             suppress == (uda.Rst_Suppress \ (Idle \cup Released)) \cup Suppressed
             cnt == [u \in UDA |-> IF u \in Restarted \cup Released THEN 0 ELSE RstCntNow(u)]
             backup == [u \in UDA |->
                          IF u \in Idle \cup Suppressed \cup Restarted THEN 0 ELSE BackupNow(u)]
  <2>1. cnt \in [UDA -> 0..SUPPRESS_MAX] /\ backup \in [UDA -> 0..SUPPRESS_ON]
    BY <1>2, <1>3, ConstNat
  <2>2. alarms \subseteq UDA /\ flags \subseteq UDA /\ suppress \subseteq UDA
    BY <1>f, <1>4
  <2>3. \A u \in UDA : cnt[u] = IF u \in Restarted \cup Released THEN 0 ELSE RstCntNow(u)
    OBVIOUS
  <2>4. uda' = [uda EXCEPT !.UDA_Alarm_f = alarms, !.RST_Suppr_f = flags,
                           !.Rst_Suppress = suppress, !.UDA_Rst_Cnt = cnt,
                           !.time_backup = backup]
    BY DEF Decide
  <2> HIDE DEF alarms, flags, suppress, cnt, backup
  <2>5. uda' = [Reset_Code |-> uda.Reset_Code, UDA_Alarm_f |-> alarms, RST_Suppr_f |-> flags,
                Rst_Suppress |-> suppress, UDA_Rst_Cnt |-> cnt, time_backup |-> backup]
    BY <1>0, <2>4 DEF UDA_STR
  <2>6. uda' \in UDA_STR
    BY <1>f, <2>1, <2>2, <2>5 DEF UDA_STR
  <2> QED BY <2>3, <2>5, <2>6 DEF flags, suppress
<1>6. tm' \in [Timers -> [UDA -> Nat]] /\ Alm_Cnt' \in [UDA -> 0..Alm_Cnt_Max]
  <2>1. \A t \in Timers, S \in SUBSET UDA : Set(tm[t], S, 0) \in [UDA -> Nat]
    BY <1>0 DEF Set
  <2>2. tm' \in [Timers -> [UDA -> Nat]]
    <3>1. Idle \cup Suppressed \cup Restarted \in SUBSET UDA
          /\ Idle \cup Suppressed \cup Rejected \in SUBSET UDA
      BY <1>f, <1>4 DEF Rejected
    <3> DEFINE counted == Set(tm["Alm_Cnt"], rst_f, 0)
               kept == Set(tm["Alm_Keep"], rst_f, 0)
               entering == Set(tm["Suppress_ON"], Idle \cup Suppressed \cup Restarted, 0)
               leaving == Set(tm["Suppress_OFF"], Idle \cup Suppressed \cup Rejected, 0)
    <3>2. /\ counted \in [UDA -> Nat] /\ kept \in [UDA -> Nat]
          /\ entering \in [UDA -> Nat] /\ leaving \in [UDA -> Nat]
      BY <1>0, <2>1, <3>1 DEF Timers
    <3>3. tm' = [tm EXCEPT !["Alm_Cnt"] = counted, !["Alm_Keep"] = kept,
                           !["Suppress_ON"] = entering, !["Suppress_OFF"] = leaving]
      BY DEF Decide
    <3> HIDE DEF counted, kept, entering, leaving
    <3> QED BY <1>0, <3>2, <3>3 DEF Timers
  <2> QED BY <1>0, <2>2, ConstNat DEF Decide, Set
<1>7. TypeOK'
  <2>1. req' \subseteq UDA /\ rst_f' \subseteq UDA /\ AlmSt' \subseteq UDA
        /\ SupprAlm' \subseteq UDA
    BY <1>0, <1>1 DEF IInv, TypeOK, Decide
  <2>2. ticked' \in BOOLEAN /\ pc' \in {"rst", "auto", "decide", "off", "wdt"}
    BY Zenon DEF Decide
  <2> QED BY <1>5, <1>6, <2>1, <2>2 DEF IInv, TypeOK, Decide
<1>8. SpentHandled'
  <2> SUFFICES ASSUME NEW u \in UDA, mode[u] = "AR_Reset",
                      uda'.UDA_Rst_Cnt[u] >= SUPPRESS_MAX, u \notin uda'.Rst_Suppress
               PROVE  FALSE
    BY DEF SpentHandled, InReset, Decide
  <2>1. u \notin Restarted \cup Released /\ RstCntNow(u) >= SUPPRESS_MAX
    BY <1>5, ConstNat
  <2>2. u \notin Idle
    BY <2>1, <1>2, ConstNat DEF Idle, InReset
  <2>3. u \notin uda.Rst_Suppress
    BY <1>5, <2>1, <2>2
  <2>4. u \in Suppressed
    BY <2>1, <2>2, <2>3 DEF Suppressed, NotSuppressed
  <2> QED BY <1>5, <2>4
<1>9. RequestsHandled'
  BY DEF Decide, RequestsHandled
<1>10. Flagged'
  <2>1. uda.Rst_Suppress \subseteq uda.RST_Suppr_f
    BY DEF IInv, Flagged
  <2>2. Restarted \cap uda.Rst_Suppress = {}
    BY DEF Restarted, Suppressed, NotSuppressed
  <2> QED BY <1>4, <1>5, <2>1, <2>2 DEF IInv, Flagged, Decide
<1>11. AlarmsFollow'
  <2>1. supprPrev' = supprPrev /\ SupprAlm' = SupprAlm \ Released /\ pc' = "rst"
        /\ supprPrev = uda.RST_Suppr_f /\ SupprAlm \subseteq supprPrev
    BY DEF Decide, IInv, AlarmsFollow
  <2>2. \A u \in supprPrev \ SupprAlm : u \in Idle
    <3> TAKE u \in supprPrev \ SupprAlm
    <3>1. uda.UDA_Rst_Cnt[u] = 0 /\ u \notin rst_f /\ u \in UDA
      BY <1>f, <2>1 DEF Decide, IInv, AlarmsFollow
    <3>2. RstCntNow(u) = 0
      BY <1>1, <3>1 DEF RstCntNow
    <3> QED BY <3>1, <3>2 DEF Idle
  <2>3. supprPrev \cap uda'.RST_Suppr_f \subseteq SupprAlm \ Released
    BY <1>4, <1>5, <2>2
  <2> QED BY <2>1, <2>3 DEF AlarmsFollow
<1> QED BY <1>7, <1>8, <1>9, <1>10, <1>11 DEF IInv

-----------------------------------------------------------------------------
LEMMA NextInv == IInv /\ [Next]_vars => IInv'
<1> SUFFICES ASSUME IInv, [Next]_vars PROVE IInv'
  OBVIOUS
<1>1. CASE Proc___Reset_By_UDA
  BY <1>1, ResetStep
<1>2. CASE \E a \in SUBSET Sources : Judge(a)
  BY <1>2, JudgeStep
<1>3. CASE Decide
  BY <1>3, DecideStep
<1>4. CASE Halt \/ Reboot \/ Crash
  BY <1>4, DownStep
<1>5. CASE Proc_PSU_Reset \/ ForeignReset
  BY <1>5, RecordStep
<1>6. CASE Tick
  BY <1>6, TickStep
<1>7. CASE Boot
  BY <1>7, BootStep
<1>8. CASE \E u \in UDA, m \in AR_Mode : Use_UDA_Oper_Mode_Ctrl(u, m)
  BY <1>8, ControlStep
<1>9. CASE UNCHANGED vars
  BY <1>9 DEF vars, IInv, TypeOK, SpentHandled, RequestsHandled, Flagged, AlarmsFollow,
              InReset, Down
<1> QED BY <1>1, <1>2, <1>3, <1>4, <1>5, <1>6, <1>7, <1>8, <1>9 DEF Next, Pass

\* The invariant holds in every reachable state; it is inductive.
THEOREM Invariant == Spec => []IInv
<1>1. Init => IInv
  BY InitInv
<1>2. IInv /\ [Next]_vars => IInv'
  BY NextInv
<1> QED BY <1>1, <1>2, PTL DEF Spec

\* Types: the reset count of a source never passes SUPPRESS_MAX.
THEOREM TypeCorrect == Spec => []TypeOK
<1>1. IInv => TypeOK
  BY DEF IInv
<1> QED BY <1>1, Invariant, PTL

\* No decision grants a reset to a source that used up its automatic resets.
THEOREM SpentSuppressed == Spec => []SpentIsSuppressed
<1>1. IInv => SpentIsSuppressed
  BY DEF IInv, RequestsHandled, SpentIsSuppressed
<1> QED BY <1>1, Invariant, PTL

\* The suppression alarms reported are those of the flags and miss no suppression.
THEOREM SuppressionAlarmed == Spec => []SuppressionReported
<1>1. IInv => SuppressionReported
  BY DEF IInv, Flagged, AlarmsFollow, SuppressionReported
<1> QED BY <1>1, Invariant, PTL

-----------------------------------------------------------------------------
(* The resets there were (UdaAutoResetHistory).  m_Uda counts them a reset   *)
(* ahead, from the grant on, and may be one behind: a window that ends in    *)
(* the pass that grants a reset forgets it.                                  *)

\* cnt counts the resets there were and the one that serves S, all but one.
Counts(cnt, S) == \A u \in UDA : done[u] + (IF u \in S THEN 1 ELSE 0) <= cnt[u] + 1

\* A record that asks to be restored was saved by this reset, and counts it.
SavedCounts(r) == r.UDA.Reset_Code => Reset_En >= 2 /\ Counts(r.UDA.UDA_Rst_Cnt, cause)

HistInv ==
    /\ done \in [UDA -> Nat]
    /\ Counts(uda.UDA_Rst_Cnt, req)
    /\ SavedCounts(m_rst_info) /\ SavedCounts(flash)

LEMMA HistInit == HInit => HistInv
BY DEF HInit, HistInv, Init, UDA_Zero, ZeroOf, Counts, SavedCounts

LEMMA CountsNat ==
    ASSUME TypeOK
    PROVE  /\ uda.UDA_Rst_Cnt \in [UDA -> Nat]
           /\ m_rst_info.UDA.UDA_Rst_Cnt \in [UDA -> Nat]
           /\ flash.UDA.UDA_Rst_Cnt \in [UDA -> Nat]
<1>1. uda \in UDA_STR /\ m_rst_info.UDA \in UDA_STR /\ flash.UDA \in UDA_STR
  BY DEF TypeOK, DownInfoSTR
<1>2. \A r \in UDA_STR : r.UDA_Rst_Cnt \in [UDA -> Nat]
  BY UdaFields, ConstNat
<1> QED BY <1>1, <1>2

\* What the past is forgotten of, is forgotten by whatever counts it.
LEMMA Forgotten ==
    ASSUME done \in [UDA -> Nat], NEW S, done' = Set(done, S, 0),
           NEW T, NEW cnt \in [UDA -> Nat], Counts(cnt, T)
    PROVE  /\ done' \in [UDA -> Nat]
           /\ \A u \in UDA : done'[u] + (IF u \in T THEN 1 ELSE 0) <= cnt[u] + 1
BY DEF Set, Counts

LEMMA HistReset ==
    ASSUME TypeOK, HistInv, HReset
    PROVE  HistInv'
<1>1. uda'.UDA_Rst_Cnt = uda.UDA_Rst_Cnt /\ UNCHANGED <<req, done>>
  BY DEF HReset, Proc___Reset_By_UDA, TypeOK, UDA_STR
<1>2. done' \in [UDA -> Nat] /\ Counts(uda.UDA_Rst_Cnt, req)'
  BY <1>1 DEF HistInv, Counts
<1>3. CASE Reset_En = 1
  <2>1. Reset_En' = 2 /\ cause' = req /\ UDA_Auto_Reset_EEP_Save
    BY <1>3 DEF HReset, Proc___Reset_By_UDA, ResetRequested, ResetSave, ResetDelay,
                ResetByPsuFailed, ResetFailed
  <2>2. ~m_rst_info.UDA.Reset_Code /\ ~flash.UDA.Reset_Code
    BY <1>3 DEF HistInv, SavedCounts
  <2>3. m_rst_info'.UDA.UDA_Rst_Cnt = uda.UDA_Rst_Cnt
    <3> DEFINE saved == [uda EXCEPT !.Reset_Code = TRUE]
               ram == [m_rst_info EXCEPT !.UDA = saved]
    <3>1. saved.UDA_Rst_Cnt = uda.UDA_Rst_Cnt
      BY DEF TypeOK, UDA_STR
    <3>2. ram.UDA = saved /\ \A r : [ram EXCEPT !.reset_info = r].UDA = saved
      BY DEF TypeOK, DownInfoSTR
    <3>3. m_rst_info' = ram \/ \E r : m_rst_info' = [ram EXCEPT !.reset_info = r]
      BY <2>1 DEF UDA_Auto_Reset_EEP_Save, SetResetInfo
    <3> HIDE DEF saved, ram
    <3> QED BY <3>1, <3>2, <3>3
  <2>4. flash' = flash \/ flash' = m_rst_info'
    BY <2>1 DEF UDA_Auto_Reset_EEP_Save, SetResetInfo
  <2>5. SavedCounts(m_rst_info)' /\ SavedCounts(flash)'
    BY <1>1, <2>1, <2>2, <2>3, <2>4 DEF HistInv, SavedCounts, Counts
  <2> QED BY <1>2, <2>5 DEF HistInv
<1>4. CASE Reset_En # 1
  <2>1. UNCHANGED <<m_rst_info, flash, cause>> /\ (Reset_En >= 2 => Reset_En' >= 2)
    BY <1>4 DEF HReset, Proc___Reset_By_UDA, ResetRequested, ResetSave, ResetDelay,
                ResetByPsuFailed, ResetFailed, TypeOK
  <2> QED BY <1>1, <1>2, <2>1 DEF HistInv, SavedCounts, Counts
<1> QED BY <1>3, <1>4

LEMMA HistJudge ==
    ASSUME TypeOK, HistInv, NEW a \in SUBSET Sources, HJudge(a)
    PROVE  HistInv'
<1>1. /\ uda'.UDA_Rst_Cnt = Set(uda.UDA_Rst_Cnt, InitReq, 0)
      /\ req' = req \ InitReq /\ done' = Set(done, InitReq, 0)
      /\ UNCHANGED <<m_rst_info, flash, Reset_En, cause>>
  BY DEF HJudge, Judge, ReqKept, TypeOK, UDA_STR
<1>2. Counts(uda.UDA_Rst_Cnt, req)' /\ done' \in [UDA -> Nat]
  BY <1>1, CountsNat DEF HistInv, Counts, Set
<1>3. SavedCounts(m_rst_info)' /\ SavedCounts(flash)'
  BY <1>1, CountsNat, Forgotten DEF HistInv, SavedCounts, Counts
<1> QED BY <1>2, <1>3 DEF HistInv

LEMMA HistDecide ==
    ASSUME TypeOK, HistInv, HDecide
    PROVE  HistInv'
<1> DEFINE S == (UDA \ InReset) \cup Restarted \cup Released
<1>1. /\ \A u \in UDA : uda'.UDA_Rst_Cnt[u] =
                          IF u \in Restarted \cup Released THEN 0 ELSE RstCntNow(u)
      /\ req' = req \cup Accepted /\ done' = Set(done, S, 0)
      /\ UNCHANGED <<m_rst_info, flash, Reset_En, cause>>
  BY DEF HDecide, Decide, TypeOK, UDA_STR
<1>2. \A u \in UDA : uda.UDA_Rst_Cnt[u] \in Nat /\ done[u] \in Nat
  BY CountsNat DEF HistInv
<1>a. Restarted \cup Released \subseteq S
  OBVIOUS
<1> HIDE DEF S
<1>3. done' \in [UDA -> Nat] /\ \A u \in UDA : done'[u] = IF u \in S THEN 0 ELSE done[u]
  BY <1>1 DEF HistInv, Set
<1>4. Counts(uda.UDA_Rst_Cnt, req)'
  <2> SUFFICES ASSUME NEW u \in UDA
               PROVE  done'[u] + (IF u \in req' THEN 1 ELSE 0) <= uda'.UDA_Rst_Cnt[u] + 1
    BY DEF Counts
  <2>1. done[u] + (IF u \in req THEN 1 ELSE 0) <= uda.UDA_Rst_Cnt[u] + 1
    BY DEF HistInv, Counts
  <2>2. RstCntNow(u) \in Nat
        /\ RstCntNow(u) = uda.UDA_Rst_Cnt[u] + (IF u \in Accepted THEN 1 ELSE 0)
    BY <1>2 DEF RstCntNow
  <2>3. CASE u \in S
    <3>1. done'[u] = 0
      BY <1>3, <2>3
    <3>2. uda'.UDA_Rst_Cnt[u] \in Nat
      BY <1>1, <2>2
    <3> QED BY <3>1, <3>2
  <2>4. CASE u \notin S
    <3>1. done'[u] = done[u] /\ uda'.UDA_Rst_Cnt[u] = RstCntNow(u)
      BY <1>1, <1>3, <1>a, <2>4
    <3>2. u \in req' <=> u \in req \/ u \in Accepted
      BY <1>1
    <3> QED BY <1>2, <2>1, <2>2, <3>1, <3>2
  <2> QED BY <2>3, <2>4
<1>5. SavedCounts(m_rst_info)' /\ SavedCounts(flash)'
  BY <1>1, CountsNat, Forgotten DEF HistInv, SavedCounts, Counts
<1> QED BY <1>3, <1>4, <1>5 DEF HistInv

LEMMA HistBoot ==
    ASSUME TypeOK, HistInv, HBoot
    PROVE  HistInv'
<1>1. /\ uda' = RestoredUda(flash.UDA) /\ req' = {}
      /\ m_rst_info'.UDA = UDA_Zero /\ flash' = m_rst_info'
  BY DEF HBoot, Boot, InitRam, SetResetInfo, TypeOK, DownInfoSTR
<1>2. CASE flash.UDA.Reset_Code
  <2>1. uda'.UDA_Rst_Cnt = flash.UDA.UDA_Rst_Cnt
    BY <1>1, <1>2 DEF RestoredUda, TypeOK, DownInfoSTR, UDA_STR
  <2>2. done' = [u \in UDA |-> done[u] + (IF u \in cause THEN 1 ELSE 0)]
    BY <1>2 DEF HBoot
  <2>3. Counts(flash.UDA.UDA_Rst_Cnt, cause)
    BY <1>2 DEF HistInv, SavedCounts
  <2>4. done' \in [UDA -> Nat] /\ Counts(uda.UDA_Rst_Cnt, req)'
    BY <1>1, <2>1, <2>2, <2>3, CountsNat DEF HistInv, Counts
  <2> QED BY <1>1, <2>4 DEF HistInv, SavedCounts, UDA_Zero
<1>3. CASE ~flash.UDA.Reset_Code
  BY <1>1, <1>3 DEF HBoot, HistInv, SavedCounts, Counts, RestoredUda, UDA_Zero, ZeroOf
<1> QED BY <1>2, <1>3

LEMMA HistControl ==
    ASSUME TypeOK, HistInv, NEW v \in UDA, NEW m \in AR_Mode, HControl(v, m)
    PROVE  HistInv'
<1>1. /\ uda'.UDA_Rst_Cnt = [uda.UDA_Rst_Cnt EXCEPT ![v] = 0]
      /\ req' = req \ {v} /\ done' = [done EXCEPT ![v] = 0]
      /\ UNCHANGED <<m_rst_info, flash, Reset_En, cause>>
  BY DEF HControl, Use_UDA_Oper_Mode_Ctrl, TypeOK, UDA_STR
<1> DEFINE S == {v}
<1>2. done' = Set(done, S, 0)
  BY <1>1 DEF Set, HistInv
<1> HIDE DEF S
<1>3. Counts(uda.UDA_Rst_Cnt, req)' /\ done' \in [UDA -> Nat]
  BY <1>1, CountsNat DEF HistInv, Counts
<1>4. SavedCounts(m_rst_info)' /\ SavedCounts(flash)'
  BY <1>1, <1>2, CountsNat, Forgotten DEF HistInv, SavedCounts, Counts
<1> QED BY <1>3, <1>4 DEF HistInv

LEMMA HistOther ==
    ASSUME TypeOK, HistInv, HOther
    PROVE  HistInv'
<1>1. UNCHANGED <<uda, req, Reset_En, done, cause>>
  BY DEF HOther, hist, Halt, Proc_PSU_Reset, ForeignReset, Reboot, Crash
<1>2. m_rst_info'.UDA = m_rst_info.UDA /\ (flash' = flash \/ flash' = m_rst_info')
  BY DEF HOther, Halt, Proc_PSU_Reset, ForeignReset, Reboot, Crash, SetResetInfo,
         TypeOK, DownInfoSTR
<1> QED BY <1>1, <1>2 DEF HistInv, SavedCounts, Counts

LEMMA HistStep == TypeOK /\ HistInv /\ [HNext]_hvars => HistInv'
<1> SUFFICES ASSUME TypeOK, HistInv, [HNext]_hvars PROVE HistInv'
  OBVIOUS
<1>1. CASE HPass
  BY <1>1, HistReset, HistJudge, HistDecide DEF HPass
<1>2. CASE HTick
  BY <1>2 DEF HTick, Tick, HistInv, SavedCounts, Counts
<1>3. CASE HBoot \/ HOther
  BY <1>3, HistBoot, HistOther
<1>4. CASE \E u \in UDA, m \in AR_Mode : HControl(u, m)
  BY <1>4, HistControl
<1>5. CASE UNCHANGED hvars
  BY <1>5 DEF hvars, vars, hist, HistInv, SavedCounts, Counts
<1> QED BY <1>1, <1>2, <1>3, <1>4, <1>5 DEF HNext

\* The history only watches: its steps are the program's.
LEMMA HistoryWatches == [HNext]_hvars => [Next]_vars
BY DEF HNext, hvars, HPass, HReset, HJudge, HDecide, HTick, HBoot, HControl, HOther,
       Next, Pass

\* A source resets the unit at most once more than SUPPRESS_MAX allows before it starts
\* afresh, over any number of boots, crashes and resets of others.
THEOREM BoundedResets == HSpec => []ResetsBounded
<1>1. HInit => IInv /\ HistInv
  BY InitInv, HistInit DEF HInit
<1>2. IInv /\ HistInv /\ [HNext]_hvars => (IInv /\ HistInv)'
  BY NextInv, HistStep, HistoryWatches DEF IInv
<1>3. IInv /\ HistInv => ResetsBounded
  <2> SUFFICES ASSUME IInv, HistInv, NEW u \in UDA
               PROVE  done[u] <= SUPPRESS_MAX + 1
    BY DEF ResetsBounded
  <2>1. uda.UDA_Rst_Cnt[u] \in 0..SUPPRESS_MAX
    BY UdaFields DEF IInv, TypeOK
  <2>2. done[u] \in Nat /\ done[u] + (IF u \in req THEN 1 ELSE 0) <= uda.UDA_Rst_Cnt[u] + 1
    BY DEF HistInv, Counts
  <2> QED BY <2>1, <2>2, ConstNat
<1> QED BY <1>1, <1>2, <1>3, PTL DEF HSpec

-----------------------------------------------------------------------------
(* The suppression of the Clock source outlasts its alarm: the timer that  *)
(* ends it is not ahead of the one that asks for the next reset, or the    *)
(* alarm has not been there for longer than that one.                      *)

KeepTime == tm["Alm_Keep"]["Clock"]
OffTime == tm["Suppress_OFF"]["Clock"]

\* No alarm is kept that long but in the pass that judges it.
KeepShort == ~Down /\ (pc = "decide" \/ ~ticked \/ "Clock" \in req) => KeepTime < DIG_KEEP_Ref

Covered ==
    \/ OffTime <= KeepTime
    \/ on["Clock"] <= KeepTime
    \/ pc = "decide" /\ ("Clock" \in rst_f \/ "Clock" \notin InReset)

OffInv ==
    /\ on \in [UDA -> Nat]
    /\ KeepShort
    /\ ~Down /\ "Clock" \in uda.Rst_Suppress => Covered

LEMMA OffInit == HInit => OffInv
<1> SUFFICES ASSUME HInit PROVE OffInv
  OBVIOUS
<1>1. KeepTime = 0 /\ OffTime = 0
  BY DEF HInit, Init, KeepTime, OffTime, Timers, ZeroOf, UDA
<1>2. on \in [UDA -> Nat]
  BY DEF HInit, ZeroOf
<1> QED BY <1>1, <1>2, ConstNat DEF OffInv, KeepShort, Covered

LEMMA OffTypes ==
    ASSUME TypeOK, OffInv
    PROVE  /\ KeepTime \in Nat /\ OffTime \in Nat /\ on["Clock"] \in Nat
           /\ DIG_KEEP_Ref \in Nat \ {0} /\ Suppress_Off \in Nat \ {0}
           /\ uda \in UDA_STR /\ "Clock" \in UDA
<1>1. tm \in [Timers -> [UDA -> Nat]] /\ on \in [UDA -> Nat] /\ uda \in UDA_STR
  BY DEF TypeOK, OffInv
<1>2. "Clock" \in UDA /\ "Alm_Keep" \in Timers /\ "Suppress_OFF" \in Timers
  BY DEF UDA, Timers
<1>3. DIG_KEEP_Ref \in Nat \ {0} /\ Suppress_Off \in Nat \ {0}
  BY ConstAssumption
<1> QED BY <1>1, <1>2, <1>3 DEF KeepTime, OffTime

\* A step that leaves the timers, and what is suppressed.
LEMMA OffQuiet ==
    ASSUME OffInv, UNCHANGED <<mode, tm, on, rst_f, ticked>>, req' \subseteq req,
           uda'.Rst_Suppress \subseteq uda.Rst_Suppress,
           pc' = pc \/ pc' \in {"off", "wdt"} \/ (pc = "rst" /\ pc' = "auto")
    PROVE  OffInv'
<1>1. KeepTime' = KeepTime /\ OffTime' = OffTime /\ InReset' = InReset
  BY DEF KeepTime, OffTime, InReset
<1>2. Down' \/ (pc' = pc /\ ~Down) \/ (pc = "rst" /\ pc' = "auto")
  BY DEF Down
<1>3. KeepShort'
  BY <1>1, <1>2 DEF OffInv, KeepShort, Down
<1>4. Covered /\ ~Down' => Covered'
  BY <1>1, <1>2 DEF Covered
<1> QED BY <1>1, <1>2, <1>3, <1>4 DEF OffInv, Down

LEMMA OffJudge ==
    ASSUME TypeOK, OffInv, NEW a \in SUBSET Sources, HJudge(a)
    PROVE  OffInv'
<1>0. /\ pc = "auto" /\ pc' = "decide" /\ UNCHANGED <<mode, ticked>>
      /\ tm' = TimersJudged(a) /\ req' = ReqKept
      /\ rst_f' = (TooMany(a) \cup Kept(a)) \cap InReset
      /\ uda'.Rst_Suppress = uda.Rst_Suppress \ InitReq
      /\ on' = Set(on, UDA \ a, 0)
  BY DEF HJudge, Judge, TypeOK, UDA_STR
<1>1. /\ KeepTime \in Nat /\ OffTime \in Nat /\ on["Clock"] \in Nat
      /\ DIG_KEEP_Ref \in Nat \ {0} /\ "Clock" \in UDA
  BY OffTypes
<1>2. on' \in [UDA -> Nat] /\ on'["Clock"] = IF "Clock" \in a THEN on["Clock"] ELSE 0
  BY <1>0, <1>1 DEF OffInv, Set
<1>3. OffTime' = OffTime
  BY <1>0 DEF OffTime, TimersJudged, TypeOK, Timers
<1>4. KeepTime' = IF "Clock" \in Watched \ KeepRuns(a) THEN 0 ELSE TmAfterInit("Alm_Keep", "Clock")
  <2>1. tm'["Alm_Keep"] = [u \in UDA |->
            IF u \in Watched \ KeepRuns(a) THEN 0 ELSE TmAfterInit("Alm_Keep", u)]
    BY <1>0 DEF TimersJudged, TypeOK, Timers
  <2> QED BY <1>1, <2>1 DEF KeepTime
<1>5. TmAfterInit("Alm_Keep", "Clock") = IF "Clock" \in InitReq THEN 0 ELSE KeepTime
  BY DEF TmAfterInit, KeepTime
<1>6. KeepTime' < DIG_KEEP_Ref
  <2>1. CASE "Clock" \in InitReq \/ "Clock" \in Watched \ KeepRuns(a)
    BY <1>1, <1>4, <1>5, <2>1
  <2>2. CASE "Clock" \in KeepRuns(a)
    <3>1. TmAfterInit("Alm_Keep", "Clock") < DIG_KEEP_Ref
      BY <1>1, <1>5, <2>2 DEF KeepRuns, Kept
    <3> QED BY <1>4, <2>2, <3>1
  <2>3. CASE "Clock" \notin Watched /\ "Clock" \notin InitReq
    <3>1. "Clock" \in req
      BY <1>1, <2>3 DEF Watched, ReqKept, InitReq
    <3> QED BY <1>0, <1>4, <1>5, <2>3, <3>1 DEF OffInv, KeepShort, Down
  <2> QED BY <2>1, <2>2, <2>3
<1>7. ASSUME "Clock" \in uda'.Rst_Suppress PROVE Covered'
  <2>1. "Clock" \in uda.Rst_Suppress /\ "Clock" \notin InitReq
    BY <1>0, <1>7
  <2>2. OffTime <= KeepTime \/ on["Clock"] <= KeepTime
    BY <1>0, <2>1 DEF OffInv, Covered, Down
  <2>3. CASE "Clock" \notin a
    <3>1. on'["Clock"] <= KeepTime'
      BY <1>1, <1>2, <1>4, <1>5, <2>3
    <3> QED BY <3>1 DEF Covered
  <2>4. CASE "Clock" \in Kept(a)
    <3>1. "Clock" \in rst_f' \/ "Clock" \notin InReset'
      BY <1>0, <2>4 DEF InReset
    <3> QED BY <1>0, <3>1 DEF Covered
  <2>5. CASE "Clock" \in a /\ "Clock" \notin Kept(a)
    <3>1. KeepTime' = KeepTime
      BY <1>4, <1>5, <2>1, <2>5 DEF KeepRuns
    <3> QED BY <1>2, <1>3, <2>2, <2>5, <3>1 DEF Covered
  <2> QED BY <2>3, <2>4, <2>5
<1> QED BY <1>2, <1>6, <1>7 DEF OffInv, KeepShort

LEMMA OffDecide ==
    ASSUME TypeOK, OffInv, HDecide
    PROVE  /\ OffInv'
           /\ "Clock" \in Released => on["Clock"] < DIG_KEEP_Ref
<1>0. /\ pc = "decide" /\ pc' = "rst" /\ UNCHANGED <<mode, on>>
      /\ uda'.Rst_Suppress = (uda.Rst_Suppress \ (Idle \cup Released)) \cup Suppressed
      /\ req' = req \cup Accepted
      /\ tm'["Alm_Keep"] = Set(tm["Alm_Keep"], rst_f, 0)
      /\ tm'["Suppress_OFF"] = Set(tm["Suppress_OFF"], Idle \cup Suppressed \cup Rejected, 0)
  BY DEF HDecide, Decide, TypeOK, UDA_STR, Timers
<1>1. /\ KeepTime \in Nat /\ OffTime \in Nat /\ on["Clock"] \in Nat
      /\ DIG_KEEP_Ref \in Nat \ {0} /\ Suppress_Off \in Nat \ {0} /\ "Clock" \in UDA
  BY OffTypes
<1>2. /\ KeepTime' = IF "Clock" \in rst_f THEN 0 ELSE KeepTime
      /\ OffTime' = IF "Clock" \in Idle \cup Suppressed \cup Rejected THEN 0 ELSE OffTime
  BY <1>0, <1>1 DEF KeepTime, OffTime, Set
<1>3. KeepTime < DIG_KEEP_Ref
  BY <1>0 DEF OffInv, KeepShort, Down
<1>4. ASSUME "Clock" \in uda.Rst_Suppress, "Clock" \in rst_f PROVE "Clock" \in Rejected
  BY <1>4 DEF Rejected, Chosen
<1>5. KeepTime' \in Nat /\ KeepTime' < DIG_KEEP_Ref
  BY <1>1, <1>2, <1>3
<1>6. ASSUME "Clock" \in uda'.Rst_Suppress PROVE Covered'
  <2>1. CASE "Clock" \in Suppressed \cup Rejected
    <3>1. OffTime' = 0
      BY <1>2, <2>1
    <3> QED BY <1>5, <3>1 DEF Covered
  <2>2. CASE "Clock" \notin Suppressed \cup Rejected
    <3>1. "Clock" \in uda.Rst_Suppress /\ "Clock" \notin Idle /\ "Clock" \notin rst_f
      BY <1>0, <1>4, <1>6, <2>2
    <3>2. "Clock" \in InReset
      BY <1>1, <3>1 DEF Idle
    <3>3. OffTime <= KeepTime \/ on["Clock"] <= KeepTime
      BY <1>0, <3>1, <3>2 DEF OffInv, Covered, Down
    <3> QED BY <1>0, <1>2, <2>2, <3>1, <3>3 DEF Covered
  <2> QED BY <2>1, <2>2
<1>7. ASSUME "Clock" \in Released PROVE on["Clock"] < DIG_KEEP_Ref
  <2>1. "Clock" \in uda.Rst_Suppress /\ "Clock" \notin Idle /\ OffNow("Clock") >= Suppress_Off
    BY <1>7 DEF Released
  <2>2. "Clock" \in InReset
    BY <1>1, <2>1 DEF Idle
  <2>3. "Clock" \notin Rejected /\ OffTime >= Suppress_Off
    BY <1>1, <2>1 DEF OffNow, OffTime
  <2>4. "Clock" \notin rst_f
    BY <1>4, <2>1, <2>3
  <2>5. OffTime <= KeepTime \/ on["Clock"] <= KeepTime
    BY <1>0, <2>1, <2>2, <2>4 DEF OffInv, Covered, Down
  <2> QED BY <1>1, <1>3, <2>3, <2>5, TimesAssumption
<1>8. on' \in [UDA -> Nat]
  BY <1>0 DEF OffInv
<1> QED BY <1>5, <1>6, <1>7, <1>8 DEF OffInv, KeepShort

LEMMA OffTick ==
    ASSUME TypeOK, OffInv, HTick
    PROVE  OffInv'
<1>0. /\ pc = "rst" /\ ~ticked /\ ticked' /\ req = {} /\ UNCHANGED <<mode, uda, req, pc, rst_f>>
      /\ tm' = [t \in Timers |-> [u \in UDA |-> Least(tm[t][u] + 1, Limit(t))]]
      /\ on' = [u \in UDA |-> Least(on[u] + 1, DIG_KEEP_Ref)]
  BY DEF HTick, Tick
<1>1. /\ KeepTime \in Nat /\ OffTime \in Nat /\ on["Clock"] \in Nat
      /\ DIG_KEEP_Ref \in Nat \ {0} /\ Suppress_Off \in Nat \ {0} /\ "Clock" \in UDA
  BY OffTypes
<1>2. KeepTime < DIG_KEEP_Ref
  BY <1>0 DEF OffInv, KeepShort, Down
<1>3. Limit("Alm_Keep") = DIG_KEEP_Ref /\ Limit("Suppress_OFF") = Suppress_Off
  BY DEF Limit
<1>4. /\ KeepTime' = KeepTime + 1
      /\ OffTime' <= OffTime + 1 /\ OffTime' \in Nat
      /\ on'["Clock"] <= on["Clock"] + 1 /\ on'["Clock"] \in Nat
  <2>1. KeepTime' = Least(KeepTime + 1, DIG_KEEP_Ref) /\ OffTime' = Least(OffTime + 1, Suppress_Off)
    BY <1>0, <1>1, <1>3 DEF KeepTime, OffTime, Timers
  <2>2. on'["Clock"] = Least(on["Clock"] + 1, DIG_KEEP_Ref)
    BY <1>0, <1>1
  <2> QED BY <1>1, <1>2, <2>1, <2>2 DEF Least
<1>5. on' \in [UDA -> Nat]
  BY <1>0, <1>1 DEF OffInv, Least
<1>6. KeepShort'
  BY <1>0 DEF KeepShort, Down
<1>7. Covered => Covered'
  BY <1>0, <1>1, <1>4 DEF Covered
<1> QED BY <1>0, <1>5, <1>6, <1>7 DEF OffInv, Down

LEMMA OffBoot ==
    ASSUME TypeOK, OffInv, HBoot
    PROVE  OffInv'
<1>1. /\ tm' = [t \in Timers |-> ZeroOf(UDA)] /\ UNCHANGED on
      /\ pc' = "rst" /\ ticked' /\ req' = {}
  BY DEF HBoot, Boot, InitRam
<1>2. KeepTime' = 0 /\ OffTime' = 0
  BY <1>1 DEF KeepTime, OffTime, Timers, UDA, ZeroOf
<1> QED BY <1>1, <1>2 DEF OffInv, KeepShort, Covered

LEMMA OffControl ==
    ASSUME TypeOK, OffInv, NEW v \in UDA, NEW m \in AR_Mode, HControl(v, m)
    PROVE  OffInv'
<1>0. /\ mode' = [mode EXCEPT ![v] = m]
      /\ uda'.Rst_Suppress = uda.Rst_Suppress \ {v}
      /\ tm' = [tm EXCEPT !["Alm_Cnt"][v] = 0, !["Alm_Keep"][v] = 0]
      /\ req' = req \ {v}
      /\ UNCHANGED <<pc, rst_f, ticked, on>>
  BY DEF HControl, Use_UDA_Oper_Mode_Ctrl, TypeOK, UDA_STR
<1>1. /\ KeepTime \in Nat /\ OffTime \in Nat /\ on["Clock"] \in Nat
      /\ DIG_KEEP_Ref \in Nat \ {0} /\ "Clock" \in UDA
  BY OffTypes
<1>2. KeepTime' = (IF v = "Clock" THEN 0 ELSE KeepTime) /\ OffTime' = OffTime
  BY <1>0, <1>1 DEF KeepTime, OffTime, TypeOK, Timers
<1>3. KeepShort'
  BY <1>0, <1>1, <1>2 DEF OffInv, KeepShort, Down
<1>4. ASSUME ~Down', "Clock" \in uda'.Rst_Suppress PROVE Covered'
  <2>1. v # "Clock" /\ Covered
    BY <1>0, <1>4 DEF OffInv, Down
  <2>2. "Clock" \in InReset' <=> "Clock" \in InReset
    BY <1>0, <1>1, <2>1 DEF InReset, TypeOK
  <2> QED BY <1>0, <1>2, <2>1, <2>2 DEF Covered
<1> QED BY <1>0, <1>3, <1>4 DEF OffInv

LEMMA OffStep ==
    ASSUME TypeOK, OffInv, [HNext]_hvars
    PROVE  /\ OffInv'
           /\ (pc = "decide" /\ pc' = "rst" /\ "Clock" \in Released) => on["Clock"] < DIG_KEEP_Ref
<1>1. CASE HReset
  <2>1. /\ UNCHANGED <<mode, tm, on, rst_f, ticked, req>> /\ pc = "rst" /\ pc' = "auto"
        /\ uda'.Rst_Suppress = uda.Rst_Suppress
    BY <1>1 DEF HReset, Proc___Reset_By_UDA, TypeOK, UDA_STR
  <2> QED BY <2>1, OffQuiet
<1>2. ASSUME NEW a \in SUBSET Sources, HJudge(a) PROVE OffInv' /\ pc = "auto"
  BY <1>2, OffJudge DEF HJudge, Judge
<1>3. CASE HDecide
  BY <1>3, OffDecide
<1>4. CASE HTick
  BY <1>4, OffTick DEF HTick, Tick
<1>5. CASE HBoot
  BY <1>5, OffBoot DEF HBoot, Boot, Down
<1>6. CASE HOther
  <2>1. /\ UNCHANGED <<mode, tm, on, rst_f, ticked, req, uda>>
        /\ pc' = pc \/ pc' \in {"off", "wdt"}
    BY <1>6 DEF HOther, hist, Halt, Proc_PSU_Reset, ForeignReset, Reboot, Crash
  <2>2. req' \subseteq req /\ uda'.Rst_Suppress \subseteq uda.Rst_Suppress
    BY <2>1
  <2>3. OffInv'
    BY <2>1, <2>2, OffQuiet
  <2> QED BY <2>1, <2>3
<1>7. ASSUME NEW v \in UDA, NEW m \in AR_Mode, HControl(v, m) PROVE OffInv' /\ pc' = pc
  BY <1>7, OffControl DEF HControl, Use_UDA_Oper_Mode_Ctrl
<1>8. CASE UNCHANGED hvars
  <2>1. UNCHANGED <<mode, tm, on, rst_f, ticked, req, uda, pc>>
    BY <1>8 DEF hvars, vars, hist
  <2>2. req' \subseteq req /\ uda'.Rst_Suppress \subseteq uda.Rst_Suppress
    BY <2>1
  <2>3. OffInv'
    BY <2>1, <2>2, OffQuiet
  <2> QED BY <2>1, <2>3
<1> QED BY <1>1, <1>2, <1>3, <1>4, <1>5, <1>6, <1>7, <1>8 DEF HNext, HPass

\* The suppression of the Clock source never ends while its alarm lasts, for any number
\* of resets, boots, crashes and mode changes: an alarm that lasts is rejected, and each
\* rejection restarts the time, before the suppression is over.
THEOREM SuppressedThroughout == HSpec => ReleaseNotDuringAlarm
<1>1. HInit => IInv /\ OffInv
  BY InitInv, OffInit DEF HInit
<1>2. IInv /\ OffInv /\ [HNext]_hvars => (IInv /\ OffInv)'
  BY NextInv, OffStep, HistoryWatches DEF IInv
<1>3. IInv /\ OffInv /\ [HNext]_hvars
        => [(pc = "decide" /\ pc' = "rst" /\ "Clock" \in Released)
              => on["Clock"] < DIG_KEEP_Ref]_hvars
  BY OffStep DEF IInv
<1> QED BY <1>1, <1>2, <1>3, PTL DEF HSpec, ReleaseNotDuringAlarm
=============================================================================
