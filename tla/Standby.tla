------------------------------- MODULE Standby -------------------------------
(***************************************************************************)
(* Who may switch an amplifier on and off.  The alarm task runs MIMO       *)
(* standby (Proc_MIMO_Standby), AMP standby (Proc_AMP_Standby) and the     *)
(* battery saving of an AC failure (Proc_AC_Fail_Batt_Save); the task of   *)
(* each amplifier (PAU_comm.c) follows them and the operator, whose        *)
(* commands come on the communication thread.  They share, without a lock, *)
(* the states, delays and requests of the two standby algorithms and the   *)
(* mark StdBy_Off_rsn that shuts the path of an amplifier in the DTU.      *)
(*                                                                         *)
(* Amps are the amplifiers 2 to 4, those MIMO standby is for; amplifier 1, *)
(* the lead, is known by what the algorithms read of it.  The unit has     *)
(* started up, every amplifier is in use and none has shut itself down.  A *)
(* call of an algorithm, and each of the stages of an amplifier's loop, is *)
(* a step.  A timer that runs may have run out in any call.                *)
(* A pass that only takes note of new times, and the passes of the first   *)
(* minute, are left out; the operator's command is one step.               *)
(***************************************************************************)
EXTENDS Naturals

CONSTANTS
    Amps,       \* the amplifiers but the lead
    MaxEvents   \* bound on what operator, clock, mains and lead do and on the
                \* answers of an amplifier that are lost

ASSUME StandbyAssumption == MaxEvents \in Nat

VARIABLES
    on,         \* the amplifiers that are on
    seen,       \* amp_on_conti_cnt; m_St.Pwr_Amp_En is ON at 2
    disabled,   \* AlmSt.Path[].PAU.Disabled
    pau,        \* the stage the task of an amplifier is at
    st,         \* MIMO_Stdby_St, AMP_Stdby_St
    dly,        \* Mimo_Stdby_St_Dly_REQ, AMP_Stdby_St_Dly_REQ
    req,        \* Mimo_Stby_Ctrl_Req, AMP_Stby_Off_Req
    bk,         \* Mimo_Stby_Bk_AMP_St, AMP_Stby_Bk_AMP_St: ON
    sync,       \* MIMO_Stdby_Sync, AMP_Stdby_Sync
    rsn,        \* StdBy_Off_rsn
    chosen,     \* m_Eep.MIMO_Stdby_Mode_Onoff, m_Eep.AMP_Stdby_Mode_Onoff
    enabled,    \* m_St.MIMO_Stdby_Enable, m_St.AMP_Stdby_Enable
    wasOn,      \* f_mode_onoff_Prev, AMP_Stdby_En_Prev
    wasIn,      \* f_In_Time_Prev, f_Amp_In_Time_Prev
    changed,    \* times or path set since the last call of the algorithm
    exiting,    \* ALL_AMP_Standby_Exit_Req
    wasLayer,   \* layer_mode_prev
    reOn,       \* AC_Normal__MIMO_Stdby_Re_ON_Req, ..AMP_Stdby_Re_ON_Req
    acExt,      \* AC_Extension_St
    batt,       \* m_St.Batt_Ext_Mode_St
    acAmp,      \* AC_Fail_Ctrl_Req, _AC_F_AMP_REQ
    acAtt,      \* AC_Fail_Ctrl_Req, _AC_F_ATT_REQ
    att,        \* amplifiers attenuated by 3 dB more
    user,       \* m_Eep.Pwr_Amp_En: ON
    path,       \* Amp_Stdby_Use
    layer,      \* m_Eep.Layer_Mode
    window,     \* the algorithms whose time of day it is
    lead,       \* amplifier 1: off, with an alarm, by its output power
    ac, ext,    \* AlmSt.A_0.AC, m_Eep.Batt_Ext_Mode_Onoff
    env, lost   \* what has happened, and the answers lost

amp == <<on, seen, disabled, lost>>
algo == <<st, dly, req, bk>>
mem == <<wasOn, wasIn, changed, exiting, wasLayer>>
acs == <<acExt, batt, acAmp, acAtt, att, reOn>>
modes == <<chosen, enabled>>
given == <<user, path, layer, window, lead, ac, ext, env>>
vars == <<amp, pau, algo, sync, rsn, modes, mem, acs, given>>

Algos == {"mimo", "amp"}
Other(m) == IF m = "mimo" THEN "amp" ELSE "mimo"
Stages == <<"poll", "ac", "mimo", "amp", "user">>

-----------------------------------------------------------------------------
(* What an amplifier is told and what it reports                           *)

\* Recv_PAU_Status: on only at the second report; Disabled is not raised
\* while there is an AC alarm
Heard(A) ==
    /\ seen' = [p \in Amps |->
                  IF p \notin A THEN seen[p]
                  ELSE IF p \notin on' THEN 0
                  ELSE IF seen[p] = 2 THEN 2 ELSE seen[p] + 1]
    /\ disabled' = {p \in Amps : IF p \in A
                       THEN seen'[p] < 2 /\ (~ac \/ p \in disabled)
                       ELSE p \in disabled}

\* PAU_Send_Data of AMP_CMD_EN to E and of AMP_CMD_DIS to D.  No answer from
\* Lost; Undone have not had the command either.
Send(E, D) == \E Lost \in SUBSET (E \cup D) : \E Undone \in SUBSET Lost :
    /\ IF Lost = {} THEN UNCHANGED lost ELSE env + lost < MaxEvents /\ lost' = lost + 1
    /\ on' = (on \cup (E \ Undone)) \ (D \ Undone)
    /\ Heard((E \cup D) \ Lost)

\* AMP_Alarm_St, PAU_FWD_AMP_St
AlarmOn(p) == p \notin disabled

\* StandBy_PAU_EN_Ctrl, AC_Fail_PAU_EN_Ctrl
Switch(E, D) == Send(E, D) /\ rsn' = (rsn \ E) \cup D

\* IS__Standby_Status
InStandby(p) == \E m \in Algos : p \in st[m] \cup dly[m]

\* The guards of PAU_EN_Ctrl and PRU_User_AMP_EN_Ctrl
Controllable(p) ==
    /\ p \notin acAmp
    /\ ~InStandby(p)
    /\ p \notin req["mimo"]
    /\ "amp" \in enabled => p \notin req["amp"]

UserSwitch(p, want) ==
    IF Controllable(p)
      THEN /\ Send(IF want THEN {p} ELSE {}, IF want THEN {} ELSE {p})
           /\ rsn' = IF want THEN rsn \ {p} ELSE rsn
      ELSE UNCHANGED <<amp, rsn>>

-----------------------------------------------------------------------------
(* MIMO standby, called once a second                                      *)

Synced(m) == sync' = [sync EXCEPT ![m] = Amps]

\* f[m] without S and with T
Put(f, m, S, T) == [f EXCEPT ![m] = (@ \ S) \cup T]

MimoDlyKept(over) == dly["mimo"]     \* mutation: never over
MimoDly(over) == IF over THEN {} ELSE dly["mimo"]

\* The layer or the times were changed under standby: the mode is given up
MimoDropped(over) ==
    /\ st["mimo"] # {}
    /\ wasLayer # layer \/ "mimo" \in changed
    /\ chosen' = chosen \ {"mimo"} /\ enabled' = enabled \ {"mimo"}
    /\ IF wasLayer # layer THEN wasLayer' = layer /\ UNCHANGED changed
                           ELSE changed' = changed \ {"mimo"} /\ UNCHANGED wasLayer
    /\ dly' = [dly EXCEPT !["mimo"] = MimoDly(over)]
    /\ UNCHANGED <<amp, st, req, bk, sync, rsn, wasOn, wasIn, exiting>>

MimoGoesOn ==
    /\ st["mimo"] = {} \/ (wasLayer = layer /\ "mimo" \notin changed)
    /\ changed' = changed \ {"mimo"} /\ wasLayer' = layer
    /\ Synced("mimo")
    /\ UNCHANGED <<modes, exiting>>

\* standby_quit_req
Quit == layer # "mimo" \/ lead = "off"

\* Mode off, one layer, or the lead off.  With one layer pair[] has not been
\* set: the amplifiers named in it are any.
MimoOff(over) ==
    LET left == IF Quit THEN st["mimo"] ELSE {}
        turned == wasLayer # layer \/ ("mimo" \in wasOn) # ("mimo" \in enabled)
    IN
    /\ "mimo" \notin enabled \/ Quit
    /\ MimoGoesOn
    /\ IF turned
         THEN \E pair \in IF layer = "mimo" THEN {Amps} ELSE SUBSET Amps :
                LET back == (st["mimo"] \ left) \cap pair IN
                /\ bk' = Put(bk, "mimo", pair, user \cap pair)
                /\ req' = Put(req, "mimo", {}, back)
                /\ Switch(back \cap user, back \ user)
                /\ st' = Put(st, "mimo", left \cup back, {})
                /\ dly' = [dly EXCEPT !["mimo"] = MimoDly(over) \cup left \cup back]
                /\ wasOn' = (wasOn \ {"mimo"}) \cup (enabled \cap {"mimo"})
                /\ wasIn' = wasIn \ {"mimo"}
         ELSE /\ st' = Put(st, "mimo", left, {})
              /\ dly' = [dly EXCEPT !["mimo"] = MimoDly(over) \cup left]
              /\ UNCHANGED <<amp, rsn, req, bk, wasOn, wasIn>>

MimoOn ==
    /\ "mimo" \in enabled /\ ~Quit
    /\ MimoGoesOn
    /\ wasOn' = wasOn \cup {"mimo"}

MimoAcFail(over) ==
    /\ MimoOn /\ acExt
    /\ dly' = [dly EXCEPT !["mimo"] = MimoDly(over)]
    /\ UNCHANGED <<amp, st, req, bk, rsn, wasIn>>

\* Out of the time of MIMO standby
MimoOut(over) ==
    LET back == IF "mimo" \in wasIn THEN st["mimo"] ELSE {} IN
    /\ MimoOn /\ ~acExt /\ "mimo" \notin window
    /\ bk' = IF "mimo" \in wasIn THEN [bk EXCEPT !["mimo"] = user] ELSE bk
    /\ req' = Put(req, "mimo", {}, back)
    /\ Switch(back \cap user, back \ user)
    /\ st' = [st EXCEPT !["mimo"] = {}]
    /\ dly' = [dly EXCEPT !["mimo"] = MimoDly(over) \cup back]
    /\ wasIn' = wasIn \ {"mimo"}

\* In its time: off below the level for 10 s, on again above the other for
\* 1 s (due), left if the lead has an alarm or the operator has it off
MimoIn(over, due) ==
    LET first == "mimo" \notin wasIn
        held == IF first THEN {} ELSE st["mimo"]
        wanted == IF lead = "bad" THEN {} ELSE user
        enter == {p \in (wanted \cap due) \ held : AlarmOn(p) /\ lead = "low"}
        leave == {p \in wanted \cap due \cap held : ~AlarmOn(p) /\ lead = "high"}
        drop == held \ wanted
    IN
    /\ MimoOn /\ ~acExt /\ "mimo" \in window
    /\ bk' = [bk EXCEPT !["mimo"] = IF first THEN user ELSE @ \cup leave]
    /\ req' = Put(req, "mimo", {}, enter \cup leave)
    /\ Switch(leave, enter)
    /\ st' = [st EXCEPT !["mimo"] = (held \cup enter) \ (leave \cup drop)]
    /\ dly' = [dly EXCEPT !["mimo"] =
                 (IF first THEN {} ELSE MimoDly(over)) \cup leave \cup drop]
    /\ wasIn' = wasIn \cup {"mimo"}

\* Proc_MIMO_Standby
MimoPass(over, due) ==
    /\ \/ MimoDropped(over)
       \/ MimoOff(over)
       \/ MimoAcFail(over)
       \/ MimoOut(over)
       \/ MimoIn(over, due)
    /\ UNCHANGED <<pau, acs, given>>

-----------------------------------------------------------------------------
(* AMP standby, called once a second                                       *)

\* Sum_AMP_Stdby_St
AmpSum == path \cap (st["amp"] \cup dly["amp"]) # {}
AmpDly(over) == IF over THEN {} ELSE dly["amp"]

\* 10 s after all left standby
AmpExiting(over) ==
    /\ exiting
    /\ exiting' = ~over
    /\ dly' = [dly EXCEPT !["amp"] = AmpDly(over)]
    /\ Synced("amp")
    /\ UNCHANGED <<amp, st, req, bk, rsn, modes, wasOn, wasIn, changed>>

\* The times or the path were changed under standby: the mode is given up
AmpDropped(over) ==
    /\ ~exiting /\ AmpSum /\ "amp" \in changed
    /\ chosen' = chosen \ {"amp"} /\ enabled' = enabled \ {"amp"}
    /\ changed' = changed \ {"amp"}
    /\ dly' = [dly EXCEPT !["amp"] = AmpDly(over)]
    /\ Synced("amp")
    /\ UNCHANGED <<amp, st, req, bk, rsn, wasOn, wasIn, exiting>>

AmpGoesOn ==
    /\ ~exiting /\ ~(AmpSum /\ "amp" \in changed)
    /\ changed' = changed \ {"amp"}
    /\ UNCHANGED modes

\* Amp_Stdby_Mode_Exit
AmpExit(over) ==
    /\ dly' = [dly EXCEPT !["amp"] = AmpDly(over) \cup (path \cap st["amp"])]
    /\ st' = [st EXCEPT !["amp"] = {}]

\* AMP_User_Ctrl_Restore
AmpRestore == bk' = Put(bk, "amp", path, user \cap path)

AmpOff(over) ==
    /\ "amp" \notin enabled
    /\ AmpGoesOn /\ Synced("amp")
    /\ IF "amp" \in wasOn
         THEN /\ AmpExit(over) /\ AmpRestore
              /\ wasOn' = wasOn \ {"amp"} /\ wasIn' = wasIn \ {"amp"}
              /\ exiting' = TRUE
         ELSE /\ dly' = [dly EXCEPT !["amp"] = AmpDly(over)]
              /\ UNCHANGED <<st, bk, wasOn, wasIn, exiting>>
    /\ UNCHANGED <<amp, req, rsn>>

AmpOn ==
    /\ "amp" \in enabled
    /\ AmpGoesOn
    /\ wasOn' = wasOn \cup {"amp"}

AmpAcFail(over) ==
    /\ AmpOn /\ acExt
    /\ dly' = [dly EXCEPT !["amp"] = AmpDly(over)]
    /\ UNCHANGED <<amp, st, req, bk, sync, rsn, wasIn, exiting>>

\* Out of the time of AMP standby
AmpOut(over) ==
    /\ AmpOn /\ ~acExt /\ "amp" \notin window
    /\ Synced("amp")
    /\ AmpExit(over)
    /\ IF "amp" \in wasIn THEN AmpRestore /\ exiting' = TRUE
                          ELSE UNCHANGED <<bk, exiting>>
    /\ wasIn' = wasIn \ {"amp"}
    /\ UNCHANGED <<amp, req, rsn>>

\* In its time, but a digital alarm holds it up (Is_Skip_AMP_Std)
AmpSkip(over) ==
    /\ AmpOn /\ ~acExt /\ "amp" \in window
    /\ ~AmpSum
    /\ Synced("amp")
    /\ IF "amp" \in wasIn
         THEN /\ dly' = [dly EXCEPT !["amp"] = AmpDly(over)]
              /\ UNCHANGED <<st, bk>>
         ELSE AmpExit(over) /\ AmpRestore
    /\ UNCHANGED <<amp, req, rsn, wasIn, exiting>>

\* In its time: those of the path that are on are switched off
AmpIn(over) ==
    LET first == "amp" \notin wasIn
        held == IF first THEN {} ELSE st["amp"]
        off == {p \in path : AlarmOn(p)}
    IN
    /\ AmpOn /\ ~acExt /\ "amp" \in window
    /\ Synced("amp")
    /\ IF first THEN AmpRestore ELSE UNCHANGED bk
    /\ st' = [st EXCEPT !["amp"] = path]
    /\ dly' = [dly EXCEPT !["amp"] =
                 AmpDly(over) \cup (IF first THEN path \cap st["amp"] ELSE {})
                              \cup (held \ path)]
    /\ req' = Put(req, "amp", {}, off)
    /\ Switch({}, off)
    /\ wasIn' = wasIn \cup {"amp"}
    /\ UNCHANGED exiting

\* Proc_AMP_Standby
AmpPass(over, dig) ==
    /\ \/ AmpExiting(over)
       \/ AmpDropped(over)
       \/ AmpOff(over)
       \/ AmpAcFail(over)
       \/ AmpOut(over)
       \/ dig /\ AmpSkip(over)
       \/ (~dig \/ AmpSum) /\ AmpIn(over)
    /\ UNCHANGED <<pau, wasLayer, acs, given>>

-----------------------------------------------------------------------------
(* Battery saving, Proc_AC_Fail_Batt_Save                                  *)

Saving == ext /\ ac /\ (layer = "mimo" => lead # "off")
SeenOn == {p \in Amps : seen[p] = 2}

\* operation_en is 0: 5 s later (over) the AC is taken for normal.  The mode
\* that was chosen is to be enabled again.
AcIdleForgets(over) ==     \* mutation: the mode set aside is forgotten
    /\ ~Saving
    /\ acExt' = (acExt /\ ~over)
    /\ batt' = FALSE
    /\ UNCHANGED <<amp, rsn, modes, acAmp, acAtt, att, reOn>>

AcIdle(over) ==
    /\ ~Saving
    /\ acExt' = (acExt /\ ~over)
    /\ batt' = FALSE
    /\ reOn' = reOn \cup {m \in Algos : chosen = {m} /\ m \notin enabled}
    /\ UNCHANGED <<amp, rsn, modes, acAmp, acAtt, att>>

\* A mode is set aside unless the other one is chosen too
NoneSetAside == enabled     \* mutation: standby goes on
StillEnabled == {m \in enabled : Other(m) \in chosen}

\* Both standby algorithms give way; from 30 s on (over) the amplifiers are
\* switched off or attenuated
AcSave(over) ==
    /\ Saving
    /\ acExt' = TRUE
    /\ enabled' = StillEnabled
    /\ batt' = (batt \/ over)
    /\ UNCHANGED <<chosen, reOn>>
    /\ \/ /\ ~batt'
          /\ UNCHANGED <<amp, rsn, acAmp, acAtt, att>>
       \/ /\ batt' /\ layer = "mimo"
          /\ acAmp' = acAmp \cup SeenOn
          /\ Switch({}, SeenOn)
          /\ UNCHANGED <<acAtt, att>>
       \/ /\ batt' /\ layer # "mimo"
          /\ acAtt' = acAtt \cup SeenOn
          /\ att' = att \cup (SeenOn \ acAtt)
          /\ acAmp' = acAmp \ SeenOn
          /\ Switch(acAmp \ SeenOn, {})

AcPass(over) ==
    /\ AcIdle(over) \/ AcSave(over)
    /\ UNCHANGED <<pau, algo, sync, mem, given>>

\* AC_Normal_Std_Mode_Restart_Chk, 15 s after the request
Restart(m) ==
    /\ m \in reOn
    /\ reOn' = reOn \ {m}
    /\ enabled' = enabled \cup (chosen \cap {m})
    /\ UNCHANGED <<amp, pau, algo, sync, rsn, chosen, mem, given>>
    /\ UNCHANGED <<acExt, batt, acAmp, acAtt, att>>

-----------------------------------------------------------------------------
(* The task of an amplifier                                                *)

At(p, s, t) == pau[p] = s /\ pau' = [pau EXCEPT ![p] = t]

Poll(p) ==
    /\ At(p, "poll", "ac")
    /\ UNCHANGED <<on, lost>>
    /\ Heard({p})
    /\ UNCHANGED <<algo, sync, rsn, modes, mem, acs, given>>

\* AC_Fail_AMP_Proc: saving has ended, the amplifier is switched on first,
\* then its attenuation is set back
AcProc(p) ==
    /\ At(p, "ac", "mimo")
    /\ \/ /\ ~batt /\ p \in acAmp /\ seen[p] < 2
          /\ Switch({p}, {})
          /\ UNCHANGED <<acAmp, acAtt, att>>
       \/ /\ ~batt /\ p \in acAmp /\ seen[p] = 2
          /\ acAmp' = acAmp \ {p}
          /\ rsn' = IF p \in acAtt THEN rsn ELSE rsn \ {p}
          /\ UNCHANGED <<amp, acAtt, att>>
       \/ /\ ~batt /\ p \in acAtt \ acAmp /\ p \in att
          /\ att' = att \ {p}
          /\ UNCHANGED <<amp, rsn, acAmp, acAtt>>
       \/ /\ ~batt /\ p \in acAtt \ acAmp /\ p \notin att
          /\ acAtt' = acAtt \ {p} /\ rsn' = rsn \ {p}
          /\ UNCHANGED <<amp, acAmp, att>>
       \/ /\ batt \/ p \notin acAmp \cup acAtt
          /\ UNCHANGED <<amp, rsn, acAmp, acAtt, att>>
    /\ UNCHANGED <<algo, sync, modes, mem, acExt, batt, reOn, given>>

\* The state an amplifier that leaves standby is given
ReturnBackup(m, p) == p \in bk[m]     \* mutation: the operator is not asked
Return(m, p) == p \in bk[m] /\ (AlarmOn(p) \/ p \in user)

\* The end of MIMO_Std_AMP_Proc and of AMP_Std_AMP_Proc: out of standby the
\* command is repeated until the amplifier reports it
FollowMarked(m, p) ==     \* mutation: the mark is left when the request is done
    IF p \in st[m]
      THEN /\ IF p \in req[m] /\ AlarmOn(p) THEN Switch({}, {p})
                                            ELSE UNCHANGED <<amp, rsn>>
           /\ UNCHANGED req
      ELSE LET back == Return(m, p) IN
           /\ Switch(IF back THEN {p} ELSE {}, IF back THEN {} ELSE {p})
           /\ req' = IF (p \notin disabled') = back THEN Put(req, m, {p}, {}) ELSE req

Follow(m, p) ==
    IF p \in st[m]
      THEN /\ IF p \in req[m] /\ AlarmOn(p) THEN Switch({}, {p})
                                            ELSE UNCHANGED <<amp, rsn>>
           /\ UNCHANGED req
      ELSE LET back == Return(m, p)
               done == (p \notin disabled') = back
           IN  /\ Send(IF back THEN {p} ELSE {}, IF back THEN {} ELSE {p})
               /\ rsn' = IF back \/ done THEN rsn \ {p} ELSE rsn \cup {p}
               /\ req' = IF done THEN Put(req, m, {p}, {}) ELSE req

\* MIMO_Std_AMP_Proc; a request of AMP standby takes over one of MIMO standby
MimoProc(p) ==
    /\ At(p, "mimo", "amp")
    /\ IF layer # "mimo" \/ acExt \/ p \notin sync["mimo"]
         THEN UNCHANGED <<amp, rsn, req, sync>>
         ELSE /\ sync' = Put(sync, "mimo", {p}, {})
              /\ CASE p \in st["mimo"] -> Follow("mimo", p)
                   [] p \notin st["mimo"] /\ p \in req["amp"] ->
                        /\ req' = Put(req, "mimo", {p}, {})
                        /\ UNCHANGED <<amp, rsn>>
                   [] p \in req["mimo"] \ (st["mimo"] \cup req["amp"]) ->
                        Follow("mimo", p)
                   [] OTHER -> UNCHANGED <<amp, rsn, req>>
    /\ UNCHANGED <<st, dly, bk, modes, mem, acs, given>>

\* AMP_Std_AMP_Proc
AmpProc(p) ==
    /\ At(p, "amp", "user")
    /\ IF acExt \/ p \notin sync["amp"]
         THEN UNCHANGED <<amp, rsn, req, sync>>
         ELSE /\ sync' = Put(sync, "amp", {p}, {})
              /\ IF p \in st["amp"] \cup req["amp"]
                   THEN Follow("amp", p)
                   ELSE UNCHANGED <<amp, rsn, req>>
    /\ UNCHANGED <<st, dly, bk, modes, mem, acs, given>>

\* The end of the loop: the operator's choice, if nothing holds the amplifier
UserProc(p) ==
    /\ At(p, "user", "poll")
    /\ IF AlarmOn(p) # (p \in user) THEN UserSwitch(p, p \in user)
                                    ELSE UNCHANGED <<amp, rsn>>
    /\ UNCHANGED <<algo, sync, modes, mem, acs, given>>

-----------------------------------------------------------------------------
(* The operator, the clock, the mains and the lead amplifier               *)

Event == env + lost < MaxEvents /\ env' = env + 1

\* Use_PRU_PwrAmp_OnOff
UserOnOff(p) ==
    /\ Event
    /\ UserSwitch(p, p \notin user)
    /\ user' = IF p \in user THEN user \ {p} ELSE user \cup {p}
    /\ UNCHANGED <<pau, algo, sync, modes, mem, acs>>
    /\ UNCHANGED <<path, layer, window, lead, ac, ext>>

\* MIMO or AMP Standby Mode: one excludes the other
Choose(m) ==
    /\ Event
    /\ chosen' = {m}
    /\ enabled' = IF Other(m) \in chosen THEN {m} ELSE enabled \cup {m}
    /\ UNCHANGED <<amp, pau, algo, sync, rsn, mem, acs>>
    /\ UNCHANGED <<user, path, layer, window, lead, ac, ext>>

Dismiss(m) ==
    /\ Event /\ m \in chosen
    /\ chosen' = chosen \ {m} /\ enabled' = enabled \ {m}
    /\ UNCHANGED <<amp, pau, algo, sync, rsn, mem, acs>>
    /\ UNCHANGED <<user, path, layer, window, lead, ac, ext>>

\* Start and stop times, and the path of AMP standby
SetTimes(m) ==
    /\ Event
    /\ changed' = changed \cup {m}
    /\ UNCHANGED <<amp, pau, algo, sync, rsn, modes, acs>>
    /\ UNCHANGED <<wasOn, wasIn, exiting, wasLayer>>
    /\ UNCHANGED <<user, path, layer, window, lead, ac, ext>>

SetPath(p) ==
    /\ Event
    /\ changed' = changed \cup {"amp"}
    /\ path' = IF p \in path THEN path \ {p} ELSE path \cup {p}
    /\ UNCHANGED <<amp, pau, algo, sync, rsn, modes, acs>>
    /\ UNCHANGED <<wasOn, wasIn, exiting, wasLayer>>
    /\ UNCHANGED <<user, layer, window, lead, ac, ext>>

\* The mode of the layers, the time of day, the mains, the lead amplifier
Outside ==
    /\ Event
    /\ \/ /\ layer' = IF layer = "mimo" THEN "siso" ELSE "mimo"
          /\ UNCHANGED <<window, lead, ac, ext>>
       \/ /\ window' \in {window \cup {m} : m \in Algos}
                         \cup {window \ {m} : m \in Algos}
          /\ window' # window
          /\ UNCHANGED <<layer, lead, ac, ext>>
       \/ /\ lead' \in {"off", "bad", "low", "high"} \ {lead}
          /\ UNCHANGED <<layer, window, ac, ext>>
       \/ ac' = ~ac /\ UNCHANGED <<layer, window, lead, ext>>
       \/ ext' = ~ext /\ UNCHANGED <<layer, window, lead, ac>>
    /\ UNCHANGED <<amp, pau, algo, sync, rsn, modes, mem, acs, user, path>>

-----------------------------------------------------------------------------
None == [m \in Algos |-> {}]

Init ==
    /\ user \in SUBSET Amps /\ on = user
    /\ seen = [p \in Amps |-> IF p \in on THEN 2 ELSE 0]
    /\ disabled = Amps \ on
    /\ pau = [p \in Amps |-> "poll"]
    /\ st = None /\ dly = None /\ req = None /\ bk = None /\ sync = None
    /\ rsn = {}
    /\ chosen \in {{}, {"mimo"}, {"amp"}} /\ enabled = chosen
    /\ wasOn = Algos /\ wasIn = {} /\ changed = {}
    /\ exiting = FALSE /\ wasLayer = "siso"
    /\ reOn = {} /\ acExt = FALSE /\ batt = FALSE
    /\ acAmp = {} /\ acAtt = {} /\ att = {}
    /\ path \in SUBSET Amps
    /\ layer \in {"mimo", "siso"}
    /\ window \in SUBSET Algos
    /\ lead \in {"off", "bad", "low", "high"}
    /\ ac = FALSE /\ ext \in BOOLEAN
    /\ env = 0 /\ lost = 0

Algorithms ==
    \/ \E over \in BOOLEAN, due \in SUBSET Amps : MimoPass(over, due)
    \/ \E over, dig \in BOOLEAN : AmpPass(over, dig)
    \/ \E over \in BOOLEAN : AcPass(over)
    \/ \E m \in Algos : Restart(m)

PauTask(p) == Poll(p) \/ AcProc(p) \/ MimoProc(p) \/ AmpProc(p) \/ UserProc(p)

Environment ==
    \/ \E p \in Amps : UserOnOff(p) \/ SetPath(p)
    \/ \E m \in Algos : Choose(m) \/ Dismiss(m) \/ SetTimes(m)
    \/ Outside

Next == Algorithms \/ (\E p \in Amps : PauTask(p)) \/ Environment

\* The tasks run, and every timer that is left running runs out
Fairness ==
    /\ WF_vars(MimoPass(TRUE, Amps))
    /\ WF_vars(AmpPass(TRUE, FALSE))
    /\ WF_vars(AcPass(TRUE))
    /\ \A m \in Algos : WF_vars(Restart(m))
    /\ \A p \in Amps : WF_vars(PauTask(p))

Spec == Init /\ [][Next]_vars /\ Fairness

-----------------------------------------------------------------------------
TypeOK ==
    /\ \A S \in {on, disabled, rsn, acAmp, acAtt, att, user, path} : S \subseteq Amps
    /\ seen \in [Amps -> 0..2]
    /\ pau \in [Amps -> {"poll", "ac", "mimo", "amp", "user"}]
    /\ \A f \in {st, dly, req, bk, sync} : f \in [Algos -> SUBSET Amps]
    /\ \A S \in {chosen, enabled, wasOn, wasIn, changed, reOn, window} : S \subseteq Algos
    /\ {exiting, acExt, batt, ac, ext} \subseteq BOOLEAN
    /\ {layer, wasLayer} \subseteq {"mimo", "siso"}
    /\ lead \in {"off", "bad", "low", "high"}
    /\ env \in Nat /\ lost \in Nat /\ env + lost <= MaxEvents + 1

\* A path that is shut in the DTU for a standby has someone left who will open it: a
\* request of a standby algorithm or of battery saving stands until the amplifier
\* has followed, whatever the three algorithms, the amplifier's task and the operator
\* do in between.
PathOwned == rsn \subseteq req["mimo"] \cup req["amp"] \cup acAmp \cup acAtt

\* No amplifier known to be off is switched on that the operator has off
\* (algorithm_rf.c, "if it was switched off by the user, the amplifier is off"),
\* although standby restores a state it saved when it began.  One that is off and not
\* yet reported so, its answer lost or an AC alarm having kept it from being read, may
\* be.  What battery saving switched off it switches on first.
UserOff == [][\A p \in Amps : p \in (on' \ on) \cap disabled => p \in user' \cup acAmp]_vars

\* MIMO standby is left by the change to one layer, where its follow-up is not called
\* any more: the request stays and keeps the operator from the amplifier.
Stranded(p) == layer # "mimo" /\ p \in req["mimo"]

\* Nothing asks for the amplifier to be off any more: neither mode is in its time, or
\* the mode does not apply, and the mains are there.
Free(p) ==
    /\ "mimo" \in chosen => "mimo" \notin window \/ lead \in {"off", "bad"} \/ layer # "mimo"
    /\ "amp" \in chosen => "amp" \notin window \/ p \notin path
    /\ ~ac

\* After standby and battery saving every amplifier gets the state the operator wants,
\* with its path open, whichever of them overlapped and although answers were lost.
Restored == \A p \in Amps :
    <>[](Free(p) /\ ~Stranded(p)) => <>[]((p \in on) = (p \in user) /\ p \notin rsn)

\* Battery saving sets a standby mode aside; once it is over the mode that is chosen
\* is in force again, and none that is not.
Resumed == <>[]~Saving => <>[](enabled = chosen)

\* On battery, with the saving chosen, the amplifiers that share the load end up off,
\* and in no standby: neither the operator nor a standby that ends switches one on.
Saved == \A p \in Amps :
    <>[](Saving /\ layer = "mimo") => <>[](p \notin on /\ ~InStandby(p))
=============================================================================
