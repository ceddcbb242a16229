------------------------ MODULE UdaAutoResetHistory ------------------------
(***************************************************************************)
(* What the automatic reset promises over time.  UdaAutoReset is extended  *)
(* with history variables: they record what happened, restrict no step of  *)
(* the program, and let a property speak of the past.                      *)
(***************************************************************************)
EXTENDS UdaAutoReset

VARIABLES
    done,   \* automatic resets since the source last started afresh
    on,     \* time the source's alarm has been there, as the passes read it
    cause   \* the sources whose request the saved reset serves

hist == <<done, on, cause>>
hvars == <<vars, hist>>

HInit ==
    /\ Init
    /\ done = ZeroOf(UDA) /\ on = ZeroOf(UDA) /\ cause = {}

HReset ==
    /\ Proc___Reset_By_UDA
    /\ cause' = IF Reset_En = 1 THEN req ELSE cause
    /\ UNCHANGED <<done, on>>

HJudge(a) ==
    /\ Judge(a)
    /\ on' = Set(on, UDA \ a, 0)
    /\ done' = Set(done, InitReq, 0)
    /\ UNCHANGED cause

HDecide ==
    /\ Decide
    /\ done' = Set(done, (UDA \ InReset) \cup Restarted \cup Released, 0)
    /\ UNCHANGED <<on, cause>>

HTick ==
    /\ Tick
    /\ on' = [u \in UDA |-> Least(on[u] + 1, DIG_KEEP_Ref)]
    /\ UNCHANGED <<done, cause>>

HBoot ==
    /\ Boot
    /\ done' = IF flash.UDA.Reset_Code
               THEN [u \in UDA |-> done[u] + (IF u \in cause THEN 1 ELSE 0)]
               ELSE ZeroOf(UDA)
    /\ cause' = {}
    /\ UNCHANGED on

HControl(u, m) ==
    /\ Use_UDA_Oper_Mode_Ctrl(u, m)
    /\ done' = [done EXCEPT ![u] = 0]
    /\ UNCHANGED <<on, cause>>

HOther == (Halt \/ Proc_PSU_Reset \/ ForeignReset \/ Reboot \/ Crash) /\ UNCHANGED hist

HPass == HReset \/ (\E a \in SUBSET Sources : HJudge(a)) \/ HDecide

HNext ==
    \/ HPass \/ HTick \/ HBoot \/ HOther
    \/ \E u \in UDA, m \in AR_Mode : HControl(u, m)

HFairness == WF_hvars(HPass) /\ SF_hvars(HTick) /\ WF_hvars(HOther /\ Reboot) /\ WF_hvars(HBoot)

HSpec == HInit /\ [][HNext]_hvars /\ HFairness

-----------------------------------------------------------------------------
\* A source resets the unit a bounded number of times before it starts afresh (window
\* over, suppression over, operator, or a boot that was no UDA reset): the count in
\* m_Uda survives the resets it counts.  The bound is one more than SUPPRESS_MAX, since
\* a window that ends in the pass that grants a reset forgets that reset too.
ResetsBounded == \A u \in UDA : done[u] <= SUPPRESS_MAX + 1

\* The suppression of the Clock source never ends while its alarm lasts: each
\* rejected reset restarts the 35 minutes, and an alarm that lasts is rejected
\* every 30.
ReleaseNotDuringAlarm ==
    [][(pc = "decide" /\ pc' = "rst" /\ "Clock" \in Released) => on["Clock"] < DIG_KEEP_Ref]_hvars

=============================================================================
