------------------------------ MODULE EepEmul -------------------------------
(***************************************************************************)
(* The emulated EEPROM, eep_emul.c, and its users in alarm.c and main.c.   *)
(*                                                                         *)
(* A record is kept in RAM (V_EEP_DATA or V_RST_INFO_DATA) and in two      *)
(* files, A and B, each closed by a CRC.  A write replaces A, then B, in   *)
(* place; a read takes the first copy whose CRC is right.  kind says which *)
(* record this is:                                                         *)
(*   "data"   m_Eep, saved by WDT_Task when is_eep_write says so           *)
(*   "table"  the calibration tables of the AAU, saved by the caller       *)
(*   "rst"    the reset-info record, saved by the caller (SetResetInfo)    *)
(* A record is one of Values: what a CRC accepts is taken for what was     *)
(* written, and a copy of a record other threads are changing, for one of  *)
(* them (they ask for another save afterwards).  The size checks, and the  *)
(* write counter in m_Eep, are not modelled.                               *)
(***************************************************************************)
EXTENDS Integers

CONSTANTS
    Kinds,              \* the records looked at
    Values,
    Default,            \* m_Eep initialised, or a record with Rst_None
    Torn,               \* what a copy holds while it is being replaced
    Blank,              \* 0xFF...: what is read when both copies are bad
    MaxCrash, MaxFail, MaxChange    \* bounds

ASSUME ConstAssumption ==
    /\ Kinds \subseteq {"data", "table", "rst"}
    /\ Default \in Values
    /\ Torn \notin Values /\ Blank \notin Values /\ Torn # Blank
    /\ {MaxCrash, MaxFail, MaxChange} \subseteq Nat

VARIABLES
    kind,           \* the record
    backup,         \* do the files of /tmp/app exist, and hold Default?
    value,          \* the user's record: m_Eep, the tables, m_rst_info
    wanted,         \* is_eep_write, or a call to save that is to be served
    changing,       \* a thread has changed m_Eep and not yet set is_eep_write
    ram, bumped,    \* the record in RAM; m_Eep.reset_cnt differs from it
    A, B,           \* the copies in flash
    pc,             \* the saving thread; A0 and B0: about to open that file
    up,
    interrupted,    \* history: copies whose replacement was cut short or failed
                    \* since both were last replaced
    failed,         \* history: one of them was of the write under way
    saved,          \* history: the records a restart may find
    crashes, fails, changes

user == <<value, wanted, changing>>
mem == <<ram, bumped>>
copies == <<A, B>>
hist == <<interrupted, failed, saved>>
bounds == <<crashes, fails, changes>>
fixed == <<kind, backup>>
vars == <<fixed, user, mem, copies, pc, up, hist, bounds>>

Records == Values \cup {Blank}

-----------------------------------------------------------------------------
\* CheckVFile: the CRC of the copy is right.
CheckVFile(copy) == copy # Torn

\* V_EEP_Read_All and V_Read_Rst_Info_All: the order in which copies are tried.
\* The table's second file name is that of A again.
SecondIsFirst(a, b) == a    \* mutation: so are the others'
Second(a, b) == IF kind = "table" THEN a ELSE b
Recovered(a, b) ==
    IF CheckVFile(a) THEN a
    ELSE IF CheckVFile(Second(a, b)) THEN Second(a, b) ELSE Blank

\* V_EEP_Copy_Backup, when neither could be read.
Restored(copy) ==
    IF Recovered(A, B) = Blank /\ kind # "rst" /\ backup THEN Default ELSE copy

\* RepeaterInit counts the reset in m_Eep, so that the record is always rewritten.
NotCounted == FALSE     \* mutation
Counted == kind = "data"

\* InitEEP, then the user: RepeaterInit loads m_Eep, fills in what is blank and
\* counts the reset; Chk_ResetReason clears the record.
InitEEP ==
    /\ ~up
    /\ up' = TRUE
    /\ A' = Restored(A) /\ B' = Restored(B)
    /\ ram' = Recovered(A', B')
    /\ saved' = IF A' # A \/ B' # B THEN saved \cup {Default} ELSE saved
    /\ value' = IF kind = "rst" \/ (kind = "data" /\ ram' = Blank) THEN Default ELSE ram'
    /\ wanted' = (kind # "table")
    /\ bumped' = Counted
    /\ changing' = FALSE
    /\ pc' = "idle"
    /\ UNCHANGED <<fixed, interrupted, failed, bounds>>

\* m_Eep is changed, and then is_eep_write set; the others call at once.
Change(v) ==
    /\ up /\ ~changing /\ changes < MaxChange
    /\ kind # "data" => ~wanted /\ pc = "idle"
    /\ changes' = changes + 1
    /\ value' = v
    /\ changing' = (kind = "data")
    /\ wanted' = (wanted \/ kind # "data")
    /\ UNCHANGED <<fixed, mem, copies, pc, up, hist, crashes, fails>>

SetWanted ==
    /\ up /\ changing
    /\ changing' = FALSE
    /\ wanted' = TRUE
    /\ UNCHANGED <<fixed, value, mem, copies, pc, up, hist, bounds>>

\* SaveEEP clears the flag before it saves.
SaveEEP ==
    /\ up /\ pc = "idle" /\ wanted
    /\ wanted' = FALSE
    /\ pc' = "save"
    /\ UNCHANGED <<fixed, value, changing, mem, copies, up, hist, bounds>>

\* V_EEP_Write, ResetInfo_Write: a record that is in RAM already is not saved.
V_EEP_Write ==
    /\ up /\ pc = "save"
    /\ IF value = ram /\ ~bumped
       THEN pc' = "idle" /\ UNCHANGED <<mem, failed, saved>>
       ELSE /\ ram' = value /\ bumped' = FALSE
            /\ saved' = saved \cup {value}
            /\ failed' = FALSE
            /\ pc' = "A0"
    /\ UNCHANGED <<fixed, user, copies, up, interrupted, bounds>>

\* SaveVFile, to A and then to B.
OpenA ==
    /\ up /\ pc = "A0"
    /\ A' = Torn
    /\ pc' = "A"
    /\ UNCHANGED <<fixed, user, mem, B, up, hist, bounds>>

WrittenA ==
    /\ up /\ pc = "A"
    /\ A' = ram
    /\ pc' = "B0"
    /\ UNCHANGED <<fixed, user, mem, B, up, hist, bounds>>

OpenB ==
    /\ up /\ pc = "B0"
    /\ B' = Torn
    /\ pc' = "B"
    /\ UNCHANGED <<fixed, user, mem, A, up, hist, bounds>>

WrittenBClears ==   \* mutation: the flag is cleared after the save
    /\ up /\ pc = "B"
    /\ B' = ram
    /\ pc' = "idle"
    /\ wanted' = FALSE
    /\ interrupted' = IF failed THEN interrupted ELSE 0
    /\ saved' = IF failed THEN saved ELSE {ram}
    /\ UNCHANGED <<fixed, value, changing, mem, A, up, failed, bounds>>

WrittenB ==
    /\ up /\ pc = "B"
    /\ B' = ram
    /\ pc' = "idle"
    /\ interrupted' = IF failed THEN interrupted ELSE 0
    /\ saved' = IF failed THEN saved ELSE {ram}
    /\ UNCHANGED <<fixed, user, mem, A, up, failed, bounds>>

\* The file cannot be opened, or not be written in full: reported, not retried.
SaveFails ==
    /\ up /\ pc \in {"A0", "A", "B0", "B"} /\ fails < MaxFail
    /\ fails' = fails + 1
    /\ interrupted' = interrupted + 1
    /\ failed' = TRUE
    /\ pc' = IF pc \in {"A0", "A"} THEN "B0" ELSE "idle"
    /\ UNCHANGED <<fixed, user, mem, copies, up, saved, crashes, changes>>

\* Copies are being replaced: a crash now cuts a write short.
Writing == pc \in {"A", "B0", "B"}

\* Power failure, watchdog expiry or reboot.
Crash ==
    /\ up /\ crashes < MaxCrash
    /\ crashes' = crashes + 1
    /\ up' = FALSE
    /\ pc' = "idle"
    /\ interrupted' = IF Writing THEN interrupted + 1 ELSE interrupted
    /\ UNCHANGED <<fixed, user, mem, copies, failed, saved, fails, changes>>

-----------------------------------------------------------------------------
Init ==
    /\ kind \in Kinds /\ backup \in BOOLEAN
    /\ value = Default /\ wanted = FALSE /\ changing = FALSE
    /\ ram = Default /\ bumped = FALSE
    /\ A \in Values /\ B = A /\ saved = {A}
    /\ pc = "idle" /\ up = FALSE
    /\ interrupted = 0 /\ failed = FALSE
    /\ crashes = 0 /\ fails = 0 /\ changes = 0

Save == SaveEEP \/ V_EEP_Write \/ OpenA \/ WrittenA \/ OpenB \/ WrittenB

Next ==
    \/ InitEEP
    \/ \E v \in Values : Change(v)
    \/ SetWanted
    \/ Save
    \/ SaveFails
    \/ Crash

\* WDT_Task (or the caller) keeps saving, a thread that changed m_Eep goes on,
\* and the unit boots.
Fairness == WF_vars(Save \/ SaveFails) /\ WF_vars(SetWanted) /\ WF_vars(InitEEP)

Spec == Init /\ [][Next]_vars /\ Fairness

-----------------------------------------------------------------------------
\* The state stays in its types; a copy holds a whole record or is Torn.
TypeOK ==
    /\ kind \in Kinds /\ backup \in BOOLEAN
    /\ value \in Records /\ ram \in Records
    /\ A \in Records \cup {Torn} /\ B \in Records \cup {Torn}
    /\ wanted \in BOOLEAN /\ changing \in BOOLEAN /\ bumped \in BOOLEAN
    /\ up \in BOOLEAN /\ failed \in BOOLEAN
    /\ pc \in {"idle", "save", "A0", "A", "B0", "B"}
    /\ interrupted \in Nat /\ saved \subseteq Records
    /\ crashes \in Nat /\ fails \in Nat /\ changes \in Nat

\* However and whenever the unit goes down, a restart finds the record last saved or
\* the one being saved, unless the replacement of two copies is cut short or fails
\* with no complete save between: one bad copy never costs the record.  Of the table
\* the loader reads no second copy (Second).
Recoverable ==
    kind # "table" /\ interrupted + (IF Writing THEN 1 ELSE 0) <= 1 => Recovered(A, B) \in saved

\* No change is forgotten: a record changed after the save of it began is saved too.
ChangeSaved ==
    (up /\ changing) ~> (~up \/ (ram = value /\ pc = "idle"))

\* A copy a crash left bad is replaced after the restart: once the unit stays up, and
\* unless its last save failed, both copies of m_Eep hold the record again.
CopiesRepaired ==
    <>[](up /\ kind = "data" /\ ~failed) => []<>(A = ram /\ B = ram)
=============================================================================
