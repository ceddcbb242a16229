--------------------------- MODULE EepEmulProofs ----------------------------
(***************************************************************************)
(* Proofs about EepEmul, for every set of records and every bound: the     *)
(* types, and that one bad copy never costs a record read from both files. *)
(***************************************************************************)
EXTENDS EepEmul, TLAPS

-----------------------------------------------------------------------------
(* Types.                                                                  *)

\* What a restart reads, whatever the copies hold.
LEMMA RecoveredType ==
    ASSUME NEW a \in Records \cup {Torn}, NEW b \in Records \cup {Torn}
    PROVE  Recovered(a, b) \in Records
<1>1. CASE CheckVFile(a)
  BY <1>1 DEF Recovered, CheckVFile
<1>2. CASE ~CheckVFile(a) /\ CheckVFile(Second(a, b))
  <2>1. Second(a, b) \in Records \cup {Torn}
    BY DEF Second
  <2> QED BY <1>2, <2>1 DEF Recovered, CheckVFile
<1>3. CASE ~CheckVFile(a) /\ ~CheckVFile(Second(a, b))
  BY <1>3 DEF Recovered, Records
<1> QED BY <1>1, <1>2, <1>3

LEMMA TypeInit == Init => TypeOK
<1> SUFFICES ASSUME Init PROVE TypeOK
  OBVIOUS
<1>1. value \in Values /\ ram \in Values /\ A \in Values /\ B \in Values
  BY ConstAssumption DEF Init
<1>2. saved \subseteq Records
  BY <1>1 DEF Init, Records
<1>3. /\ kind \in Kinds /\ backup \in BOOLEAN
      /\ wanted \in BOOLEAN /\ changing \in BOOLEAN /\ bumped \in BOOLEAN
      /\ up \in BOOLEAN /\ failed \in BOOLEAN /\ pc \in {"idle"}
      /\ interrupted \in Nat /\ crashes \in Nat /\ fails \in Nat /\ changes \in Nat
  BY DEF Init
<1> QED BY <1>1, <1>2, <1>3 DEF TypeOK, Records

LEMMA TypeStep == TypeOK /\ [Next]_vars => TypeOK'
<1> SUFFICES ASSUME TypeOK, [Next]_vars PROVE TypeOK'
  OBVIOUS
<1> USE ConstAssumption DEF TypeOK
<1>1. CASE InitEEP
  <2>1. A' \in Records \cup {Torn} /\ B' \in Records \cup {Torn}
    BY <1>1 DEF fixed, InitEEP, Restored, Records
  <2>2. ram' \in Records
    BY <1>1, <2>1, RecoveredType DEF fixed, InitEEP
  <2>3. value' \in Records /\ saved' \subseteq Records
    BY <1>1, <2>2 DEF fixed, InitEEP, Records
  <2>4. /\ wanted' \in BOOLEAN /\ bumped' \in BOOLEAN /\ changing' \in BOOLEAN
        /\ up' \in BOOLEAN /\ pc' = "idle"
    BY <1>1 DEF fixed, InitEEP, Counted
  <2> QED BY <1>1, <2>1, <2>2, <2>3, <2>4 DEF fixed, InitEEP, bounds
<1>2. ASSUME NEW v \in Values, Change(v) PROVE TypeOK'
  BY <1>2 DEF fixed, Change, mem, copies, hist, Records
<1>3. CASE SetWanted
  BY <1>3 DEF fixed, SetWanted, mem, copies, hist, bounds
<1>4. CASE SaveEEP
  BY <1>4 DEF fixed, SaveEEP, mem, copies, hist, bounds
<1>5. CASE V_EEP_Write
  BY <1>5 DEF fixed, V_EEP_Write, user, mem, copies, bounds
<1>6. CASE OpenA
  BY <1>6 DEF fixed, OpenA, user, mem, hist, bounds
<1>7. CASE WrittenA
  BY <1>7 DEF fixed, WrittenA, user, mem, hist, bounds
<1>8. CASE OpenB
  BY <1>8 DEF fixed, OpenB, user, mem, hist, bounds
<1>9. CASE WrittenB
  BY <1>9 DEF fixed, WrittenB, user, mem, bounds
<1>10. CASE SaveFails
  BY <1>10 DEF fixed, SaveFails, user, mem, copies
<1>11. CASE Crash
  <2>1. interrupted' \in Nat /\ crashes' \in Nat
    BY <1>11 DEF fixed, Crash
  <2>2. up' = FALSE /\ pc' = "idle"
    BY <1>11 DEF fixed, Crash
  <2> QED BY <1>11, <2>1, <2>2 DEF fixed, Crash, user, mem, copies
<1>12. CASE UNCHANGED vars
  BY <1>12 DEF vars, fixed, user, mem, copies, hist, bounds
<1> QED BY <1>1, <1>2, <1>3, <1>4, <1>5, <1>6, <1>7, <1>8, <1>9, <1>10, <1>11, <1>12
        DEF Next, Save

\* The state of the record, its copies and the save under way stays in its types: in
\* particular only what was saved, Default or blank bytes are ever read back.
THEOREM TypeCorrect == Spec => []TypeOK
<1> QED BY TypeInit, TypeStep, PTL DEF Spec

-----------------------------------------------------------------------------
(* One bad copy.  The theorem is about the records read from two files;    *)
(* the loader reads one copy of the table only.                            *)

Whole(copy) == copy \in saved
WholeOrTorn(copy) == copy \in saved \cup {Torn}

\* The save under way: what it writes may be found by a restart, a copy it has
\* replaced holds the record, and a failure in it has been counted.
SaveUnderWay ==
    /\ pc \in {"A0", "A", "B0", "B"} => ram \in saved
    /\ pc \in {"B0", "B"} /\ ~failed => A = ram
    /\ pc \in {"B0", "B"} /\ failed => interrupted >= 1
    /\ pc \in {"A0", "A"} => ~failed
    /\ (pc = "A" => A = Torn) /\ (pc = "B" => B = Torn)
    /\ ~up => pc = "idle"

\* No record is blank bytes, which the user never saves.
NoBlank ==
    /\ value \in Values /\ saved \subseteq Values
    /\ A \in Values \cup {Torn} /\ B \in Values \cup {Torn}

\* Nothing was cut short since both copies were last replaced: the copy that is not
\* being replaced is whole.
Undisturbed ==
    interrupted = 0 =>
        /\ pc # "A" => Whole(A)
        /\ pc # "B" => Whole(B)

\* One copy was cut short: the other is whole, unless a save goes on, which replaces
\* both in turn; that save may be the one that failed with A.
OneBad ==
    interrupted = 1 =>
        /\ ~Writing => WholeOrTorn(A) /\ WholeOrTorn(B) /\ (Whole(A) \/ Whole(B))
        /\ Writing /\ failed => WholeOrTorn(A)

IInv == TypeOK /\ NoBlank /\ SaveUnderWay /\ Undisturbed /\ OneBad

LEMMA InvInit == Init => IInv
<1> SUFFICES ASSUME Init PROVE IInv
  OBVIOUS
<1>1. TypeOK
  BY TypeInit
<1>2. NoBlank /\ SaveUnderWay /\ Undisturbed /\ OneBad
  BY ConstAssumption DEF Init, NoBlank, SaveUnderWay, Undisturbed, OneBad, Whole
<1> QED BY <1>1, <1>2 DEF IInv

\* With the copies the invariant allows, a restart reads a record that was saved.
LEMMA ReadsSaved ==
    ASSUME IInv, kind # "table",
           WholeOrTorn(A), WholeOrTorn(B), Whole(A) \/ Whole(B)
    PROVE  Recovered(A, B) \in saved
<1>1. Torn \notin saved
  BY ConstAssumption DEF IInv, NoBlank
<1> QED BY <1>1 DEF Recovered, Second, CheckVFile, Whole, WholeOrTorn

LEMMA BootStep ==
    ASSUME IInv, kind # "table", InitEEP
    PROVE  NoBlank' /\ SaveUnderWay' /\ Undisturbed' /\ OneBad'
<1>1. pc = "idle" /\ pc' = "idle" /\ interrupted' = interrupted /\ up'
  BY DEF IInv, SaveUnderWay, InitEEP
<1>2. Default \in Values /\ Blank \notin Values /\ Torn \notin Values /\ Torn # Blank
  BY ConstAssumption
<1>3. A' \in Values \cup {Torn} /\ B' \in Values \cup {Torn}
  BY <1>2 DEF IInv, NoBlank, InitEEP, Restored
<1>4. ram' \in Values \cup {Blank}
  BY <1>3, RecoveredType, <1>2 DEF fixed, InitEEP, Records
<1>5. NoBlank'
  <2>0. kind \in {"data", "rst"}
    BY ConstAssumption DEF IInv, TypeOK
  <2>1. value' \in Values
    BY <1>2, <1>3, <1>4, <2>0 DEF InitEEP, Recovered, Second, CheckVFile
  <2>2. saved' \subseteq Values
    BY <1>2 DEF IInv, NoBlank, InitEEP
  <2> QED BY <1>3, <2>1, <2>2 DEF NoBlank
<1>6. ASSUME interrupted <= 1
      PROVE  A' = A /\ B' = B /\ saved' = saved
  <2>1. WholeOrTorn(A) /\ WholeOrTorn(B) /\ (Whole(A) \/ Whole(B))
    BY <1>1, <1>6 DEF IInv, TypeOK, Undisturbed, OneBad, Writing, Whole, WholeOrTorn
  <2>2. Recovered(A, B) # Blank
    BY <2>1, ReadsSaved, <1>2 DEF IInv, NoBlank
  <2> QED BY <2>2 DEF fixed, InitEEP, Restored
<1>7. SaveUnderWay'
  BY <1>1 DEF SaveUnderWay
<1>8. Undisturbed' /\ OneBad'
  BY <1>1, <1>6 DEF IInv, Undisturbed, OneBad, Writing, Whole, WholeOrTorn
<1> QED BY <1>5, <1>7, <1>8

LEMMA InvStep ==
    ASSUME IInv, [Next]_vars, kind # "table"
    PROVE  IInv'
<1> USE DEF IInv, NoBlank, SaveUnderWay, Undisturbed, OneBad, Whole, WholeOrTorn, Writing
<1>0. TypeOK'
  BY TypeStep
<1>t. interrupted \in Nat
  BY DEF TypeOK
<1>1. CASE InitEEP
  BY <1>1, <1>0, BootStep
<1>2. ASSUME NEW v \in Values, Change(v) PROVE IInv'
  BY <1>2, <1>0 DEF fixed, Change, mem, copies, hist
<1>3. CASE SetWanted
  BY <1>3, <1>0 DEF fixed, SetWanted, mem, copies, hist
<1>4. CASE SaveEEP
  BY <1>4, <1>0 DEF fixed, SaveEEP, mem, copies, hist
<1>5. CASE V_EEP_Write
  BY <1>5, <1>0 DEF fixed, V_EEP_Write, user, mem, copies
<1>6. CASE OpenA
  BY <1>6, <1>0 DEF fixed, OpenA, user, mem, hist
<1>7. CASE WrittenA
  BY <1>7, <1>0, <1>t DEF fixed, WrittenA, user, mem, hist
<1>8. CASE OpenB
  BY <1>8, <1>0 DEF fixed, OpenB, user, mem, hist
<1>9. CASE WrittenB
  BY <1>9, <1>0, <1>t DEF fixed, WrittenB, user, mem
<1>10. CASE SaveFails
  BY <1>10, <1>0, <1>t DEF fixed, SaveFails, user, mem, copies
<1>11. CASE Crash
  BY <1>11, <1>0, <1>t DEF fixed, Crash, user, mem, copies
<1>12. CASE UNCHANGED vars
  BY <1>12, <1>0 DEF vars, fixed, user, mem, copies, hist
<1> QED BY <1>1, <1>2, <1>3, <1>4, <1>5, <1>6, <1>7, <1>8, <1>9, <1>10, <1>11, <1>12
        DEF Next, Save

LEMMA InvRecoverable ==
    ASSUME kind # "table" => IInv
    PROVE  Recoverable
<1> SUFFICES ASSUME IInv, kind # "table", interrupted + (IF Writing THEN 1 ELSE 0) <= 1
             PROVE  Recovered(A, B) \in saved
  BY DEF Recoverable
<1>1. interrupted \in Nat /\ Torn \notin saved
  BY ConstAssumption DEF IInv, TypeOK, NoBlank
<1>2. CASE Writing
  <2>1. interrupted = 0 /\ pc \in {"A", "B0", "B"}
    BY <1>1, <1>2 DEF Writing
  <2>2. (pc # "A" => A \in saved) /\ (pc # "B" => B \in saved)
    BY <2>1 DEF IInv, Undisturbed, Whole
  <2>3. pc = "A" => A = Torn \/ A \in saved
    BY <1>1, <1>2 DEF IInv, SaveUnderWay
  <2> QED BY <1>1, <2>1, <2>2, <2>3 DEF Recovered, Second, CheckVFile
<1>3. CASE ~Writing
  BY <1>1, <1>3, ReadsSaved
     DEF IInv, Undisturbed, OneBad, Writing, Whole, WholeOrTorn
<1> QED BY <1>2, <1>3

\* Which record it is does not change.
LEMMA KindFixed == [Next]_vars => kind' = kind
BY DEF Next, Save, InitEEP, Change, SetWanted, SaveEEP, V_EEP_Write, OpenA, WrittenA,
       OpenB, WrittenB, SaveFails, Crash, vars, fixed

\* However and whenever the unit goes down, a restart finds the record last saved or
\* the one being saved, unless two copies were cut short with no complete save between
\* them: for every record that has two files (eep_emul.c reads the table's A twice).
THEOREM OneBadCopy == Spec => []Recoverable
<1> DEFINE J == kind # "table" => IInv
<1>1. Init => J
  BY InvInit
<1>2. J /\ [Next]_vars => J'
  BY InvStep, KindFixed
<1>3. J => Recoverable
  BY InvRecoverable
<1> QED BY <1>1, <1>2, <1>3, PTL DEF Spec
=============================================================================
