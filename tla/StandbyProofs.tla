---------------------------- MODULE StandbyProofs ----------------------------
(***************************************************************************)
(* Proofs about Standby, for any number of amplifiers, of commands and of  *)
(* lost answers: a path that is shut is owned, no amplifier known to be    *)
(* off is switched on against the operator, and one standby at most is in  *)
(* force.                                                                  *)
(***************************************************************************)
EXTENDS Standby, TLAPS

Chosen == [Algos -> SUBSET Amps]

AmpType ==
    /\ on \subseteq Amps /\ disabled \subseteq Amps
    /\ seen \in [Amps -> 0..2]
    /\ lost \in Nat

AlgoType == st \in Chosen /\ dly \in Chosen /\ req \in Chosen /\ bk \in Chosen /\ sync \in Chosen

AcType ==
    /\ acAmp \subseteq Amps /\ acAtt \subseteq Amps /\ att \subseteq Amps
    /\ reOn \subseteq Algos
    /\ acExt \in BOOLEAN /\ batt \in BOOLEAN

MemType ==
    /\ wasOn \subseteq Algos /\ wasIn \subseteq Algos /\ changed \subseteq Algos
    /\ exiting \in BOOLEAN
    /\ wasLayer \in {"mimo", "siso"}

ModeType == chosen \subseteq Algos /\ enabled \subseteq Algos

GivenType ==
    /\ user \subseteq Amps /\ path \subseteq Amps /\ window \subseteq Algos
    /\ layer \in {"mimo", "siso"} /\ lead \in {"off", "bad", "low", "high"}
    /\ ac \in BOOLEAN /\ ext \in BOOLEAN
    /\ env \in Nat

PauType == pau \in [Amps -> {"poll", "ac", "mimo", "amp", "user"}]

\* The events and the lost answers are bounded together; a command may be the last of
\* the one and cause one of the other.
Bounded == env + lost <= MaxEvents + 1

TypeInv ==
    /\ AmpType /\ AlgoType /\ AcType /\ MemType /\ ModeType /\ GivenType /\ PauType
    /\ rsn \subseteq Amps
    /\ Bounded

LEMMA TypeParts == TypeInv => TypeOK
BY DEF TypeInv, TypeOK, AmpType, AlgoType, AcType, MemType, ModeType, GivenType, PauType,
       Bounded, Chosen

-----------------------------------------------------------------------------
(* The commands to the amplifiers                                          *)

LEMMA HeardType ==
    ASSUME NEW A, on' \subseteq Amps, AmpType, GivenType, Heard(A)
    PROVE  seen' \in [Amps -> 0..2] /\ disabled' \subseteq Amps
<1>1. \A p \in Amps : seen[p] \in 0..2
  BY DEF AmpType
<1>2. \A p \in Amps :
        (IF p \notin A THEN seen[p]
         ELSE IF p \notin on' THEN 0
         ELSE IF seen[p] = 2 THEN 2 ELSE seen[p] + 1) \in 0..2
  BY <1>1
<1> QED BY <1>2 DEF Heard

LEMMA SendType ==
    ASSUME NEW E \in SUBSET Amps, NEW D \in SUBSET Amps,
           AmpType, GivenType, Bounded, Send(E, D)
    PROVE  AmpType' /\ (lost' = lost \/ (lost' = lost + 1 /\ env + lost < MaxEvents))
<1>1. PICK Lost \in SUBSET (E \cup D), Undone \in SUBSET (E \cup D) :
        /\ IF Lost = {} THEN UNCHANGED lost ELSE env + lost < MaxEvents /\ lost' = lost + 1
        /\ on' = (on \cup (E \ Undone)) \ (D \ Undone)
        /\ Heard((E \cup D) \ Lost)
  BY DEF Send
<1>2. on' \subseteq Amps
  BY <1>1 DEF AmpType
<1>3. lost' = lost \/ (lost' = lost + 1 /\ env + lost < MaxEvents)
  BY <1>1
<1> QED BY <1>1, <1>2, <1>3, HeardType DEF AmpType

\* What a command switches on is among those it is for.
LEMMA SendOn ==
    ASSUME NEW E, NEW D, Send(E, D)
    PROVE  on' \ on \subseteq E
BY DEF Send

LEMMA SwitchType ==
    ASSUME NEW E \in SUBSET Amps, NEW D \in SUBSET Amps, TypeInv, Switch(E, D)
    PROVE  /\ AmpType' /\ rsn' \subseteq Amps
           /\ lost' = lost \/ (lost' = lost + 1 /\ env + lost < MaxEvents)
           /\ rsn' = (rsn \ E) \cup D
           /\ on' \ on \subseteq E
<1>1. Send(E, D) /\ rsn' = (rsn \ E) \cup D
  BY DEF Switch
<1> QED BY <1>1, SendType, SendOn DEF TypeInv

LEMMA UserSwitchType ==
    ASSUME NEW p \in Amps, NEW want \in BOOLEAN, TypeInv, UserSwitch(p, want)
    PROVE  /\ AmpType' /\ rsn' \subseteq rsn
           /\ lost' = lost \/ (lost' = lost + 1 /\ env + lost < MaxEvents)
           /\ on' \ on \subseteq (IF want THEN {p} ELSE {})
<1> DEFINE E == IF want THEN {p} ELSE {}
           D == IF want THEN {} ELSE {p}
<1>1. CASE Send(E, D) /\ rsn' \subseteq rsn
  <2>1. E \in SUBSET Amps /\ D \in SUBSET Amps
    OBVIOUS
  <2> HIDE DEF E, D
  <2>2. on' \ on \subseteq E
    BY <1>1, SendOn
  <2>3. AmpType' /\ (lost' = lost \/ (lost' = lost + 1 /\ env + lost < MaxEvents))
    BY <1>1, <2>1, SendType DEF TypeInv
  <2> QED BY <1>1, <2>2, <2>3 DEF E
<1>2. CASE UNCHANGED <<amp, rsn>>
  BY <1>2 DEF amp, AmpType, TypeInv
<1> QED BY <1>1, <1>2 DEF UserSwitch

LEMMA PutType ==
    ASSUME NEW f \in Chosen, NEW m \in Algos, NEW S, NEW T \in SUBSET Amps
    PROVE  /\ Put(f, m, S, T) \in Chosen
           /\ Put(f, m, S, T)[m] = (f[m] \ S) \cup T
           /\ \A n \in Algos \ {m} : Put(f, m, S, T)[n] = f[n]
BY DEF Put, Chosen

LEMMA SetType ==
    ASSUME NEW f \in Chosen, NEW m \in Algos, NEW T \in SUBSET Amps
    PROVE  [f EXCEPT ![m] = T] \in Chosen /\ [f EXCEPT ![m] = T][m] = T
BY DEF Chosen

LEMMA SyncedType == ASSUME NEW m \in Algos, AlgoType, Synced(m) PROVE sync' \in Chosen
BY DEF Synced, AlgoType, Chosen

LEMMA TwoAlgos == Algos = {"mimo", "amp"} /\ \A m \in Algos : Other(m) \in Algos /\ Other(m) # m
BY DEF Algos, Other

-----------------------------------------------------------------------------
Inv == TypeInv /\ PathOwned

\* What UserOff says of a step.
Obeyed == \A p \in Amps : p \in (on' \ on) \cap disabled => p \in user' \cup acAmp

LEMMA StillBounded ==
    ASSUME Inv, UNCHANGED given, lost' = lost \/ (lost' = lost + 1 /\ env + lost < MaxEvents)
    PROVE  Bounded'
<1>1. env \in Nat /\ lost \in Nat /\ env + lost <= MaxEvents + 1 /\ MaxEvents \in Nat
  BY StandbyAssumption DEF Inv, TypeInv, Bounded, GivenType, AmpType
<1>2. env' = env
  BY DEF given
<1>3. env' + lost' <= MaxEvents + 1
  BY <1>1, <1>2
<1> QED BY <1>3 DEF Bounded

\* A step that leaves the amplifiers and what owns their paths alone.
LEMMA Aside ==
    ASSUME Inv, UNCHANGED <<amp, rsn, req, acAmp, acAtt>>
    PROVE  PathOwned' /\ Obeyed /\ AmpType' /\ rsn' \subseteq Amps /\ req' \in Chosen
<1>1. UNCHANGED <<on, seen, disabled, lost, rsn, req, acAmp, acAtt>>
  BY DEF amp
<1>2. PathOwned' /\ Obeyed
  BY <1>1 DEF Inv, PathOwned, Obeyed
<1>3. AmpType'
  BY <1>1 DEF Inv, TypeInv, AmpType
<1>4. rsn' \subseteq Amps /\ req' \in Chosen
  <2>1. rsn \subseteq Amps /\ req \in Chosen /\ rsn' = rsn /\ req' = req
    BY <1>1 DEF Inv, TypeInv, AlgoType
  <2> QED BY <2>1
<1> QED BY <1>2, <1>3, <1>4

\* A standby algorithm's step: what it switches off it asks for.
LEMMA Asked ==
    ASSUME Inv, NEW m \in Algos, NEW E \in SUBSET Amps, NEW D \in SUBSET Amps,
           NEW T \in SUBSET Amps, D \subseteq T, E \subseteq user,
           req' = Put(req, m, {}, T), Switch(E, D), UNCHANGED <<given, acAmp, acAtt>>
    PROVE  PathOwned' /\ Obeyed /\ AmpType' /\ rsn' \subseteq Amps /\ req' \in Chosen /\ Bounded'
<1>1. /\ AmpType' /\ rsn' \subseteq Amps
      /\ lost' = lost \/ (lost' = lost + 1 /\ env + lost < MaxEvents)
      /\ rsn' = (rsn \ E) \cup D
      /\ on' \ on \subseteq E
  BY SwitchType DEF Inv
<1>2. req' \in Chosen /\ req'[m] = req[m] \cup T /\ \A n \in Algos \ {m} : req'[n] = req[n]
  BY PutType DEF Inv, TypeInv, AlgoType
<1>3. PathOwned'
  <2>1. req["mimo"] \subseteq req'["mimo"] /\ req["amp"] \subseteq req'["amp"]
        /\ T \subseteq req'["mimo"] \cup req'["amp"]
    BY <1>2, TwoAlgos
  <2> QED BY <1>1, <2>1 DEF Inv, PathOwned
<1>4. Obeyed
  BY <1>1 DEF Obeyed, given
<1>5. Bounded'
  BY <1>1, StillBounded
<1> QED BY <1>1, <1>2, <1>3, <1>4, <1>5

-----------------------------------------------------------------------------
(* MIMO standby                                                            *)

LEMMA GivenKept ==
    ASSUME Inv, UNCHANGED given
    PROVE  GivenType' /\ user' = user /\ (lost' = lost => Bounded')
BY DEF Inv, TypeInv, GivenType, given, Bounded

LEMMA AcKept == ASSUME Inv, UNCHANGED acs PROVE AcType' /\ acAmp' = acAmp /\ acAtt' = acAtt
BY DEF Inv, TypeInv, AcType, acs

LEMMA MimoDlyType ==
    ASSUME Inv, NEW over, NEW T \in SUBSET Amps
    PROVE  /\ MimoDly(over) \subseteq Amps
           /\ [dly EXCEPT !["mimo"] = MimoDly(over)] \in Chosen
           /\ [dly EXCEPT !["mimo"] = MimoDly(over) \cup T] \in Chosen
<1>1. dly["mimo"] \subseteq Amps
  BY TwoAlgos DEF Inv, TypeInv, AlgoType, Chosen
<1>2. MimoDly(over) \subseteq Amps
  BY <1>1 DEF MimoDly
<1> QED BY <1>2, SetType, TwoAlgos DEF Inv, TypeInv, AlgoType

LEMMA MimoGoesOnType ==
    ASSUME Inv, MimoGoesOn
    PROVE  /\ changed' \subseteq Algos /\ wasLayer' \in {"mimo", "siso"}
           /\ exiting' \in BOOLEAN /\ sync' \in Chosen
           /\ ModeType'
BY SyncedType, TwoAlgos
   DEF Inv, TypeInv, MimoGoesOn, MemType, GivenType, ModeType, modes

LEMMA MimoDroppedStep ==
    ASSUME Inv, NEW over \in BOOLEAN, MimoDropped(over), UNCHANGED <<pau, acs, given>>
    PROVE  Inv' /\ Obeyed
<1>1. UNCHANGED <<amp, rsn, req, acAmp, acAtt>> /\ lost' = lost
  BY DEF MimoDropped, acs, amp
<1>2. PathOwned' /\ Obeyed /\ AmpType' /\ rsn' \subseteq Amps /\ req' \in Chosen
  BY <1>1, Aside
<1>3. AlgoType'
  BY <1>2, MimoDlyType DEF MimoDropped, Inv, TypeInv, AlgoType
<1>4. MemType' /\ ModeType'
  BY DEF MimoDropped, Inv, TypeInv, MemType, ModeType, GivenType
<1>5. GivenType' /\ AcType' /\ PauType' /\ Bounded'
  BY <1>1, GivenKept, AcKept DEF Inv, TypeInv, PauType
<1> QED BY <1>2, <1>3, <1>4, <1>5 DEF Inv, TypeInv

LEMMA MimoOffStep ==
    ASSUME Inv, NEW over \in BOOLEAN, MimoOff(over), UNCHANGED <<pau, acs, given>>
    PROVE  Inv' /\ Obeyed
<1> DEFINE left == IF Quit THEN st["mimo"] ELSE {}
           turned == wasLayer # layer \/ ("mimo" \in wasOn) # ("mimo" \in enabled)
<1>1. left \subseteq Amps /\ st["mimo"] \subseteq Amps /\ user \subseteq Amps
  BY TwoAlgos DEF Inv, TypeInv, AlgoType, Chosen, GivenType
<1> HIDE DEF left, turned
<1>2. MimoGoesOn
  BY DEF MimoOff
<1>3. GivenType' /\ AcType' /\ PauType'
  BY GivenKept, AcKept DEF Inv, TypeInv, PauType
<1>4. CASE turned
  <2>1. PICK pair \in SUBSET Amps :
          LET back == (st["mimo"] \ left) \cap pair IN
          /\ bk' = Put(bk, "mimo", pair, user \cap pair)
          /\ req' = Put(req, "mimo", {}, back)
          /\ Switch(back \cap user, back \ user)
          /\ st' = Put(st, "mimo", left \cup back, {})
          /\ dly' = [dly EXCEPT !["mimo"] = MimoDly(over) \cup left \cup back]
          /\ wasOn' = (wasOn \ {"mimo"}) \cup (enabled \cap {"mimo"})
          /\ wasIn' = wasIn \ {"mimo"}
    BY <1>4 DEF MimoOff, left, turned
  <2> DEFINE back == (st["mimo"] \ left) \cap pair
             gone == left \cup back
  <2>2. /\ back \subseteq Amps /\ back \cap user \in SUBSET Amps
        /\ back \ user \in SUBSET Amps /\ gone \in SUBSET Amps
        /\ back \ user \subseteq back /\ back \cap user \subseteq user
        /\ MimoDly(over) \cup left \cup back = MimoDly(over) \cup gone
    BY <1>1
  <2>3. req' = Put(req, "mimo", {}, back) /\ Switch(back \cap user, back \ user)
        /\ dly' = [dly EXCEPT !["mimo"] = MimoDly(over) \cup gone]
        /\ st' = Put(st, "mimo", gone, {}) /\ bk' = Put(bk, "mimo", pair, user \cap pair)
    BY <2>1, <2>2
  <2> HIDE DEF back, gone
  <2>4. PathOwned' /\ Obeyed /\ AmpType' /\ rsn' \subseteq Amps /\ req' \in Chosen /\ Bounded'
    BY <2>2, <2>3, AcKept, Asked, TwoAlgos
  <2>5. bk' \in Chosen /\ st' \in Chosen /\ dly' \in Chosen /\ sync' \in Chosen
    BY <1>2, <2>2, <2>3, PutType, MimoDlyType, MimoGoesOnType, TwoAlgos
       DEF Inv, TypeInv, AlgoType
  <2>6. MemType' /\ ModeType'
    BY <1>2, <2>1, MimoGoesOnType DEF Inv, TypeInv, MemType, ModeType
  <2> QED BY <1>3, <2>4, <2>5, <2>6 DEF Inv, TypeInv, AlgoType
<1>5. CASE ~turned
  <2>1. /\ st' = Put(st, "mimo", left, {})
        /\ dly' = [dly EXCEPT !["mimo"] = MimoDly(over) \cup left]
        /\ UNCHANGED <<amp, rsn, req, bk, wasOn, wasIn>>
    BY <1>5 DEF MimoOff, left, turned
  <2>2. UNCHANGED <<amp, rsn, req, acAmp, acAtt>> /\ lost' = lost
    BY <2>1, AcKept DEF amp
  <2>3. PathOwned' /\ Obeyed /\ AmpType' /\ rsn' \subseteq Amps /\ req' \in Chosen /\ Bounded'
    BY <2>2, Aside, GivenKept
  <2>4. st' \in Chosen /\ dly' \in Chosen /\ sync' \in Chosen /\ bk' \in Chosen
    BY <1>1, <1>2, <2>1, PutType, MimoDlyType, MimoGoesOnType, TwoAlgos
       DEF Inv, TypeInv, AlgoType
  <2>5. MemType' /\ ModeType'
    BY <1>2, <2>1, MimoGoesOnType DEF Inv, TypeInv, MemType, ModeType
  <2> QED BY <1>3, <2>3, <2>4, <2>5 DEF Inv, TypeInv, AlgoType
<1> QED BY <1>4, <1>5

\* MimoOn and what its three ways have in common.
LEMMA MimoOnType ==
    ASSUME Inv, MimoOn, wasIn' \subseteq Algos, UNCHANGED <<pau, acs, given>>
    PROVE  MemType' /\ ModeType' /\ sync' \in Chosen /\ GivenType' /\ AcType' /\ PauType'
<1>1. MimoGoesOn /\ wasOn' = wasOn \cup {"mimo"}
  BY DEF MimoOn
<1>2. MemType' /\ ModeType' /\ sync' \in Chosen
  BY <1>1, MimoGoesOnType, TwoAlgos DEF Inv, TypeInv, MemType
<1> QED BY <1>2, GivenKept, AcKept DEF Inv, TypeInv, PauType

LEMMA MimoAcFailStep ==
    ASSUME Inv, NEW over \in BOOLEAN, MimoAcFail(over), UNCHANGED <<pau, acs, given>>
    PROVE  Inv' /\ Obeyed
<1>1. UNCHANGED <<amp, rsn, req, acAmp, acAtt>> /\ lost' = lost /\ MimoOn
      /\ wasIn' \subseteq Algos
  BY AcKept DEF MimoAcFail, amp, Inv, TypeInv, MemType
<1>2. PathOwned' /\ Obeyed /\ AmpType' /\ rsn' \subseteq Amps /\ req' \in Chosen /\ Bounded'
  BY <1>1, Aside, GivenKept
<1>3. MemType' /\ ModeType' /\ sync' \in Chosen /\ GivenType' /\ AcType' /\ PauType'
  BY <1>1, MimoOnType
<1>4. AlgoType'
  BY <1>2, <1>3, MimoDlyType DEF MimoAcFail, Inv, TypeInv, AlgoType
<1> QED BY <1>2, <1>3, <1>4 DEF Inv, TypeInv

LEMMA MimoOutStep ==
    ASSUME Inv, NEW over \in BOOLEAN, MimoOut(over), UNCHANGED <<pau, acs, given>>
    PROVE  Inv' /\ Obeyed
<1> DEFINE back == IF "mimo" \in wasIn THEN st["mimo"] ELSE {}
<1>1. back \subseteq Amps /\ user \in SUBSET Amps
  BY TwoAlgos DEF Inv, TypeInv, AlgoType, Chosen, GivenType
<1>2. /\ MimoOn
      /\ bk' = IF "mimo" \in wasIn THEN [bk EXCEPT !["mimo"] = user] ELSE bk
      /\ req' = Put(req, "mimo", {}, back)
      /\ Switch(back \cap user, back \ user)
      /\ st' = [st EXCEPT !["mimo"] = {}]
      /\ dly' = [dly EXCEPT !["mimo"] = MimoDly(over) \cup back]
      /\ wasIn' = wasIn \ {"mimo"}
  BY DEF MimoOut
<1> HIDE DEF back
<1>3. back \cap user \in SUBSET Amps /\ back \ user \in SUBSET Amps
      /\ back \ user \subseteq back /\ back \cap user \subseteq user
  BY <1>1
<1>4. PathOwned' /\ Obeyed /\ AmpType' /\ rsn' \subseteq Amps /\ req' \in Chosen /\ Bounded'
  BY <1>1, <1>2, <1>3, AcKept, Asked, TwoAlgos
<1>5. MemType' /\ ModeType' /\ sync' \in Chosen /\ GivenType' /\ AcType' /\ PauType'
  BY <1>2, MimoOnType DEF Inv, TypeInv, MemType
<1>6. bk' \in Chosen /\ st' \in Chosen /\ dly' \in Chosen
  BY <1>1, <1>2, SetType, MimoDlyType, TwoAlgos DEF Inv, TypeInv, AlgoType
<1> QED BY <1>4, <1>5, <1>6 DEF Inv, TypeInv, AlgoType

LEMMA MimoInStep ==
    ASSUME Inv, NEW over \in BOOLEAN, NEW due \in SUBSET Amps, MimoIn(over, due),
           UNCHANGED <<pau, acs, given>>
    PROVE  Inv' /\ Obeyed
<1> DEFINE first == "mimo" \notin wasIn
           held == IF first THEN {} ELSE st["mimo"]
           wanted == IF lead = "bad" THEN {} ELSE user
           enter == {p \in (wanted \cap due) \ held : AlarmOn(p) /\ lead = "low"}
           leave == {p \in wanted \cap due \cap held : ~AlarmOn(p) /\ lead = "high"}
           drop == held \ wanted
           both == enter \cup leave
           dlyNow == (IF first THEN {} ELSE MimoDly(over)) \cup leave \cup drop
           bkNow == IF first THEN user ELSE bk["mimo"] \cup leave
           stNow == (held \cup enter) \ (leave \cup drop)
<1>1. st["mimo"] \subseteq Amps /\ bk["mimo"] \subseteq Amps /\ user \subseteq Amps
      /\ MimoDly(over) \subseteq Amps
  BY TwoAlgos, MimoDlyType DEF Inv, TypeInv, AlgoType, Chosen, GivenType
<1>2. /\ MimoOn
      /\ bk' = [bk EXCEPT !["mimo"] = bkNow]
      /\ req' = Put(req, "mimo", {}, both)
      /\ Switch(leave, enter)
      /\ st' = [st EXCEPT !["mimo"] = stNow]
      /\ dly' = [dly EXCEPT !["mimo"] = dlyNow]
      /\ wasIn' = wasIn \cup {"mimo"}
  BY TwoAlgos DEF MimoIn, Inv, TypeInv, AlgoType, Chosen
<1>3. /\ leave \in SUBSET Amps /\ enter \in SUBSET Amps /\ both \in SUBSET Amps
      /\ enter \subseteq both /\ leave \subseteq user
      /\ dlyNow \in SUBSET Amps /\ bkNow \in SUBSET Amps /\ stNow \in SUBSET Amps
  BY <1>1
<1> HIDE DEF enter, leave, both, dlyNow, bkNow, stNow
<1>4. PathOwned' /\ Obeyed /\ AmpType' /\ rsn' \subseteq Amps /\ req' \in Chosen /\ Bounded'
  BY <1>2, <1>3, AcKept, Asked, TwoAlgos
<1>5. MemType' /\ ModeType' /\ sync' \in Chosen /\ GivenType' /\ AcType' /\ PauType'
  BY <1>2, TwoAlgos, MimoOnType DEF Inv, TypeInv, MemType
<1>6. bk' \in Chosen /\ st' \in Chosen /\ dly' \in Chosen
  BY <1>2, <1>3, SetType, TwoAlgos DEF Inv, TypeInv, AlgoType
<1> QED BY <1>4, <1>5, <1>6 DEF Inv, TypeInv, AlgoType

LEMMA MimoStep ==
    ASSUME Inv, NEW over \in BOOLEAN, NEW due \in SUBSET Amps, MimoPass(over, due)
    PROVE  Inv' /\ Obeyed
BY MimoDroppedStep, MimoOffStep, MimoAcFailStep, MimoOutStep, MimoInStep DEF MimoPass

-----------------------------------------------------------------------------
(* AMP standby                                                             *)

LEMMA AmpDlyType ==
    ASSUME Inv, NEW over, NEW T \in SUBSET Amps
    PROVE  /\ AmpDly(over) \subseteq Amps
           /\ [dly EXCEPT !["amp"] = AmpDly(over)] \in Chosen
           /\ [dly EXCEPT !["amp"] = AmpDly(over) \cup T] \in Chosen
<1>1. dly["amp"] \subseteq Amps
  BY TwoAlgos DEF Inv, TypeInv, AlgoType, Chosen
<1>2. AmpDly(over) \subseteq Amps
  BY <1>1 DEF AmpDly
<1> QED BY <1>2, SetType, TwoAlgos DEF Inv, TypeInv, AlgoType

LEMMA AmpExitType ==
    ASSUME Inv, NEW over, AmpExit(over)
    PROVE  dly' \in Chosen /\ st' \in Chosen
<1> DEFINE T == path \cap st["amp"]
<1>1. T \in SUBSET Amps
  BY DEF Inv, TypeInv, GivenType
<1>2. dly' = [dly EXCEPT !["amp"] = AmpDly(over) \cup T]
  BY DEF AmpExit
<1> HIDE DEF T
<1>3. dly' \in Chosen
  BY <1>1, <1>2, AmpDlyType
<1> QED BY <1>3, SetType, TwoAlgos DEF AmpExit, Inv, TypeInv, AlgoType

LEMMA AmpRestoreType == ASSUME Inv, AmpRestore PROVE bk' \in Chosen
<1>1. user \cap path \in SUBSET Amps
  BY DEF Inv, TypeInv, GivenType
<1> QED BY <1>1, PutType, TwoAlgos DEF AmpRestore, Inv, TypeInv, AlgoType

\* AMP standby switches only by AmpIn; what else its pass may do.
AmpQuiet(over) ==
    \/ AmpExiting(over) \/ AmpDropped(over) \/ AmpOff(over) \/ AmpAcFail(over)
    \/ AmpOut(over) \/ AmpSkip(over)

LEMMA AmpQuietStep ==
    ASSUME Inv, NEW over \in BOOLEAN, AmpQuiet(over), UNCHANGED <<pau, wasLayer, acs, given>>
    PROVE  Inv' /\ Obeyed
<1>1. UNCHANGED <<amp, rsn, req>>
  BY DEF AmpQuiet, AmpExiting, AmpDropped, AmpOff, AmpAcFail, AmpOut, AmpSkip
<1>2. PathOwned' /\ Obeyed /\ AmpType' /\ rsn' \subseteq Amps /\ req' \in Chosen
  BY <1>1, AcKept, Aside
<1>3. GivenType' /\ AcType' /\ PauType' /\ Bounded'
  BY <1>1, GivenKept, AcKept DEF amp, Inv, TypeInv, PauType
<1>4. st \in Chosen /\ bk \in Chosen /\ sync \in Chosen
      /\ [dly EXCEPT !["amp"] = AmpDly(over)] \in Chosen
      /\ (Synced("amp") => sync' \in Chosen)
  BY AmpDlyType, SyncedType, TwoAlgos DEF Inv, TypeInv, AlgoType
<1>5. st' \in Chosen /\ dly' \in Chosen /\ bk' \in Chosen /\ sync' \in Chosen
  <2>1. CASE AmpExiting(over) \/ AmpDropped(over) \/ AmpAcFail(over)
    BY <1>4, <2>1 DEF AmpExiting, AmpDropped, AmpAcFail
  <2>2. CASE AmpOff(over)
    BY <1>4, <2>2, AmpExitType, AmpRestoreType DEF AmpOff
  <2>3. CASE AmpOut(over)
    BY <1>4, <2>3, AmpExitType, AmpRestoreType DEF AmpOut
  <2>4. CASE AmpSkip(over)
    BY <1>4, <2>4, AmpExitType, AmpRestoreType DEF AmpSkip
  <2> QED BY <2>1, <2>2, <2>3, <2>4 DEF AmpQuiet
<1>6. MemType' /\ ModeType'
  <2>1. MemType /\ ModeType
    BY DEF Inv, TypeInv
  <2>2. CASE AmpExiting(over) \/ AmpDropped(over)
    BY <2>1, <2>2, TwoAlgos DEF AmpExiting, AmpDropped, MemType, ModeType, modes
  <2>3. CASE AmpOff(over)
    BY <2>1, <2>3, TwoAlgos DEF AmpOff, AmpGoesOn, MemType, ModeType, modes
  <2>4. CASE AmpAcFail(over)
    BY <2>1, <2>4, TwoAlgos DEF AmpAcFail, AmpOn, AmpGoesOn, MemType, ModeType, modes
  <2>5. CASE AmpOut(over)
    BY <2>1, <2>5, TwoAlgos DEF AmpOut, AmpOn, AmpGoesOn, MemType, ModeType, modes
  <2>6. CASE AmpSkip(over)
    BY <2>1, <2>6, TwoAlgos DEF AmpSkip, AmpOn, AmpGoesOn, MemType, ModeType, modes
  <2> QED BY <2>2, <2>3, <2>4, <2>5, <2>6 DEF AmpQuiet
<1> QED BY <1>2, <1>3, <1>5, <1>6 DEF Inv, TypeInv, AlgoType

LEMMA AmpInStep ==
    ASSUME Inv, NEW over \in BOOLEAN, AmpIn(over), UNCHANGED <<pau, wasLayer, acs, given>>
    PROVE  Inv' /\ Obeyed
<1> DEFINE first == "amp" \notin wasIn
           held == IF first THEN {} ELSE st["amp"]
           off == {p \in path : AlarmOn(p)}
           gone == (IF first THEN path \cap st["amp"] ELSE {}) \cup (held \ path)
<1>1. st["amp"] \subseteq Amps /\ path \in SUBSET Amps
  BY TwoAlgos DEF Inv, TypeInv, AlgoType, Chosen, GivenType
<1>2. off \in SUBSET Amps /\ gone \in SUBSET Amps /\ {} \in SUBSET Amps /\ {} \subseteq user
      /\ off \subseteq off
  BY <1>1
<1>3. /\ AmpOn /\ Synced("amp")
      /\ IF first THEN AmpRestore ELSE UNCHANGED bk
      /\ st' = [st EXCEPT !["amp"] = path]
      /\ dly' = [dly EXCEPT !["amp"] = AmpDly(over) \cup gone]
      /\ req' = Put(req, "amp", {}, off)
      /\ Switch({}, off)
      /\ wasIn' = wasIn \cup {"amp"}
      /\ UNCHANGED exiting
  <2>1. AmpDly(over) \cup (IF first THEN path \cap st["amp"] ELSE {}) \cup (held \ path)
          = AmpDly(over) \cup gone
    OBVIOUS
  <2> QED BY <2>1 DEF AmpIn
<1> HIDE DEF off, gone
<1>4. PathOwned' /\ Obeyed /\ AmpType' /\ rsn' \subseteq Amps /\ req' \in Chosen /\ Bounded'
  BY <1>2, <1>3, AcKept, Asked, TwoAlgos
<1>5. MemType' /\ ModeType'
  BY <1>3, TwoAlgos DEF AmpOn, AmpGoesOn, MemType, ModeType, modes, Inv, TypeInv
<1>6. st' \in Chosen /\ dly' \in Chosen /\ sync' \in Chosen /\ bk' \in Chosen
  BY <1>1, <1>2, <1>3, SetType, AmpDlyType, AmpRestoreType, SyncedType, TwoAlgos
     DEF Inv, TypeInv, AlgoType
<1>7. GivenType' /\ AcType' /\ PauType'
  BY GivenKept, AcKept DEF Inv, TypeInv, PauType
<1> QED BY <1>4, <1>5, <1>6, <1>7 DEF Inv, TypeInv, AlgoType

LEMMA AmpStep ==
    ASSUME Inv, NEW over \in BOOLEAN, NEW dig \in BOOLEAN, AmpPass(over, dig)
    PROVE  Inv' /\ Obeyed
BY AmpQuietStep, AmpInStep DEF AmpPass, AmpQuiet

-----------------------------------------------------------------------------
(* Battery saving                                                          *)

\* A step that switches on and off, marked or not, and is owned.
LEMMA Switched ==
    ASSUME Inv, NEW E \in SUBSET Amps, NEW D \in SUBSET Amps, Switch(E, D), UNCHANGED given
    PROVE  /\ AmpType' /\ rsn' \subseteq Amps /\ Bounded'
           /\ rsn' = (rsn \ E) \cup D /\ on' \ on \subseteq E
<1>1. /\ AmpType' /\ rsn' \subseteq Amps
      /\ lost' = lost \/ (lost' = lost + 1 /\ env + lost < MaxEvents)
      /\ rsn' = (rsn \ E) \cup D /\ on' \ on \subseteq E
  BY SwitchType DEF Inv
<1>2. Bounded'
  BY <1>1, StillBounded
<1> QED BY <1>1, <1>2

LEMMA AcStep ==
    ASSUME Inv, NEW over \in BOOLEAN, AcPass(over)
    PROVE  Inv' /\ Obeyed
<1>1. UNCHANGED <<pau, algo, sync, mem, given>> /\ (AcIdle(over) \/ AcSave(over))
  BY DEF AcPass
<1>2. AlgoType' /\ MemType' /\ GivenType' /\ PauType' /\ req' = req /\ user' = user
  BY <1>1, GivenKept DEF Inv, TypeInv, AlgoType, MemType, PauType, algo, mem
<1>3. SeenOn \in SUBSET Amps /\ acAmp \ SeenOn \in SUBSET Amps /\ {} \in SUBSET Amps
  BY DEF SeenOn, Inv, TypeInv, AcType
<1>4. CASE AcIdle(over)
  <2>1. UNCHANGED <<amp, rsn, req, acAmp, acAtt>> /\ lost' = lost
    BY <1>2, <1>4 DEF AcIdle, amp
  <2>2. PathOwned' /\ Obeyed /\ AmpType' /\ rsn' \subseteq Amps /\ Bounded'
    BY <1>1, <2>1, Aside, GivenKept
  <2>3. AcType' /\ ModeType'
    BY <1>4 DEF AcIdle, AcType, ModeType, modes, Inv, TypeInv
  <2> QED BY <1>2, <2>2, <2>3 DEF Inv, TypeInv
<1>5. CASE AcSave(over)
  <2>1. ModeType' /\ acExt' \in BOOLEAN /\ batt' \in BOOLEAN /\ reOn' \subseteq Algos
    BY <1>5 DEF AcSave, StillEnabled, Inv, TypeInv, ModeType, AcType
  <2>2. CASE UNCHANGED <<amp, rsn, acAmp, acAtt, att>>
    <3>1. PathOwned' /\ Obeyed /\ AmpType' /\ rsn' \subseteq Amps /\ lost' = lost
      BY <1>2, <2>2, Aside DEF amp
    <3>2. AcType' /\ Bounded'
      BY <1>1, <2>1, <2>2, <3>1, GivenKept DEF Inv, TypeInv, AcType
    <3> QED BY <1>2, <2>1, <3>1, <3>2 DEF Inv, TypeInv
  <2>3. CASE acAmp' = acAmp \cup SeenOn /\ Switch({}, SeenOn) /\ UNCHANGED <<acAtt, att>>
    <3>1. AmpType' /\ rsn' \subseteq Amps /\ Bounded' /\ rsn' = rsn \cup SeenOn
          /\ on' \ on = {}
      BY <1>1, <1>3, <2>3, Switched
    <3>2. PathOwned' /\ Obeyed
      BY <1>2, <2>3, <3>1 DEF Inv, PathOwned, Obeyed
    <3>3. AcType'
      BY <1>3, <2>1, <2>3 DEF Inv, TypeInv, AcType
    <3> QED BY <1>2, <2>1, <3>1, <3>2, <3>3 DEF Inv, TypeInv
  <2>4. CASE /\ acAtt' = acAtt \cup SeenOn /\ att' = att \cup (SeenOn \ acAtt)
             /\ acAmp' = acAmp \ SeenOn /\ Switch(acAmp \ SeenOn, {})
    <3>1. AmpType' /\ rsn' \subseteq Amps /\ Bounded' /\ rsn' = (rsn \ (acAmp \ SeenOn)) \cup {}
          /\ on' \ on \subseteq acAmp \ SeenOn
      BY <1>1, <1>3, <2>4, Switched
    <3>2. PathOwned'
      BY <1>2, <2>4, <3>1 DEF Inv, PathOwned
    <3>3. Obeyed
      BY <3>1 DEF Obeyed
    <3>4. AcType'
      BY <1>3, <2>1, <2>4 DEF Inv, TypeInv, AcType
    <3> QED BY <1>2, <2>1, <3>1, <3>2, <3>3, <3>4 DEF Inv, TypeInv
  <2> QED BY <1>5, <2>2, <2>3, <2>4 DEF AcSave
<1> QED BY <1>1, <1>4, <1>5

LEMMA RestartStep ==
    ASSUME Inv, NEW m \in Algos, Restart(m)
    PROVE  Inv' /\ Obeyed
<1>1. UNCHANGED <<amp, rsn, req, acAmp, acAtt>> /\ lost' = lost
      /\ UNCHANGED <<pau, algo, sync, mem, given>>
  BY DEF Restart, algo, amp
<1>2. PathOwned' /\ Obeyed /\ AmpType' /\ rsn' \subseteq Amps /\ GivenType' /\ Bounded'
  BY <1>1, Aside, GivenKept
<1>3. AlgoType' /\ MemType' /\ PauType'
  BY <1>1 DEF Inv, TypeInv, AlgoType, MemType, PauType, algo, mem
<1>4. AcType' /\ ModeType'
  BY DEF Restart, Inv, TypeInv, AcType, ModeType
<1> QED BY <1>2, <1>3, <1>4 DEF Inv, TypeInv

-----------------------------------------------------------------------------
(* The task of an amplifier                                                *)

LEMMA AtType == ASSUME Inv, NEW p \in Amps, NEW s, NEW t \in {"poll", "ac", "mimo", "amp", "user"},
                       At(p, s, t)
                PROVE  PauType'
BY DEF At, Inv, TypeInv, PauType

LEMMA Reported == \A p \in Amps : p \in disabled <=> ~AlarmOn(p)
BY DEF AlarmOn

\* What the steps of the task leave alone.
LEMMA TaskKept ==
    ASSUME Inv, UNCHANGED <<st, dly, bk, modes, mem, given>>
    PROVE  MemType' /\ ModeType' /\ GivenType' /\ user' = user /\ (lost' = lost => Bounded')
           /\ st' \in Chosen /\ dly' \in Chosen /\ bk' \in Chosen
BY GivenKept DEF Inv, TypeInv, AlgoType, MemType, ModeType, mem, modes

LEMMA PollStep ==
    ASSUME Inv, NEW p \in Amps, Poll(p)
    PROVE  Inv' /\ Obeyed
<1>1. UNCHANGED <<on, lost, algo, sync, rsn, modes, mem, acs, given>> /\ Heard({p})
      /\ UNCHANGED <<st, dly, bk, req>>
  BY DEF Poll, algo
<1>2. AmpType'
  BY <1>1, HeardType DEF Inv, TypeInv, AmpType
<1>3. MemType' /\ ModeType' /\ GivenType' /\ Bounded' /\ AcType' /\ PauType' /\ AlgoType'
      /\ acAmp' = acAmp /\ acAtt' = acAtt
  BY <1>1, TaskKept, AcKept, AtType DEF Poll, Inv, TypeInv, AlgoType
<1>4. PathOwned' /\ Obeyed
  BY <1>1, <1>3 DEF Inv, PathOwned, Obeyed
<1> QED BY <1>1, <1>2, <1>3, <1>4 DEF Inv, TypeInv

LEMMA AcProcStep ==
    ASSUME Inv, NEW p \in Amps, AcProc(p)
    PROVE  Inv' /\ Obeyed
<1>1. UNCHANGED <<algo, sync, modes, mem, acExt, batt, reOn, given>>
      /\ UNCHANGED <<st, dly, bk, req>>
  BY DEF AcProc, algo
<1>2. MemType' /\ ModeType' /\ GivenType' /\ PauType' /\ AlgoType' /\ (lost' = lost => Bounded')
  BY <1>1, TaskKept, AtType DEF AcProc, Inv, TypeInv, AlgoType
<1>3. AcType'
  <2>1. AcType
    BY DEF Inv, TypeInv
  <2>2. acAmp' \subseteq acAmp /\ acAtt' \subseteq acAtt /\ att' \subseteq att
    BY DEF AcProc
  <2> QED BY <1>1, <2>1, <2>2 DEF AcType
<1>4. CASE p \in acAmp /\ Switch({p}, {}) /\ UNCHANGED <<acAmp, acAtt>>
  <2>1. AmpType' /\ rsn' \subseteq Amps /\ Bounded' /\ rsn' = rsn \ {p} /\ on' \ on \subseteq {p}
    <3>1. {p} \in SUBSET Amps /\ {} \in SUBSET Amps
      OBVIOUS
    <3>2. Switch({p}, {}) /\ UNCHANGED given
      BY <1>1, <1>4
    <3> QED BY <3>1, <3>2, Switched
  <2>2. PathOwned' /\ Obeyed
    BY <1>1, <1>4, <2>1 DEF Inv, PathOwned, Obeyed
  <2> QED BY <1>2, <1>3, <2>1, <2>2 DEF Inv, TypeInv
<1>5. CASE /\ UNCHANGED amp
           /\ \/ acAmp' = acAmp \ {p} /\ acAtt' = acAtt
                   /\ rsn' = IF p \in acAtt THEN rsn ELSE rsn \ {p}
              \/ acAtt' = acAtt \ {p} /\ acAmp' = acAmp /\ rsn' = rsn \ {p}
              \/ UNCHANGED <<rsn, acAmp, acAtt>>
  <2>1. UNCHANGED <<on, seen, disabled, lost>>
    BY <1>5 DEF amp
  <2>2. AmpType' /\ rsn' \subseteq Amps /\ Bounded'
    BY <1>2, <1>5, <2>1 DEF Inv, TypeInv, AmpType
  <2>3. PathOwned' /\ Obeyed
    BY <1>1, <1>5, <2>1 DEF Inv, PathOwned, Obeyed
  <2> QED BY <1>2, <1>3, <2>2, <2>3 DEF Inv, TypeInv
<1> QED BY <1>4, <1>5 DEF AcProc

\* The command is repeated until the amplifier reports it: until then the request stands.
LEMMA FollowStep ==
    ASSUME Inv, NEW m \in Algos, NEW p \in Amps, p \in st[m] \cup req[m], Follow(m, p),
           UNCHANGED <<given, acAmp, acAtt>>
    PROVE  /\ PathOwned' /\ Obeyed /\ AmpType' /\ rsn' \subseteq Amps
           /\ req' \in Chosen /\ Bounded'
<1>0. req \in Chosen /\ req[m] \subseteq Amps
  BY DEF Inv, TypeInv, AlgoType, Chosen
<1>1. CASE p \in st[m] /\ UNCHANGED <<amp, rsn, req>>
  <2>1. UNCHANGED <<amp, rsn, req, acAmp, acAtt>> /\ lost' = lost
    BY <1>1 DEF amp
  <2> QED BY <2>1, Aside, GivenKept
<1>2. CASE p \in st[m] /\ p \in req[m] /\ Switch({}, {p}) /\ UNCHANGED req
  <2>1. {} \in SUBSET Amps /\ {p} \in SUBSET Amps
    OBVIOUS
  <2>2. /\ AmpType' /\ rsn' \subseteq Amps /\ Bounded' /\ rsn' = (rsn \ {}) \cup {p}
        /\ on' \ on \subseteq {}
    BY <1>2, <2>1, Switched
  <2>3. PathOwned' /\ Obeyed
    BY <1>2, <2>2, TwoAlgos DEF Inv, PathOwned, Obeyed
  <2> QED BY <1>0, <1>2, <2>2, <2>3
<1>3. CASE p \notin st[m]
  <2> DEFINE back == Return(m, p)
             E == IF back THEN {p} ELSE {}
             D == IF back THEN {} ELSE {p}
             done == (p \notin disabled') = back
  <2>1. /\ Send(E, D)
        /\ rsn' = IF back \/ done THEN rsn \ {p} ELSE rsn \cup {p}
        /\ req' = IF done THEN Put(req, m, {p}, {}) ELSE req
    BY <1>3 DEF Follow
  <2>2. E \in SUBSET Amps /\ D \in SUBSET Amps
    OBVIOUS
  <2>3. \A q \in E : q = p /\ (q \in disabled => q \in user)
    BY Reported DEF Return
  <2> HIDE DEF E, D, back, done
  <2>4. AmpType' /\ (lost' = lost \/ (lost' = lost + 1 /\ env + lost < MaxEvents))
        /\ on' \ on \subseteq E
    BY <2>1, <2>2, SendType, SendOn DEF Inv, TypeInv
  <2>5. Bounded'
    BY <2>4, StillBounded
  <2>6. Obeyed
    BY <2>3, <2>4 DEF Obeyed, given
  <2>7. rsn' \subseteq Amps
    BY <2>1 DEF Inv, TypeInv
  <2>8. CASE done
    <3>1. rsn' = rsn \ {p} /\ req' = Put(req, m, {p}, {}) /\ req' \in Chosen
          /\ req'[m] = req[m] \ {p} /\ \A n \in Algos \ {m} : req'[n] = req[n]
      BY <1>0, <2>1, <2>8, PutType
    <3>2. PathOwned'
      BY <3>1, TwoAlgos DEF Inv, PathOwned
    <3> QED BY <2>4, <2>5, <2>6, <2>7, <3>1, <3>2
  <2>9. CASE ~done
    <3>1. rsn' \subseteq rsn \cup {p} /\ req' = req /\ p \in req[m]
      BY <1>3, <2>1, <2>9
    <3>2. PathOwned'
      BY <3>1, TwoAlgos DEF Inv, PathOwned
    <3> QED BY <1>0, <2>4, <2>5, <2>6, <2>7, <3>1, <3>2
  <2> QED BY <2>8, <2>9
<1> QED BY <1>1, <1>2, <1>3 DEF Follow

\* A request moves from one algorithm to the other, or a sync is answered.
LEMMA Handed ==
    ASSUME Inv, NEW p, UNCHANGED <<amp, rsn, acAmp, acAtt, given>>,
           \/ req' = req
           \/ p \in req["amp"] /\ req' = Put(req, "mimo", {p}, {})
    PROVE  /\ PathOwned' /\ Obeyed /\ AmpType' /\ rsn' \subseteq Amps
           /\ req' \in Chosen /\ Bounded'
<1>1. CASE req' = req
  BY <1>1, Aside, GivenKept DEF amp
<1>2. CASE p \in req["amp"] /\ req' = Put(req, "mimo", {p}, {})
  <2>1. req' \in Chosen /\ req'["mimo"] = req["mimo"] \ {p} /\ req'["amp"] = req["amp"]
    BY <1>2, PutType, TwoAlgos DEF Inv, TypeInv, AlgoType
  <2>2. UNCHANGED <<on, seen, disabled, lost>>
    BY DEF amp
  <2>3. PathOwned' /\ Obeyed
    BY <1>2, <2>1, <2>2 DEF Inv, PathOwned, Obeyed
  <2>4. AmpType' /\ rsn' \subseteq Amps /\ Bounded'
    BY <2>2, GivenKept DEF Inv, TypeInv, AmpType
  <2> QED BY <2>1, <2>3, <2>4
<1> QED BY <1>1, <1>2

LEMMA SyncTaken ==
    ASSUME Inv, NEW m \in Algos, NEW p, sync' = sync \/ sync' = Put(sync, m, {p}, {})
    PROVE  sync' \in Chosen
BY PutType DEF Inv, TypeInv, AlgoType

LEMMA MimoProcStep ==
    ASSUME Inv, NEW p \in Amps, MimoProc(p)
    PROVE  Inv' /\ Obeyed
<1>1. UNCHANGED <<st, dly, bk, modes, mem, acs, given>>
  BY DEF MimoProc
<1>2. MemType' /\ ModeType' /\ GivenType' /\ AcType' /\ PauType' /\ sync' \in Chosen
      /\ st' \in Chosen /\ dly' \in Chosen /\ bk' \in Chosen
      /\ UNCHANGED <<acAmp, acAtt>>
  BY <1>1, TaskKept, AcKept, AtType, SyncTaken, TwoAlgos DEF MimoProc
<1>3. \/ UNCHANGED <<amp, rsn, req>>
      \/ p \in req["amp"] /\ req' = Put(req, "mimo", {p}, {}) /\ UNCHANGED <<amp, rsn>>
      \/ p \in st["mimo"] \cup req["mimo"] /\ Follow("mimo", p)
  BY DEF MimoProc
<1>4. PathOwned' /\ Obeyed /\ AmpType' /\ rsn' \subseteq Amps /\ req' \in Chosen /\ Bounded'
  BY <1>1, <1>2, <1>3, Handed, FollowStep, TwoAlgos
<1> QED BY <1>2, <1>4 DEF Inv, TypeInv, AlgoType

LEMMA AmpProcStep ==
    ASSUME Inv, NEW p \in Amps, AmpProc(p)
    PROVE  Inv' /\ Obeyed
<1>1. UNCHANGED <<st, dly, bk, modes, mem, acs, given>>
  BY DEF AmpProc
<1>2. MemType' /\ ModeType' /\ GivenType' /\ AcType' /\ PauType' /\ sync' \in Chosen
      /\ st' \in Chosen /\ dly' \in Chosen /\ bk' \in Chosen
      /\ UNCHANGED <<acAmp, acAtt>>
  BY <1>1, TaskKept, AcKept, AtType, SyncTaken, TwoAlgos DEF AmpProc
<1>3. \/ UNCHANGED <<amp, rsn, req>>
      \/ p \in st["amp"] \cup req["amp"] /\ Follow("amp", p)
  BY DEF AmpProc
<1>4. PathOwned' /\ Obeyed /\ AmpType' /\ rsn' \subseteq Amps /\ req' \in Chosen /\ Bounded'
  BY <1>1, <1>2, <1>3, Handed, FollowStep, TwoAlgos
<1> QED BY <1>2, <1>4 DEF Inv, TypeInv, AlgoType

LEMMA UserProcStep ==
    ASSUME Inv, NEW p \in Amps, UserProc(p)
    PROVE  Inv' /\ Obeyed
<1>1. UNCHANGED <<algo, sync, modes, mem, acs, given>> /\ UNCHANGED <<st, dly, bk, req>>
  BY DEF UserProc, algo
<1>2. MemType' /\ ModeType' /\ GivenType' /\ AcType' /\ PauType' /\ AlgoType'
      /\ UNCHANGED <<acAmp, acAtt, user>> /\ (lost' = lost => Bounded')
  BY <1>1, TaskKept, AcKept, AtType DEF UserProc, Inv, TypeInv, AlgoType
<1>3. CASE UNCHANGED <<amp, rsn>>
  <2>1. lost' = lost
    BY <1>3 DEF amp
  <2>2. PathOwned' /\ Obeyed /\ AmpType' /\ rsn' \subseteq Amps
    BY <1>1, <1>2, <1>3, Aside
  <2> QED BY <1>2, <2>1, <2>2 DEF Inv, TypeInv
<1>4. CASE UserSwitch(p, p \in user)
  <2>1. AmpType' /\ rsn' \subseteq rsn
        /\ (lost' = lost \/ (lost' = lost + 1 /\ env + lost < MaxEvents))
        /\ on' \ on \subseteq (IF p \in user THEN {p} ELSE {})
    <3> DEFINE want == p \in user
    <3>1. want \in BOOLEAN /\ UserSwitch(p, want)
      BY <1>4
    <3> HIDE DEF want
    <3>2. AmpType' /\ rsn' \subseteq rsn
          /\ (lost' = lost \/ (lost' = lost + 1 /\ env + lost < MaxEvents))
          /\ on' \ on \subseteq (IF want THEN {p} ELSE {})
      BY <3>1, UserSwitchType DEF Inv
    <3> QED BY <3>2 DEF want
  <2>2. Bounded'
    BY <1>1, <2>1, StillBounded
  <2>3. PathOwned' /\ Obeyed /\ rsn' \subseteq Amps
    BY <1>1, <1>2, <2>1 DEF Inv, TypeInv, PathOwned, Obeyed
  <2> QED BY <1>2, <2>1, <2>2, <2>3 DEF Inv, TypeInv
<1> QED BY <1>3, <1>4 DEF UserProc

LEMMA PauStep ==
    ASSUME Inv, NEW p \in Amps, PauTask(p)
    PROVE  Inv' /\ Obeyed
BY PollStep, AcProcStep, MimoProcStep, AmpProcStep, UserProcStep DEF PauTask

-----------------------------------------------------------------------------
(* Operator, clock, mains and lead                                         *)

LEMMA EventBound == ASSUME Inv, Event, lost' = lost \/ (lost' = lost + 1 /\ env + lost < MaxEvents)
                    PROVE  env' \in Nat /\ Bounded'
<1>1. env \in Nat /\ lost \in Nat /\ MaxEvents \in Nat /\ env + lost < MaxEvents /\ env' = env + 1
  BY StandbyAssumption DEF Inv, TypeInv, AmpType, GivenType, Event
<1>2. env' + lost' <= MaxEvents + 1
  BY <1>1
<1> QED BY <1>1, <1>2 DEF Bounded

LEMMA UserOnOffStep ==
    ASSUME Inv, NEW p \in Amps, UserOnOff(p)
    PROVE  Inv' /\ Obeyed
<1> DEFINE want == p \notin user
<1>1. /\ UserSwitch(p, want) /\ want \in BOOLEAN /\ Event
      /\ user' = IF p \in user THEN user \ {p} ELSE user \cup {p}
      /\ UNCHANGED <<pau, algo, sync, modes, mem, acs>>
      /\ UNCHANGED <<path, layer, window, lead, ac, ext>>
  BY DEF UserOnOff
<1>2. user' \subseteq Amps /\ (want => p \in user')
  BY <1>1 DEF Inv, TypeInv, GivenType
<1> HIDE DEF want
<1>3. /\ AmpType' /\ rsn' \subseteq rsn
      /\ lost' = lost \/ (lost' = lost + 1 /\ env + lost < MaxEvents)
      /\ on' \ on \subseteq (IF want THEN {p} ELSE {})
  BY <1>1, UserSwitchType DEF Inv
<1>4. env' \in Nat /\ Bounded'
  BY <1>1, <1>3, EventBound
<1>5. AlgoType' /\ MemType' /\ ModeType' /\ AcType' /\ PauType' /\ UNCHANGED <<req, acAmp, acAtt>>
  BY <1>1, AcKept
     DEF Inv, TypeInv, AlgoType, MemType, ModeType, PauType, algo, mem, modes
<1>6. GivenType'
  BY <1>1, <1>2, <1>4 DEF Inv, TypeInv, GivenType
<1>7. PathOwned' /\ Obeyed /\ rsn' \subseteq Amps
  BY <1>2, <1>3, <1>5 DEF Inv, TypeInv, PathOwned, Obeyed
<1> QED BY <1>3, <1>4, <1>5, <1>6, <1>7 DEF Inv, TypeInv

\* The other events change settings only.
Settings ==
    \/ \E p \in Amps : SetPath(p)
    \/ \E m \in Algos : Choose(m) \/ Dismiss(m) \/ SetTimes(m)
    \/ Outside

LEMMA SettingStep ==
    ASSUME Inv, Settings
    PROVE  Inv' /\ Obeyed
<1>1. Event /\ UNCHANGED <<amp, pau, algo, sync, rsn, acs, user>>
  BY DEF Settings, SetPath, Choose, Dismiss, SetTimes, Outside
<1>2. UNCHANGED <<amp, rsn, req, acAmp, acAtt>> /\ lost' = lost
  BY <1>1, AcKept DEF amp, algo
<1>3. PathOwned' /\ Obeyed /\ AmpType' /\ rsn' \subseteq Amps
  BY <1>2, Aside
<1>4. env' \in Nat /\ Bounded'
  BY <1>1, <1>2, EventBound
<1>5. AlgoType' /\ AcType' /\ PauType'
  BY <1>1, AcKept DEF Inv, TypeInv, AlgoType, PauType, algo
<1>6. MemType' /\ ModeType'
  <2>1. MemType /\ ModeType
    BY DEF Inv, TypeInv
  <2>2. CASE \E p \in Amps : SetPath(p)
    BY <2>1, <2>2, TwoAlgos DEF SetPath, MemType, ModeType, modes
  <2>3. CASE \E m \in Algos : SetTimes(m)
    BY <2>1, <2>3 DEF SetTimes, MemType, ModeType, modes
  <2>4. CASE \E m \in Algos : Choose(m) \/ Dismiss(m)
    BY <2>1, <2>4 DEF Choose, Dismiss, MemType, ModeType, mem
  <2>5. CASE Outside
    BY <2>1, <2>5 DEF Outside, MemType, ModeType, mem, modes
  <2> QED BY <2>2, <2>3, <2>4, <2>5 DEF Settings
<1>7. GivenType'
  <2>1. GivenType /\ user' = user
    BY <1>1 DEF Inv, TypeInv
  <2>2. CASE \E p \in Amps : SetPath(p)
    BY <1>4, <2>1, <2>2 DEF SetPath, GivenType
  <2>3. CASE \E m \in Algos : Choose(m) \/ Dismiss(m) \/ SetTimes(m)
    BY <1>4, <2>1, <2>3 DEF Choose, Dismiss, SetTimes, GivenType
  <2>4. CASE Outside
    <3>1. path' = path /\ path \subseteq Amps
      BY <2>1, <2>4 DEF Outside, GivenType
    <3>2. window' \subseteq Algos
      BY <2>1, <2>4, Zenon DEF Outside, GivenType
    <3>3. layer' \in {"mimo", "siso"} /\ lead' \in {"off", "bad", "low", "high"}
      BY <2>1, <2>4 DEF Outside, GivenType
    <3>4. ac' \in BOOLEAN /\ ext' \in BOOLEAN
      BY <2>1, <2>4 DEF Outside, GivenType
    <3> QED BY <1>4, <2>1, <3>1, <3>2, <3>3, <3>4 DEF GivenType
  <2> QED BY <2>2, <2>3, <2>4 DEF Settings
<1> QED BY <1>3, <1>4, <1>5, <1>6, <1>7 DEF Inv, TypeInv

-----------------------------------------------------------------------------
LEMMA InvInit == Init => Inv
<1> SUFFICES ASSUME Init PROVE Inv
  OBVIOUS
<1>1. AmpType /\ PauType
  BY DEF Init, AmpType, PauType
<1>2. AlgoType
  BY DEF Init, AlgoType, Chosen, None
<1>3. AcType /\ MemType /\ ModeType
  BY TwoAlgos DEF Init, AcType, MemType, ModeType
<1>4. GivenType /\ Bounded
  <2>1. MaxEvents \in Nat
    BY StandbyAssumption DEF StandbyAssumption
  <2>2. env = 0 /\ lost = 0 /\ ac = FALSE
    BY DEF Init
  <2>3. Bounded
    BY <2>1, <2>2 DEF Bounded
  <2>4. GivenType
    <3>1. user \subseteq Amps /\ path \subseteq Amps /\ window \subseteq Algos
      BY DEF Init
    <3>2. layer \in {"mimo", "siso"} /\ lead \in {"off", "bad", "low", "high"}
          /\ ext \in BOOLEAN
      BY DEF Init
    <3> QED BY <2>2, <3>1, <3>2 DEF GivenType
  <2> QED BY <2>3, <2>4
<1>5. rsn = {}
  BY DEF Init
<1> QED BY <1>1, <1>2, <1>3, <1>4, <1>5 DEF Inv, TypeInv, PathOwned

LEMMA InvStep == Inv /\ [Next]_vars => Inv' /\ Obeyed
<1> SUFFICES ASSUME Inv, [Next]_vars PROVE Inv' /\ Obeyed
  OBVIOUS
<1>1. CASE Algorithms
  BY <1>1, MimoStep, AmpStep, AcStep, RestartStep DEF Algorithms
<1>2. CASE \E p \in Amps : PauTask(p)
  BY <1>2, PauStep
<1>3. CASE Environment
  BY <1>3, UserOnOffStep, SettingStep DEF Environment, Settings
<1>4. CASE UNCHANGED vars
  <2>1. UNCHANGED <<amp, pau, algo, sync, rsn, modes, mem, acs, given>>
    BY <1>4 DEF vars
  <2>2. UNCHANGED <<st, dly, bk, req, lost>>
    BY <2>1 DEF algo, amp
  <2>3. PathOwned' /\ Obeyed /\ AmpType' /\ rsn' \subseteq Amps
    BY <2>1, <2>2, AcKept, Aside
  <2>4. AlgoType' /\ MemType' /\ ModeType' /\ AcType' /\ GivenType' /\ PauType' /\ Bounded'
    BY <2>1, <2>2, TaskKept, AcKept DEF Inv, TypeInv, AlgoType, PauType
  <2> QED BY <2>3, <2>4 DEF Inv, TypeInv
<1> QED BY <1>1, <1>2, <1>3, <1>4 DEF Next

LEMMA Invariant == Spec => []Inv
BY InvInit, InvStep, PTL DEF Spec

\* The state stays in its types, for any number of amplifiers, events and lost answers.
THEOREM TypeCorrect == Spec => []TypeOK
<1>1. Inv => TypeOK
  BY TypeParts DEF Inv
<1> QED BY <1>1, Invariant, PTL

\* A path that is shut in the DTU has someone left who will open it.
THEOREM PathsOwned == Spec => []PathOwned
<1>1. Inv => PathOwned
  BY DEF Inv
<1> QED BY <1>1, Invariant, PTL

\* No amplifier known to be off is switched on against the operator, whichever of the
\* three algorithms and its own task acts.
THEOREM OperatorObeyed == Spec => UserOff
<1>1. Inv /\ [Next]_vars => [\A p \in Amps : p \in (on' \ on) \cap disabled
                                                => p \in user' \cup acAmp]_vars
  BY InvStep DEF Obeyed
<1> QED BY <1>1, Invariant, PTL DEF Spec, UserOff
=============================================================================
