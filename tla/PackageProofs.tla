---------------------------- MODULE PackageProofs ----------------------------
(***************************************************************************)
(* Proofs about the way of a package, for any packages, images, blocks,    *)
(* modules, commands and changes of links: the types of the session        *)
(* (DnSession) and of the installation (PkgUpgrade), that a package is     *)
(* unpacked only whole, that the file of a session agrees with what was    *)
(* counted of it and the session is watched, that the unit is reset for a  *)
(* package only after every module has confirmed it, and that Complete is  *)
(* shown only when every module has it.                                    *)
(***************************************************************************)
EXTENDS DnSession, PkgUpgrade, TLAPS

-----------------------------------------------------------------------------
(* PkgFlow.  Its types, kept by every step and so by the modules that are  *)
(* built from it.                                                          *)

LEMMA FlowTypeInit == FlowInit => FlowTypeOK
BY DEF FlowInit, FlowTypeOK, Modes, States, Contents, Headers

LEMMA CommandTypes ==
    ASSUME FlowTypeOK, Commands \/ TimesOut \/ ModuleFails
    PROVE  FlowTypeOK'
<1>1. ASSUME NEW m \in Modes, Starts(m) PROVE FlowTypeOK'
  BY <1>1 DEF FlowTypeOK, Starts, States, task
<1>2. ASSUME NEW p \in Headers, Header(p) PROVE FlowTypeOK'
  BY <1>2 DEF FlowTypeOK, Header, States, task
<1>3. CASE Image \/ WrongImage \/ Block \/ NoBlock
  BY <1>3 DEF FlowTypeOK, Image, WrongImage, Block, NoBlock, States, task
<1>4. CASE Accepted \/ Refused
  BY <1>4 DEF FlowTypeOK, Accepted, Refused, States, task
<1>5. ASSUME NEW a \in BOOLEAN, ImageAccepted(a) PROVE FlowTypeOK'
  BY <1>5 DEF FlowTypeOK, ImageAccepted, States, task
<1>6. CASE Go \/ FtpRequest
  BY <1>6 DEF FlowTypeOK, Go, FtpRequest, task
<1>7. CASE TimesOut \/ ModuleFails
  BY <1>7 DEF FlowTypeOK, TimesOut, ModuleFails, States, task
<1>8. CASE Cancel
  BY <1>8 DEF FlowTypeOK, Cancel, States, Contents, Headers, task
<1> QED BY <1>1, <1>2, <1>3, <1>4, <1>5, <1>6, <1>7, <1>8 DEF Commands

LEMMA FetchTypes ==
    ASSUME FlowTypeOK,
           \/ FtpBegin \/ FtpPass \/ FtpFails
           \/ \E p \in Pkgs : FtpGot(p)
           \/ \E p \in Headers : FtpSpoilt(p)
    PROVE  FlowTypeOK'
<1>1. CASE FtpBegin
  BY <1>1 DEF FlowTypeOK, FtpBegin, States
<1>2. CASE FtpPass
  BY <1>2 DEF FlowTypeOK, FtpPass
<1>3. CASE FtpFails
  BY <1>3 DEF FlowTypeOK, FtpFails, FtpMissed, States
<1>4. ASSUME NEW p \in Pkgs, FtpGot(p) PROVE FlowTypeOK'
  BY <1>4 DEF FlowTypeOK, FtpGot, Modes, Headers
<1>5. ASSUME NEW p \in Headers, FtpSpoilt(p) PROVE FlowTypeOK'
  BY <1>5 DEF FlowTypeOK, FtpSpoilt, FtpMissed, States
<1> QED BY <1>1, <1>2, <1>3, <1>4, <1>5

LEMMA CheckTypes ==
    ASSUME FlowTypeOK,
           \/ ZipNone \/ ZipBegin \/ ZipHash
           \/ \E content \in Contents : ZipCheck(content)
           \/ \E code \in {0, 9} : Unzip(code)
           \/ Inside \/ SpreadEnd
    PROVE  FlowTypeOK'
<1>1. CASE ZipNone \/ ZipBegin
  BY <1>1 DEF FlowTypeOK, ZipNone, ZipBegin, States, Contents, task
<1>2. CASE ZipHash
  BY <1>2 DEF FlowTypeOK, ZipHash, ZipFails, States, Contents
<1>3. ASSUME NEW content \in Contents, ZipCheck(content) PROVE FlowTypeOK'
  BY <1>3 DEF FlowTypeOK, ZipCheck, ZipFails, States, Contents
<1>4. ASSUME NEW code \in {0, 9}, Unzip(code) PROVE FlowTypeOK'
  BY <1>4 DEF FlowTypeOK, Unzip, ZipFails, States, Contents
<1>5. CASE Inside \/ SpreadEnd
  BY <1>5 DEF FlowTypeOK, Inside, SpreadEnd, States, task
<1> QED BY <1>1, <1>2, <1>3, <1>4, <1>5

LEMMA ConfirmTypes ==
    ASSUME FlowTypeOK,
           \/ ConfBusy \/ ConfLater \/ ConfTakeOut
           \/ \E b \in BOOLEAN : ConfEnd(b) \/ Settle(b) \/ Post(b)
           \/ FailRemove \/ FailClear
    PROVE  FlowTypeOK'
<1>1. CASE ConfBusy \/ ConfLater
  BY <1>1 DEF FlowTypeOK, ConfBusy, ConfLater, States
<1>2. CASE ConfTakeOut
  BY <1>2 DEF FlowTypeOK, ConfTakeOut, States, Contents
<1>3. ASSUME NEW b \in BOOLEAN, ConfEnd(b) PROVE FlowTypeOK'
  BY <1>3 DEF FlowTypeOK, ConfEnd, States, Contents
<1>4. ASSUME NEW b \in BOOLEAN, Settle(b) PROVE FlowTypeOK'
  BY <1>4 DEF FlowTypeOK, Settle, States, Contents
<1>5. ASSUME NEW b \in BOOLEAN, Post(b) PROVE FlowTypeOK'
  BY <1>5 DEF FlowTypeOK, Post, States, Contents
<1>6. CASE FailRemove \/ FailClear
  BY <1>6 DEF FlowTypeOK, FailRemove, FailClear, States, Contents, Headers
<1> QED BY <1>1, <1>2, <1>3, <1>4, <1>5, <1>6

LEMMA FlowTypeStep == FlowTypeOK /\ [FlowNext]_flow => FlowTypeOK'
<1>1. ASSUME FlowTypeOK, UNCHANGED flow PROVE FlowTypeOK'
  BY <1>1 DEF FlowTypeOK, flow
<1>2. ASSUME FlowTypeOK, SystemCall PROVE FlowTypeOK'
  BY <1>2, FetchTypes, CheckTypes, ConfirmTypes DEF SystemCall
<1>3. ASSUME FlowTypeOK, Commands \/ TimesOut \/ ModuleFails PROVE FlowTypeOK'
  BY <1>3, CommandTypes
<1> QED BY <1>1, <1>2, <1>3 DEF FlowNext

\* Whatever the clients and the modules do, in whatever order, the way of a package
\* stays within its states.
THEOREM FlowTypeCorrect == FlowSpec => []FlowTypeOK
<1> QED BY FlowTypeInit, FlowTypeStep, PTL DEF FlowSpec

-----------------------------------------------------------------------------
\* What is being unpacked is a package, or was dropped on the way.
Unpacks == pc = "unzip" => zip \in Pkgs \cup {None}

LEMMA UnpacksCommand ==
    ASSUME FlowTypeOK, Unpacks, Commands \/ TimesOut \/ ModuleFails
    PROVE  Unpacks'
<1> USE DEF Unpacks, task
<1>1. CASE TimesOut \/ ModuleFails
  BY <1>1 DEF TimesOut, ModuleFails
<1>2. CASE Commands
  BY <1>2 DEF Commands, Starts, Header, Image, WrongImage, Block, NoBlock, Accepted, Refused,
              ImageAccepted, Go, Cancel, FtpRequest
<1> QED BY <1>1, <1>2

LEMMA UnpacksTask ==
    ASSUME FlowTypeOK, Unpacks, SystemCall
    PROVE  Unpacks'
<1> USE DEF Unpacks
<1>1. CASE ZipHash
  BY <1>1 DEF ZipHash, ZipFails, HashRight, FlowTypeOK, Headers
<1>2. ASSUME NEW content \in Contents, ZipCheck(content) PROVE Unpacks'
  BY <1>2 DEF ZipCheck, ZipFails
<1>3. ASSUME NEW code \in {0, 9}, Unzip(code) PROVE Unpacks'
  BY <1>3 DEF Unzip, ZipFails
<1>4. CASE \/ FtpBegin \/ FtpPass \/ FtpFails
           \/ \E p \in Pkgs : FtpGot(p)
           \/ \E p \in Headers : FtpSpoilt(p)
  BY <1>4 DEF FtpBegin, FtpPass, FtpFails, FtpGot, FtpSpoilt, FtpMissed
<1>5. CASE ZipNone \/ ZipBegin \/ Inside \/ SpreadEnd
  BY <1>5 DEF ZipNone, ZipBegin, Inside, SpreadEnd, task
<1>6. CASE ConfBusy \/ ConfLater \/ ConfTakeOut \/ FailRemove \/ FailClear
  BY <1>6 DEF ConfBusy, ConfLater, ConfTakeOut, FailRemove, FailClear
<1>7. CASE \E b \in BOOLEAN : ConfEnd(b) \/ Settle(b) \/ Post(b)
  BY <1>7 DEF ConfEnd, Settle, Post
<1> QED BY <1>1, <1>2, <1>3, <1>4, <1>5, <1>6, <1>7 DEF SystemCall

\* Only what carries the hash of its header gets to the unpacking, however the files
\* and the header are replaced while the task works on them.
THEOREM FlowUnpacks == FlowSpec => []Unpacks
<1>1. FlowInit => Unpacks
  BY DEF FlowInit, Unpacks
<1>2. FlowTypeOK /\ Unpacks /\ [FlowNext]_flow => Unpacks'
  <2>1. ASSUME Unpacks, UNCHANGED flow PROVE Unpacks'
    BY <2>1 DEF Unpacks, flow
  <2> QED BY <2>1, UnpacksCommand, UnpacksTask DEF FlowNext
<1> QED BY <1>1, <1>2, FlowTypeCorrect, PTL DEF FlowSpec

-----------------------------------------------------------------------------
(* DnSession.  Its actions contain those of PkgFlow, so that what is shown *)
(* of the package's way holds here.                                        *)

LEMMA HandleFlow == Handle => [FlowNext]_flow
<1>1. ASSUME NEW m \in Modes, NEW r \in {m, "auto"}, Start(m, r) PROVE FlowNext
  BY <1>1 DEF Start, FlowNext, Commands
<1>2. ASSUME ReStart PROVE UNCHANGED flow
  BY <1>2 DEF ReStart
<1>3. ASSUME NEW p \in Headers, Resume(p) \/ RenewFails(p) \/ FirstRefused(p)
      PROVE  FlowNext
  BY <1>3 DEF Resume, RenewFails, FirstRefused, FlowNext, Commands
<1>4. ASSUME NEW f \in Files, NEW saved \in BOOLEAN, FirstBlock(f, saved) PROVE FlowNext
  BY <1>4 DEF FirstBlock, Files, FlowNext, Commands, Headers
<1>5. ASSUME NEW f \in Files, NEW k \in 1..Blocks - 1, NEW saved \in BOOLEAN,
             NextBlock(f, k, saved)
      PROVE  FlowNext
  BY <1>5 DEF NextBlock, FlowNext, Commands
<1>6. ASSUME FinishIgnored PROVE UNCHANGED flow
  BY <1>6 DEF FinishIgnored
<1>7. ASSUME NEW f \in Files, FinishAck(f) PROVE FlowNext
  <2>1. (rcu = "auto") \in BOOLEAN
    OBVIOUS
  <2> QED BY <1>7, <2>1 DEF FinishAck, FlowNext, Commands
<1>8. ASSUME NEW f \in Files, NEW good \in BOOLEAN, FinishNack(f, good) PROVE FlowNext
  BY <1>8 DEF FinishNack, FlowNext, Commands
<1> QED BY <1>1, <1>2, <1>3, <1>4, <1>5, <1>6, <1>7, <1>8 DEF Handle

LEMMA CommFlow == Comm => [FlowNext]_flow
<1>1. ASSUME NEW c \in {"block", "finish"}, Dispatch(c) PROVE UNCHANGED flow
  BY <1>1 DEF Dispatch
<1>2. CASE Goes \/ Cancels \/ FtpRequested
  BY <1>2 DEF Goes, Cancels, FtpRequested, FlowNext, Commands
<1> QED BY <1>1, <1>2, HandleFlow DEF Comm

LEMMA TaskFlow == Task => [FlowNext]_flow
<1>1. CASE Gets \/ HandsOver
  BY <1>1 DEF Gets, HandsOver, Elsewhere, FlowNext, SystemCall
<1>2. ASSUME NEW p \in Pkgs, Fetched(p) PROVE FlowNext
  BY <1>2 DEF Fetched, FlowNext, SystemCall
<1>6. ASSUME NEW p \in Headers, FetchFails(p) PROVE FlowNext
  BY <1>6 DEF FetchFails, FlowNext, SystemCall
<1>3. CASE Begun \/ TakenOut \/ Cleared
  BY <1>3 DEF Begun, TakenOut, Cleared, FlowNext, SystemCall
<1>4. ASSUME NEW content \in Contents, Moved(content) PROVE FlowNext
  BY <1>4 DEF Moved, FlowNext, SystemCall
<1>5. CASE Elsewhere(Steps)
  BY <1>5 DEF Elsewhere, Steps, FlowNext, SystemCall
<1> QED BY <1>1, <1>2, <1>3, <1>4, <1>5, <1>6 DEF Task

LEMMA NextFlow == [Next]_vars => [FlowNext]_flow
<1>1. CASE Wdt
  BY <1>1 DEF Wdt, WdtSees, WdtEnds, FlowNext
<1>2. CASE HandsOver \/ Modules
  BY <1>2 DEF HandsOver, Modules, Elsewhere, FlowNext, SystemCall
<1>3. CASE UNCHANGED vars
  BY <1>3 DEF vars
<1> QED BY <1>1, <1>2, <1>3, CommFlow, TaskFlow DEF Next

\* Every step of the session contains one of PkgFlow or leaves its variables
\* alone, by which the session inherits FlowTypeOK and Unpacks.
LEMMA SessionIsFlow == Spec => FlowSpec
<1>1. Init => FlowInit
  BY DEF Init
<1> QED BY <1>1, NextFlow, PTL DEF Spec, FlowSpec
-----------------------------------------------------------------------------
(* The session's counters.                                                 *)

TempUnits == Units \cup {Unit("absent", 0), Unit("part", 0)}

LEMMA UnitFacts ==
    /\ \A f \in Files, k \in 0..Blocks - 1 : Unit(f, k) \in Units
    /\ \A f \in Files : Unit(f, 0) \in Units
    /\ \A f \in Files : Whole(f) \in Seq(Units) /\ Len(Whole(f)) = Blocks
    /\ Absent \in Seq(TempUnits) /\ Part \in Seq(TempUnits)
    /\ \A s \in Seq(Units) : s \in Seq(TempUnits)
<1>1. \A f \in Files, k \in 0..Blocks - 1 : Unit(f, k) \in Units
  BY DEF Units
<1>2. \A f \in Files : Unit(f, 0) \in Units
  BY <1>1, DnAssumption
<1>3. ASSUME NEW f \in Files PROVE Whole(f) \in Seq(Units) /\ Len(Whole(f)) = Blocks
  <2>1. \A i \in 1..Blocks : Unit(f, i - 1) \in Units
    BY <1>1, DnAssumption
  <2> QED BY <2>1, DnAssumption DEF Whole
<1>4. Absent \in Seq(TempUnits) /\ Part \in Seq(TempUnits)
  BY DEF Absent, Part, TempUnits
<1>5. \A s \in Seq(Units) : s \in Seq(TempUnits)
  BY DEF TempUnits
<1> QED BY <1>1, <1>2, <1>3, <1>4, <1>5

\* The types of the session's own variables.
SessionTypes ==
    /\ comm \in {"idle", "block", "finish"} /\ cmds \in 0..MaxCmd
    /\ total \in {0, Blocks} /\ cont \in {0, Blocks}
    /\ received \in 0..Blocks /\ recvSize \in 0..Blocks
    /\ crc \in Seq(Units) /\ Len(crc) = received
    /\ pre \in Headers /\ finished \in BOOLEAN /\ rcu \in Modes
    /\ temp \in Seq(TempUnits)
    /\ isDl \in BOOLEAN /\ wdt \in {"watching", "ending"}
    /\ owed \in BOOLEAN /\ unseen \in BOOLEAN /\ hurt \in BOOLEAN

LEMMA TypeParts == TypeOK <=> FlowTypeOK /\ SessionTypes
BY DEF TypeOK, SessionTypes, TempUnits

LEMMA TypeInit == Init => TypeOK
<1> SUFFICES ASSUME Init PROVE TypeOK
  OBVIOUS
<1>1. FlowTypeOK
  BY FlowTypeInit DEF Init
<1>2. temp \in Seq(TempUnits)
  BY UnitFacts DEF Init
<1>3. finished \in BOOLEAN /\ isDl \in BOOLEAN /\ owed \in BOOLEAN /\ unseen \in BOOLEAN
      /\ hurt \in BOOLEAN
  BY Zenon DEF Init
<1>4. SessionTypes
  BY <1>2, <1>3, DnAssumption DEF Init, SessionTypes, Modes, Headers
<1> QED BY <1>1, <1>4, TypeParts

LEMMA HandleTypes == SessionTypes /\ Handle => SessionTypes'
<1> SUFFICES ASSUME SessionTypes PROVE Handle => SessionTypes'
  OBVIOUS
<1> USE DnAssumption DEF SessionTypes, Handling, file
<1>1. ASSUME NEW m \in Modes, NEW r \in {m, "auto"}, Start(m, r) PROVE SessionTypes'
  BY <1>1 DEF Start, watch, Modes
<1>2. CASE ReStart \/ FinishIgnored
  BY <1>2 DEF ReStart, FinishIgnored, count, watch
<1>3. ASSUME NEW p \in Headers, Resume(p) \/ RenewFails(p) \/ FirstRefused(p)
      PROVE  SessionTypes'
  <2>1. CASE Resume(p)
    BY <2>1 DEF Resume, count, watch
  <2>2. CASE RenewFails(p) \/ FirstRefused(p)
    <3>1. Afresh /\ temp' \in {<<>>, temp}
      BY <2>2 DEF RenewFails, FirstRefused
    <3>2. finished' \in BOOLEAN
      BY <3>1, Zenon DEF Afresh
    <3>3. temp' \in Seq(TempUnits)
      <4>1. CASE temp' = <<>>
        BY <4>1, UnitFacts
      <4>2. CASE temp' = temp
        BY <4>2
      <4> QED BY <3>1, <4>1, <4>2
    <3>4. crc' \in Seq(Units) /\ Len(crc') = received' /\ received' \in 0..Blocks
      BY <3>1 DEF Afresh
    <3>5. hurt' \in BOOLEAN /\ unseen' \in BOOLEAN /\ owed' \in BOOLEAN /\ isDl' \in BOOLEAN
      BY <3>1, Zenon DEF Afresh, watch
    <3> QED BY <3>1, <3>2, <3>3, <3>4, <3>5 DEF Afresh, watch
  <2> QED BY <1>3, <2>1, <2>2
<1>4. ASSUME NEW f \in Files, NEW saved \in BOOLEAN, FirstBlock(f, saved)
      PROVE  SessionTypes'
  <2>1. Unit(f, 0) \in Units
    BY UnitFacts
  <2>2. temp' \in Seq(Units) /\ Len(temp') \in 0..1
    BY <1>4, <2>1 DEF FirstBlock
  <2>3. temp' \in Seq(TempUnits)
    BY <2>2, UnitFacts
  <2>4. pre' \in Headers
    BY <1>4 DEF FirstBlock, Headers
  <2>5. crc' \in Seq(Units) /\ Len(crc') = received' /\ received' \in 0..Blocks
    BY <1>4, <2>2 DEF FirstBlock
  <2>6. finished' \in BOOLEAN /\ hurt' \in BOOLEAN
    BY <1>4, Zenon DEF FirstBlock
  <2> QED BY <1>4, <2>3, <2>4, <2>5, <2>6 DEF FirstBlock, watch
<1>5. ASSUME NEW f \in Files, NEW k \in 1..Blocks - 1, NEW saved \in BOOLEAN,
             NextBlock(f, k, saved)
      PROVE  SessionTypes'
  <2>1. Unit(f, k) \in Units /\ Unit(f, k) \in TempUnits
    BY UnitFacts DEF TempUnits
  <2>2. crc' \in Seq(Units) /\ Len(crc') = received' /\ received' \in 0..Blocks
    BY <1>5, <2>1 DEF NextBlock
  <2>3. temp' \in Seq(TempUnits)
    BY <1>5, <2>1 DEF NextBlock
  <2>4. recvSize' \in 0..Blocks
    BY <1>5 DEF NextBlock
  <2>5. hurt' \in BOOLEAN
    <3>1. hurt' = (hurt \/ (received = k /\ recvSize < Blocks /\ ~saved))
      BY <1>5 DEF NextBlock
    <3> QED BY <3>1, Zenon
  <2> QED BY <1>5, <2>2, <2>3, <2>4, <2>5 DEF NextBlock, watch
<1>6. ASSUME NEW f \in Files, FinishAck(f) PROVE SessionTypes'
  BY <1>6 DEF FinishAck
<1>7. ASSUME NEW f \in Files, NEW good \in BOOLEAN, FinishNack(f, good)
      PROVE  SessionTypes'
  BY <1>7 DEF FinishNack, watch, Headers
<1> QED BY <1>1, <1>2, <1>3, <1>4, <1>5, <1>6, <1>7 DEF Handle

LEMMA NextTypes == SessionTypes /\ [Next]_vars => SessionTypes'
<1> SUFFICES ASSUME SessionTypes PROVE [Next]_vars => SessionTypes'
  OBVIOUS
<1> USE DnAssumption DEF SessionTypes, file
<1>1. ASSUME NEW c \in {"block", "finish"}, Dispatch(c) PROVE SessionTypes'
  <2>1. isDl' \in BOOLEAN /\ unseen' \in BOOLEAN
    BY <1>1, Zenon DEF Dispatch
  <2> QED BY <1>1, <2>1 DEF Dispatch, Command, count
<1>2. CASE Goes \/ FtpRequested
  BY <1>2 DEF Goes, FtpRequested, Command, count, watch
<1>3. CASE Cancels
  <2>1. owed' \in BOOLEAN
    BY <1>3, Zenon DEF Cancels
  <2> QED BY <1>3, <2>1 DEF Cancels, Command, watch, Headers
<1>4. CASE Wdt
  BY <1>4 DEF Wdt, WdtSees, WdtEnds, client, count
<1>5. ASSUME NEW p \in Pkgs, Fetched(p) PROVE SessionTypes'
  <2>1. p \in Files
    BY DEF Files
  <2>2. Whole(p) \in Seq(TempUnits)
    BY <2>1, UnitFacts
  <2> QED BY <1>5, <2>2 DEF Fetched, client, count, watch
<1>10. ASSUME NEW p \in Headers, FetchFails(p) PROVE SessionTypes'
  <2>1. temp' \in Seq(TempUnits)
    <3>1. CASE temp' = temp
      BY <3>1
    <3>2. ASSUME p \in Pkgs, NEW n \in 0..Blocks, temp' = SubSeq(Whole(p), 1, n)
          PROVE  temp' \in Seq(TempUnits)
      <4>1. Whole(p) \in Seq(TempUnits) /\ Len(Whole(p)) = Blocks
        BY <3>2, UnitFacts DEF Files
      <4> QED BY <3>2, <4>1
    <3> QED BY <1>10, <3>1, <3>2 DEF FetchFails
  <2> QED BY <1>10, <2>1 DEF FetchFails, client, count, watch
<1>6. CASE Begun
  <2>1. owed' \in BOOLEAN /\ finished' \in BOOLEAN
    BY <1>6, Zenon DEF Begun
  <2> QED BY <1>6, <2>1 DEF Begun, client, watch, Headers
<1>7. CASE TakenOut \/ Cleared \/ \E content \in Contents : Moved(content)
  BY <1>7, UnitFacts DEF TakenOut, Cleared, Moved, client, count, watch
<1>8. CASE Gets \/ HandsOver \/ Modules \/ Elsewhere(Steps)
  BY <1>8 DEF Gets, HandsOver, Modules, Elsewhere, client, count, watch
<1>9. CASE UNCHANGED vars
  BY <1>9 DEF vars, client, count, watch
<1> QED BY <1>1, <1>2, <1>3, <1>4, <1>5, <1>6, <1>7, <1>8, <1>9, <1>10,
           HandleTypes
        DEF Next, Comm, Task

\* The CRC of a session is over as many blocks as it counts, and every counter stays
\* in its range, for any number of blocks and of commands.
THEOREM TypeCorrect == Spec => []TypeOK
<1>1. TypeOK /\ [Next]_vars => TypeOK'
  BY TypeParts, NextFlow, FlowTypeStep, NextTypes DEF SessionTypes, TypeOK, TempUnits
<1> QED BY <1>1, TypeInit, PTL DEF Spec

-----------------------------------------------------------------------------
(* What was counted of a session and what is in its file: they differ only *)
(* after the file was hurt.                                                *)

Written == hurt \/ crc = <<>> \/ (temp = crc /\ recvSize = received)

LEMMA AbsentCounted == \A s \in Seq(Units) : s # Absent
<1> SUFFICES ASSUME NEW s \in Seq(Units), s = Absent PROVE FALSE
  OBVIOUS
<1>1. Unit("absent", 0) \in Units
  BY DEF Absent
<1>2. PICK f \in Files, k \in 0..Blocks - 1 : Unit("absent", 0) = Unit(f, k)
  BY <1>1 DEF Units
<1>3. f = "absent"
  BY <1>2 DEF Unit
<1> QED BY <1>3, DnAssumption DEF Files

LEMMA WrittenHandle == SessionTypes /\ Written /\ Handle => Written'
<1> SUFFICES ASSUME SessionTypes, Written PROVE Handle => Written'
  OBVIOUS
<1> USE DEF Written, file, count
<1>1. ASSUME NEW m \in Modes, NEW r \in {m, "auto"}, Start(m, r) PROVE Written'
  BY <1>1, AbsentCounted DEF Start, SessionTypes
<1>2. CASE ReStart \/ FinishIgnored
  BY <1>2 DEF ReStart, FinishIgnored
<1>3. ASSUME NEW p \in Headers, Resume(p) \/ RenewFails(p) \/ FirstRefused(p)
      PROVE  Written'
  BY <1>3 DEF Resume, RenewFails, FirstRefused, Afresh
<1>4. ASSUME NEW f \in Files, NEW saved \in BOOLEAN, FirstBlock(f, saved) PROVE Written'
  BY <1>4 DEF FirstBlock
<1>5. ASSUME NEW f \in Files, NEW k \in 1..Blocks - 1, NEW saved \in BOOLEAN,
             NextBlock(f, k, saved)
      PROVE  Written'
  <2>1. CASE received # k
    BY <1>5, <2>1 DEF NextBlock
  <2>2. CASE received = k /\ ~hurt
    <3>1. crc # <<>> /\ temp = crc /\ recvSize = k /\ k < Blocks
      BY <2>2, DnAssumption DEF SessionTypes
    <3>2. temp # Absent
      BY <3>1, AbsentCounted DEF SessionTypes
    <3> QED BY <1>5, <2>2, <3>1, <3>2 DEF NextBlock
  <2>3. CASE hurt
    BY <1>5, <2>3 DEF NextBlock
  <2> QED BY <2>1, <2>2, <2>3
<1>6. ASSUME NEW f \in Files, FinishAck(f) PROVE Written'
  BY <1>6 DEF FinishAck
<1>7. ASSUME NEW f \in Files, NEW good \in BOOLEAN, FinishNack(f, good) PROVE Written'
  BY <1>7 DEF FinishNack
<1> QED BY <1>1, <1>2, <1>3, <1>4, <1>5, <1>6, <1>7 DEF Handle

LEMMA WrittenNext == SessionTypes /\ Written /\ [Next]_vars => Written'
<1> SUFFICES ASSUME SessionTypes, Written PROVE [Next]_vars => Written'
  OBVIOUS
<1> USE DEF Written, file, count
<1>1. CASE (\E c \in {"block", "finish"} : Dispatch(c)) \/ Goes \/ FtpRequested \/ Cancels
  BY <1>1 DEF Dispatch, Goes, FtpRequested, Cancels
<1>2. CASE Wdt
  BY <1>2 DEF Wdt, WdtSees, WdtEnds
<1>3. CASE \/ \E p \in Pkgs : Fetched(p)
           \/ \E p \in Headers : FetchFails(p)
           \/ \E content \in Contents : Moved(content)
           \/ TakenOut
  BY <1>3 DEF Fetched, FetchFails, Moved, TakenOut
<1>4. CASE Begun \/ Cleared
  BY <1>4 DEF Begun, Cleared
<1>5. CASE Gets \/ HandsOver \/ Modules \/ Elsewhere(Steps)
  BY <1>5 DEF Gets, HandsOver, Modules, Elsewhere
<1>6. CASE UNCHANGED vars
  BY <1>6 DEF vars
<1> QED BY <1>1, <1>2, <1>3, <1>4, <1>5, <1>6, WrittenHandle DEF Next, Comm, Task

\* For any files, any number of blocks and any commands: a file whose number of blocks
\* and CRC agree is there in full, but for a block that could not be written and for
\* what system_call_Task does with the file.
THEOREM AgreedIsWhole == Spec => []AgreedWhole
<1>1. Init => Written
  BY DEF Init, Written
<1>2. SessionTypes /\ Written => AgreedWhole
  <2> SUFFICES ASSUME SessionTypes, Written, NEW f \in Files, Agrees(f), ~hurt
               PROVE  Cut(temp) = Whole(f)
    BY DEF AgreedWhole
  <2>1. crc = Whole(f) /\ Len(crc) = Blocks
    BY DEF Agrees, SessionTypes
  <2>2. temp = Whole(f) /\ Whole(f) \in Seq(Units) /\ Len(Whole(f)) = Blocks
    BY <2>1, UnitFacts, DnAssumption DEF Written
  <2> QED BY <2>2, DnAssumption DEF Cut
<1>3. TypeOK => SessionTypes
  BY TypeParts
<1> QED BY <1>1, <1>2, <1>3, WrittenNext, TypeCorrect, PTL DEF Spec

-----------------------------------------------------------------------------
(* A session shown as under way has someone to end it.  The timer runs     *)
(* from before a command is handled; a fetched file is asked to be checked *)
(* before the task gets there.                                             *)

WatchInv ==
    /\ comm # "idle" => isDl \/ unseen
    /\ dl = "Now" => \/ isDl \/ unseen \/ owed
                     \/ pc = "get" \/ (pc = "zip" /\ "zip" \in req)

LEMMA WatchHandle == TypeOK /\ WatchInv /\ Handle => WatchInv'
<1> SUFFICES ASSUME TypeOK, WatchInv PROVE Handle => WatchInv'
  OBVIOUS
<1> USE DEF WatchInv, Handling, watch, task
<1>1. ASSUME NEW m \in Modes, NEW r \in {m, "auto"}, Start(m, r) PROVE WatchInv'
  BY <1>1 DEF Start, Starts
<1>2. CASE ReStart \/ FinishIgnored
  BY <1>2 DEF ReStart, FinishIgnored, flow
<1>3. ASSUME NEW p \in Headers, Resume(p) \/ RenewFails(p) \/ FirstRefused(p)
      PROVE  WatchInv'
  BY <1>3 DEF Resume, RenewFails, FirstRefused, Afresh, NoBlock, Header, Image, WrongImage
<1>4. ASSUME NEW f \in Files, NEW saved \in BOOLEAN, FirstBlock(f, saved)
      PROVE  WatchInv'
  BY <1>4 DEF FirstBlock, Files, Header, Image
<1>5. ASSUME NEW f \in Files, NEW k \in 1..Blocks - 1, NEW saved \in BOOLEAN,
             NextBlock(f, k, saved)
      PROVE  WatchInv'
  BY <1>5 DEF NextBlock, Block
<1>6. ASSUME NEW f \in Files, FinishAck(f) PROVE WatchInv'
  BY <1>6 DEF FinishAck, Accepted, ImageAccepted
<1>7. ASSUME NEW f \in Files, NEW good \in BOOLEAN, FinishNack(f, good) PROVE WatchInv'
  BY <1>7 DEF FinishNack, Refused
<1> QED BY <1>1, <1>2, <1>3, <1>4, <1>5, <1>6, <1>7 DEF Handle

LEMMA WatchNext == TypeOK /\ WatchInv /\ [Next]_vars => WatchInv'
<1> SUFFICES ASSUME TypeOK, WatchInv PROVE [Next]_vars => WatchInv'
  OBVIOUS
<1> USE DEF WatchInv, client, watch
<1>1. ASSUME NEW c \in {"block", "finish"}, Dispatch(c) PROVE WatchInv'
  BY <1>1 DEF Dispatch, flow
<1>2. CASE Goes \/ FtpRequested
  BY <1>2 DEF Goes, FtpRequested, Go, FtpRequest, task
<1>3. CASE Cancels
  BY <1>3 DEF Cancels, Cancel, task
<1>4. CASE WdtSees
  BY <1>4 DEF WdtSees, flow
<1>5. CASE WdtEnds
  BY <1>5 DEF WdtEnds, TimesOut, task
<1>6. ASSUME NEW p \in Pkgs, Fetched(p) PROVE WatchInv'
  BY <1>6 DEF Fetched, FtpGot
<1>17. ASSUME NEW p \in Headers, FetchFails(p) PROVE WatchInv'
  BY <1>17 DEF FetchFails, FtpSpoilt, FtpMissed
<1>7. CASE Begun
  BY <1>7 DEF Begun, ZipBegin
<1>8. ASSUME NEW content \in Contents, Moved(content) PROVE WatchInv'
  BY <1>8 DEF Moved, ZipCheck, ZipFails
<1>9. CASE TakenOut \/ Cleared
  BY <1>9 DEF TakenOut, Cleared, ConfTakeOut, FailClear
<1>10. CASE Gets \/ HandsOver \/ Modules
  BY <1>10 DEF Gets, HandsOver, Modules, Elsewhere, FtpBegin, Inside, ModuleFails, task
<1>11. CASE Elsewhere(FtpPass \/ FtpFails \/ ZipNone \/ ZipHash \/ SpreadEnd)
  BY <1>11 DEF Elsewhere, FtpPass, FtpFails, FtpMissed, ZipNone, ZipHash, ZipFails, SpreadEnd, TypeOK,
               FlowTypeOK
<1>12. ASSUME NEW code \in {0, 9}, Elsewhere(Unzip(code)) PROVE WatchInv'
  BY <1>12 DEF Elsewhere, Unzip, ZipFails
<1>13. CASE Elsewhere(ConfBusy \/ ConfLater \/ FailRemove)
  BY <1>13 DEF Elsewhere, ConfBusy, ConfLater, FailRemove
<1>14. ASSUME NEW b \in BOOLEAN, Elsewhere(ConfEnd(b) \/ Settle(b) \/ Post(b))
       PROVE  WatchInv'
  BY <1>14 DEF Elsewhere, ConfEnd, Settle, Post
<1>15. CASE UNCHANGED vars
  BY <1>15 DEF vars, flow
<1>16. CASE Elsewhere(Steps)
  BY <1>11, <1>12, <1>13, <1>14, <1>16 DEF Steps, Elsewhere
<1> QED BY <1>1, <1>2, <1>3, <1>4, <1>5, <1>6, <1>7, <1>8, <1>9, <1>10, <1>15, <1>16,
           <1>17, WatchHandle
        DEF Next, Comm, Wdt, Task

\* No download stays shown as under way with nobody to end it, but for an acknowledged
\* package that was lost and a session that ended while its next command was handled.
THEOREM Watched == Spec => []NowWatched
<1>1. Init => WatchInv
  BY DEF Init, FlowInit, WatchInv
<1>2. WatchInv => NowWatched
  BY DEF WatchInv, NowWatched
<1> QED BY <1>1, <1>2, WatchNext, TypeCorrect, PTL DEF Spec

\* What is unpacked is whole, whatever blocks were lost or written twice.
THEOREM OnlyWholeUnpacked == Spec => []UnpackedIntact
<1>1. Unpacks => UnpackedIntact
  BY PkgAssumption DEF Unpacks, UnpackedIntact, None
<1> QED BY <1>1, SessionIsFlow, FlowUnpacks, PTL

-----------------------------------------------------------------------------
(* PkgUpgrade.  Its actions contain those of PkgFlow too.                  *)

LEMMA ClientsFlow == Clients => [FlowNext]_flow
<1> USE DEF FlowNext, Commands
<1>1. ASSUME NEW p \in Headers, Takes(p) PROVE FlowNext
  BY <1>1 DEF Takes
<1>2. CASE TakesImage \/ UGoes \/ UCancels \/ Asks
  BY <1>2 DEF TakesImage, UGoes, UCancels, Asks
<1>3. CASE Session
  BY <1>3 DEF Session
<1> QED BY <1>1, <1>2, <1>3 DEF Clients

LEMMA UTaskFlow == UTask => [FlowNext]_flow
<1> USE DEF FlowNext, SystemCall, Same
<1>1. CASE \/ Same(FtpBegin \/ FtpPass \/ FtpFails)
           \/ \E p \in Pkgs : Got(p)
           \/ \E p \in Headers : Spoilt(p)
  BY <1>1 DEF Got, Spoilt
<1>2. CASE Same(ZipNone \/ ZipHash \/ \E content \in Contents : ZipCheck(content))
  BY <1>2
<1>3. CASE UBegun \/ Same(\E code \in {0, 9} : Unzip(code))
  BY <1>3 DEF UBegun
<1>4. CASE Spread \/ NoSpread \/ NoPackage \/ SpreadDone
  BY <1>4 DEF Spread, NoSpread, NoPackage, SpreadDone
<1>5. CASE Waits
  BY <1>5 DEF Waits
<1>6. CASE Confirms
  BY <1>6 DEF Confirms
<1>7. ASSUME NEW good \in BOOLEAN, Installs(good) PROVE FlowNext
  BY <1>7 DEF Installs
<1>8. CASE Settles
  <2>1. AllSent \in BOOLEAN
    BY DEF AllSent
  <2> QED BY <1>8, <2>1 DEF Settles
<1>9. CASE Same(FailRemove) \/ UCleared
  BY <1>9 DEF UCleared
<1>10. CASE Posts
  <2>1. asked' \in BOOLEAN
    BY <1>10, Zenon DEF Posts
  <2> QED BY <1>10, <2>1 DEF Posts
<1> QED BY <1>1, <1>2, <1>3, <1>4, <1>5, <1>6, <1>7, <1>8, <1>9, <1>10 DEF UTask

LEMMA UpgradeFlow == [UNext]_uvars => [FlowNext]_flow
<1>1. ASSUME NEW m \in Mods, Module(m) \/ Link(m) PROVE [FlowNext]_flow
  BY <1>1 DEF Module, Link, Begins, Sent, SendFails, Succeeds, PulledOut, Answers, DoesNot,
              FlowNext
<1>2. CASE Same(TimesOut)
  BY <1>2 DEF Same, FlowNext
<1>3. CASE UNCHANGED uvars
  BY <1>3 DEF uvars
<1> QED BY <1>1, <1>2, <1>3, ClientsFlow, UTaskFlow DEF UNext

-----------------------------------------------------------------------------
(* The types of the installation.                                          *)

LEMMA Consts ==
    /\ \A m \in Mods : ClassOf(m) \in Classes
    /\ \A c \in Classes : ModsOf(c) \subseteq Mods
    /\ \A c \in Classes, m \in Mods : m \in ModsOf(c) <=> ClassOf(m) = c
    /\ Bits \subseteq {"PSU", "PAU", "APP"}
BY UpAssumption DEF Mods, ClassOf, ModsOf, Classes, Bits, BinaryFlag

\* The types of the variables the upgrade adds to the package's way.
OwnTypes ==
    /\ events \in 0..MaxEvents
    /\ at \in Classes \cup {"end"} /\ disk \in [Classes -> Contents]
    /\ pc # "spread" => at = "PSU"
    /\ upg \subseteq Mods /\ st \in [Mods -> {"none", "send", "success"}]
    /\ sending \in [Mods -> Contents]
    /\ \A m \in upg : disk[ClassOf(m)] # None
    /\ \A m \in Mods : st[m] = "send" => sending[m] # None
    /\ flag \subseteq Mods /\ status \subseteq Mods /\ conf \subseteq Mods
    /\ cmd \in [Mods -> 0..2]
    /\ post \subseteq {"PSU", "PAU", "APP"} /\ asked \in BOOLEAN
    /\ link \in [Mods -> {"up", "down", "out"}] /\ held \in [Mods -> Contents]
    /\ ready \subseteq Mods
    /\ cur \in Contents /\ went \in BOOLEAN /\ mixed \in BOOLEAN

LEMMA UTypeParts == UTypeOK <=> FlowTypeOK /\ OwnTypes
BY DEF UTypeOK, OwnTypes

LEMMA UTypeInit == UInit => UTypeOK
<1> SUFFICES ASSUME UInit PROVE UTypeOK
  OBVIOUS
<1>1. FlowTypeOK
  BY FlowTypeInit DEF UInit, JustAccepted, FlowTypeOK, States, Contents, Headers
<1>2. asked \in BOOLEAN /\ went \in BOOLEAN /\ mixed \in BOOLEAN
  BY Zenon DEF UInit
<1>3. pc # "spread"
  BY DEF UInit, JustAccepted, FlowInit
<1>4. OwnTypes
  BY <1>2, <1>3, UpAssumption DEF UInit, OwnTypes, Classes, Contents
<1> QED BY <1>1, <1>4, UTypeParts

LEMMA ClientTypes == ASSUME OwnTypes, Clients PROVE OwnTypes'
<1> USE DEF OwnTypes, Event, Runs, files, send, flags, ext, hist
<1>0. /\ events' \in 0..MaxEvents
      /\ pc' = pc
  BY UpAssumption DEF Clients, Takes, TakesImage, UGoes, UCancels, Asks, Session, Header,
     Image, WrongImage, Go, Cancel, FtpRequest, task, flow, Starts, Block, NoBlock, Accepted, Refused,
     ImageAccepted
<1>1. ASSUME NEW p \in Headers, Takes(p) PROVE OwnTypes'
  <2>1. mixed' \in BOOLEAN
    BY <1>1, Zenon DEF Takes, Others
  <2> QED BY <1>0, <1>1, <2>1 DEF Takes
<1>2. CASE TakesImage
  <2>1. mixed' \in BOOLEAN
    BY <1>2, Zenon DEF TakesImage
  <2> QED BY <1>0, <1>2, <2>1 DEF TakesImage
<1>3. CASE UGoes \/ Asks
  BY <1>0, <1>3 DEF UGoes, Asks
<1>4. CASE UCancels
  BY <1>0, <1>4 DEF UCancels, Contents
<1>5. CASE Session
  BY <1>0, <1>5 DEF Session, own
<1> QED BY <1>1, <1>2, <1>3, <1>4, <1>5 DEF Clients

LEMMA TaskTypes == ASSUME OwnTypes, UTask PROVE OwnTypes'
<1> USE DEF OwnTypes, Runs, files, send, flags, ext, hist
<1>1. CASE Same(FtpBegin \/ FtpPass \/ FtpFails)
  BY <1>1 DEF Same, own, FtpBegin, FtpPass, FtpFails, FtpMissed
<1>2. ASSUME NEW p \in Pkgs, Got(p) PROVE OwnTypes'
  <2>1. mixed' \in BOOLEAN
    BY <1>2, Zenon DEF Got, Others
  <2> QED BY <1>2, <2>1 DEF Got, FtpGot
<1>16. ASSUME NEW p \in Headers, Spoilt(p) PROVE OwnTypes'
  <2>1. mixed' \in BOOLEAN
    BY <1>16, Zenon DEF Spoilt, Others
  <2> QED BY <1>16, <2>1 DEF Spoilt, FtpSpoilt, FtpMissed
<1>3. CASE Same(ZipNone \/ ZipHash \/ \E content \in Contents : ZipCheck(content))
  BY <1>3 DEF Same, own, ZipNone, ZipHash, ZipCheck, ZipFails
<1>4. CASE UBegun
  <2>1. went' \in BOOLEAN /\ mixed' \in BOOLEAN
    BY <1>4, Zenon DEF UBegun
  <2> QED BY <1>4, <2>1 DEF UBegun, ZipBegin, Contents
<1>5. CASE Same(\E code \in {0, 9} : Unzip(code))
  BY <1>5 DEF Same, own, Unzip, ZipFails
<1>6. CASE Spread
  <2>1. PICK p \in ImageOf(at) :
          disk' = [disk EXCEPT ![at] = p] /\ cur' = p /\ mixed' = (mixed \/ p # hdr)
    BY <1>6 DEF Spread
  <2>2. at \in Classes /\ p \in Contents /\ p # None
    BY <1>6, <2>1 DEF Spread, NextClass, ImageOf, Classes
  <2>3. mixed' \in BOOLEAN
    BY <2>1, Zenon
  <2>4. /\ at' \in Classes \cup {"end"} /\ pc' = "spread"
        /\ post' \subseteq {"PSU", "PAU", "APP"}
    BY <1>6 DEF Spread, NextClass, Inside, task, Classes
  <2>5. upg' \subseteq Mods /\ \A m \in upg' : disk'[ClassOf(m)] # None
    BY <1>6, <2>1, <2>2, Consts DEF Spread
  <2>6. disk' \in [Classes -> Contents]
    BY <2>1, <2>2
  <2> QED BY <1>6, <2>1, <2>2, <2>3, <2>4, <2>5, <2>6 DEF Spread, NextClass
<1>7. CASE NoSpread \/ NoPackage
  <2>1. mixed' \in BOOLEAN
    BY <1>7, Zenon DEF NoSpread, NoPackage, hist
  <2> QED BY <1>7, <2>1 DEF NoSpread, NoPackage, NextClass, Classes, flow
<1>8. CASE SpreadDone
  <2>1. went' \in BOOLEAN
    BY <1>8, Zenon DEF SpreadDone
  <2> QED BY <1>8, <2>1 DEF SpreadDone, Classes
<1>9. CASE Waits
  BY <1>9 DEF Waits, own, ConfBusy, ConfLater
<1>10. CASE Confirms
  <2>1. cmd' \in [Mods -> 0..2] /\ post' \subseteq {"PSU", "PAU", "APP"}
    <3>1. CASE Tells
      BY <3>1 DEF Tells
    <3>2. CASE UNCHANGED <<cmd, post>>
      BY <3>2
    <3> QED BY <1>10, <3>1, <3>2 DEF Confirms
  <2>2. pc' # "spread" /\ at = "PSU"
    BY <1>10 DEF Confirms, ConfTakeOut, ConfEnd
  <2> QED BY <1>10, <2>1, <2>2 DEF Confirms
<1>11. ASSUME NEW good \in BOOLEAN, Installs(good) PROVE OwnTypes'
  BY <1>11 DEF Installs, ConfEnd
<1>12. CASE Settles
  BY <1>12 DEF Settles, own, Settle
<1>13. CASE Same(FailRemove)
  BY <1>13 DEF Same, own, FailRemove
<1>14. CASE UCleared
  BY <1>14 DEF UCleared, FailClear, Contents
<1>15. CASE Posts
  <2>1. asked' \in BOOLEAN
    BY <1>15, Zenon DEF Posts
  <2>2. post' \subseteq {"PSU", "PAU", "APP"}
    BY <1>15 DEF Posts, Confirmed, Classes
  <2> QED BY <1>15, <2>1, <2>2 DEF Posts, Post
<1> QED BY <1>1, <1>2, <1>3, <1>4, <1>5, <1>6, <1>7, <1>8, <1>9, <1>10, <1>11, <1>12,
           <1>13, <1>14, <1>15, <1>16
        DEF UTask

LEMMA ModuleTypes == ASSUME OwnTypes, NEW m \in Mods, Module(m) \/ Link(m) PROVE OwnTypes'
<1> USE DEF OwnTypes, Runs, Event, flow, files, send, flags, ext, hist
<1>1. CASE Begins(m)
  <2>1. mixed' \in BOOLEAN
    BY <1>1, Zenon DEF Begins
  <2>2. ClassOf(m) \in Classes
    BY Consts
  <2> QED BY <1>1, <2>1, <2>2 DEF Begins
<1>2. CASE Sent(m) \/ Succeeds(m) \/ PulledOut(m)
  BY <1>2 DEF Sent, Succeeds, PulledOut
<1>3. CASE SendFails(m)
  BY <1>3 DEF SendFails, ModuleFails, task
<1>6. CASE DoesNot(m)
  BY <1>6 DEF DoesNot, ModuleFails, task
<1>4. CASE Answers(m)
  BY <1>4 DEF Answers, Contents
<1>5. CASE Link(m)
  BY <1>5, UpAssumption DEF Link
<1> QED BY <1>1, <1>2, <1>3, <1>4, <1>5, <1>6 DEF Module

LEMMA OtherTypes == ASSUME OwnTypes, Same(TimesOut) \/ UNCHANGED uvars PROVE OwnTypes'
<1>1. pc' = pc /\ UNCHANGED own /\ events' = events
  BY DEF Same, TimesOut, uvars, task, flow
<1> QED BY <1>1 DEF OwnTypes, own, files, send, flags, ext, hist

LEMMA TypeStep == UTypeOK /\ [UNext]_uvars => UTypeOK'
<1>1. FlowTypeOK /\ [UNext]_uvars => FlowTypeOK'
  BY UpgradeFlow, FlowTypeStep
<1>2. OwnTypes /\ [UNext]_uvars => OwnTypes'
  BY ClientTypes, TaskTypes, ModuleTypes, OtherTypes DEF UNext
<1>3. FlowTypeOK' /\ OwnTypes' => UTypeOK'
  BY DEF UTypeOK, OwnTypes
<1> QED BY <1>1, <1>2, <1>3, UTypeParts

\* A module sends only what was copied for it, the classes are gone through from the
\* first one, and every flag is of a module, whatever the clients and the links do.
THEOREM UTypeCorrect == USpec => []UTypeOK
<1> QED BY UTypeInit, TypeStep, PTL DEF USpec

-----------------------------------------------------------------------------
(* The reset and Complete.  The invariant follows a package that is alone  *)
(* at work: before its images are handed over nothing of an earlier one is *)
(* pending; from then on what is read, sent and held is of this package,   *)
(* the modules are told when as many have the image as took it, and a      *)
(* class is confirmed when as many have answered.                          *)

Quiet(m) == m \notin upg /\ st[m] = "none" /\ cmd[m] = 0

BeforeInv ==
    /\ cur # None => pc \notin {"check", "hash", "unzip"} /\ ~(pc = "spread" /\ at = "PSU")
    /\ "conf" \in req \/ pc = "install" => went
    /\ ~mixed /\ pc = "spread" /\ at = "PAU" =>
          post = {} /\ kind = "zip" /\ (cur = None => "PSU" \notin Bits)
    /\ ~mixed /\ cur = None /\ hdr # None /\ pc \in {"check", "hash", "unzip", "spread"} =>
          \A m \in Mods : Quiet(m)

HeaderInv == Alone =>
    /\ cur = hdr /\ hdr \in Pkgs /\ (\E c \in Classes : c \in Bits) /\ kind = "zip"
    /\ dl # "Unzip" /\ (pc = "spread" => dl # "Complete")

\* A class to which check_zip_files_PSU_PAU has yet to come.
Ahead(c) == pc = "spread" /\ (at = "PSU" \/ at = c)

ModuleInv == Alone => \A m \in Mods :
    /\ m \in upg => disk[ClassOf(m)] = cur
    /\ st[m] # "none" => sending[m] = cur /\ m \in flag
    /\ st[m] = "success" => held[m] = cur
    /\ cmd[m] # 2 /\ (pc = "spread" => cmd[m] = 0)
    /\ Ahead(ClassOf(m)) => Quiet(m)
    /\ ~Ahead(ClassOf(m)) /\ ClassOf(m) \in Bits /\ m \in status => m \in flag /\ held[m] = cur

\* As many modules of a class have the image as took it, and one at least.
Served(c) ==
    /\ \A m \in Mods : ClassOf(m) = c => (m \in flag <=> m \in status)
    /\ \E m \in Mods : ClassOf(m) = c /\ m \in status

ClassInv == Alone => \A c \in Classes : c \in Bits /\ ~Ahead(c) =>
    /\ (\E m \in Mods : ClassOf(m) = c /\ (cmd[m] = 1 \/ m \in conf)) => went /\ Served(c)
    /\ c \in post => /\ went /\ Served(c)
                     /\ \A m \in Mods : ClassOf(m) = c /\ m \in flag => m \in conf
    /\ dl = "Complete" => Served(c)

InstallInv == BeforeInv /\ HeaderInv /\ ModuleInv /\ ClassInv
              /\ (asked => post = Bits /\ pc = "ftp")

LEMMA BitsKept == hdr' = hdr => Bits' = Bits
BY DEF Bits, BinaryFlag

\* The conditions of system_call_Task, module by module.
LEMMA Conditions ==
    ASSUME UTypeOK
    PROVE  /\ \A c \in Classes : ~Busy(c) /\ c \in Bits =>
                 \E m \in Mods : ClassOf(m) = c /\ m \in flag
           /\ \A c \in Classes : ~Busy(c) /\ c \in Bits =>
                 \A m \in Mods : ClassOf(m) = c => (m \in flag <=> m \in status)
           /\ AllSent => \A c \in Classes : c \in Bits => Served(c)
           /\ \A c \in Confirmed : /\ c \in Classes
                                   /\ \E m \in Mods : ClassOf(m) = c /\ m \in status
                                   /\ \A m \in Mods : ClassOf(m) = c =>
                                         (m \in flag <=> m \in conf)
<1> USE Consts DEF UTypeOK, In
<1>1. ASSUME NEW s \in SUBSET Mods, NEW r \in SUBSET Mods, NEW c \in Classes
      PROVE  /\ In(s, c) # {} <=> \E m \in Mods : ClassOf(m) = c /\ m \in s
             /\ In(s, c) = In(r, c) => \A m \in Mods : ClassOf(m) = c => (m \in s <=> m \in r)
  <2>1. \A m : m \in In(s, c) <=> m \in Mods /\ ClassOf(m) = c /\ m \in s
    OBVIOUS
  <2>2. \A m : m \in In(r, c) <=> m \in Mods /\ ClassOf(m) = c /\ m \in r
    OBVIOUS
  <2> QED BY <2>1, <2>2
<1>2. flag \in SUBSET Mods /\ status \in SUBSET Mods /\ conf \in SUBSET Mods
  OBVIOUS
<1>3. AllSent => \A c \in Classes : c \in Bits => Served(c)
  BY <1>1, <1>2 DEF AllSent, Served
<1>4. \A c \in Confirmed : c \in Classes /\ In(status, c) # {} /\ In(flag, c) = In(conf, c)
  BY DEF Confirmed
<1> QED BY <1>1, <1>2, <1>3, <1>4 DEF Busy

LEMMA InstallInit == UInit => InstallInv
BY DEF UInit, FlowInit, JustAccepted, InstallInv, BeforeInv, HeaderInv, ModuleInv, ClassInv,
       Alone, Quiet

\* Steps that change neither the modules nor the header.
LEMMA InstallOther ==
    ASSUME UTypeOK, InstallInv,
           \/ Session \/ Asks \/ Same(TimesOut)
           \/ Same(FtpBegin \/ FtpPass \/ FtpFails)
           \/ Same(ZipNone \/ ZipHash \/ \E content \in Contents : ZipCheck(content))
           \/ Same(\E code \in {0, 9} : Unzip(code))
           \/ Waits \/ Settles \/ Same(FailRemove)
    PROVE  InstallInv'
<1>1. /\ hdr' = hdr /\ ~asked /\ ~asked'
      /\ UNCHANGED <<files, send, flags, ext, hist>>
      /\ post' \in {post, {}}
      /\ kind' = kind \/ kind' = "zip"
  BY DEF Session, Asks, Same, Waits, Settles, Runs, own, Starts, Block, NoBlock, Accepted,
         Refused, ImageAccepted, FtpRequest, FtpAllowed, flow, task, TimesOut, FtpBegin, FtpPass, FtpFails, FtpMissed,
         ZipNone, ZipHash, ZipCheck, ZipFails, Unzip, ConfBusy, ConfLater, Settle, FailRemove
<1>2. Bits' = Bits
  BY <1>1, BitsKept
<1>3. BeforeInv'
  BY <1>1, <1>2 DEF InstallInv, BeforeInv, Quiet, files, send, flags, ext, hist,
         Session, Asks, Same, Waits, Settles, Runs, own, Starts, Block, NoBlock, Accepted,
         Refused, ImageAccepted, FtpRequest, flow, task, TimesOut, FtpBegin, FtpPass, FtpFails, FtpMissed,
         ZipNone, ZipHash, ZipCheck, ZipFails, Unzip, ConfBusy, ConfLater, Settle, FailRemove,
         UTypeOK, FlowTypeOK
<1>4. Alone => (pc' = "spread" <=> pc = "spread")
  BY DEF InstallInv, BeforeInv, Alone,
         Session, Asks, Same, Waits, Settles, Runs, own, Starts, Block, NoBlock, Accepted,
         Refused, ImageAccepted, FtpRequest, flow, task, TimesOut, FtpBegin, FtpPass, FtpFails, FtpMissed,
         ZipNone, ZipHash, ZipCheck, ZipFails, Unzip, ConfBusy, ConfLater, Settle, FailRemove
<1>5. Alone => \/ dl' = dl
               \/ dl' \notin {"Unzip", "Complete"}
               \/ pc' # "spread" /\ dl' # "Unzip" /\ \A c \in Classes : c \in Bits => Served(c)
  <2>1. CASE Settles
    BY <2>1, Conditions DEF Settles, Settle, InstallInv, HeaderInv
  <2>2. CASE ~Settles
    BY <2>2 DEF InstallInv, HeaderInv, BeforeInv, Alone,
         Session, Asks, Same, Waits, Runs, own, Starts, Block, NoBlock, Accepted,
         Refused, ImageAccepted, FtpRequest, flow, task, TimesOut, FtpBegin, FtpPass, FtpFails, FtpMissed,
         ZipNone, ZipHash, ZipCheck, ZipFails, Unzip, ConfBusy, ConfLater, FailRemove
  <2> QED BY <2>1, <2>2
<1>6. Alone' => Alone
  BY <1>1 DEF Alone, hist
<1>7. HeaderInv'
  BY <1>1, <1>2, <1>4, <1>5, <1>6 DEF InstallInv, HeaderInv, hist
<1>10. \A c \in Classes : Alone => (Ahead(c)' <=> Ahead(c))
  BY <1>1, <1>4 DEF Ahead, files
<1>11. ModuleInv'
  BY <1>1, <1>2, <1>4, <1>6, <1>10, Consts
     DEF InstallInv, ModuleInv, Quiet, files, send, flags, ext, hist
<1>12. \A c \in Classes : Served(c)' <=> Served(c)
  BY <1>1 DEF Served, flags
<1>13. ClassInv'
  BY <1>1, <1>2, <1>5, <1>6, <1>10, <1>12 DEF InstallInv, ClassInv, flags, hist
<1> QED BY <1>1, <1>3, <1>7, <1>11, <1>13 DEF InstallInv

\* A header or an image that comes, and the end of a package: it is no longer alone,
\* or nothing was under way.
LEMMA InstallHeader ==
    ASSUME UTypeOK, InstallInv,
           \/ \E p \in Headers : Takes(p) \/ Spoilt(p)
           \/ \E p \in Pkgs : Got(p)
           \/ TakesImage \/ UCancels \/ UCleared
    PROVE  InstallInv'
<1>1. /\ ~asked'
      /\ pc' = "spread" => pc = "spread"
      /\ UNCHANGED <<files, send, flag, status, conf, link, held>>
  BY DEF Takes, Got, Spoilt, TakesImage, UCancels, UCleared, Runs, Header, Image, WrongImage,
         FtpGot, FtpSpoilt, FtpMissed, Cancel, FailClear, task, flags, ext
<1>2. Alone' => /\ Alone
               /\ hdr' = hdr /\ cmd' = cmd /\ post' = post /\ cur' = cur /\ went' = went
               /\ kind' = "zip"
               /\ dl' \in {dl, "Now", "Fail"}
               /\ (pc' = "spread" <=> pc = "spread")
  <2>1. ASSUME Alone', NEW p \in Headers, Takes(p) \/ Got(p) \/ Spoilt(p)
        PROVE  /\ Alone /\ kind' = "zip"
               /\ hdr' = hdr /\ cmd' = cmd /\ post' = post /\ cur' = cur /\ went' = went
    BY <2>1 DEF Takes, Got, Spoilt, Others, UnderWay, Alone, Header, FtpGot, FtpSpoilt, FtpMissed,
                InstallInv, HeaderInv, flags, hist
  <2>2. ASSUME NEW p \in Headers, Takes(p) \/ Got(p) \/ Spoilt(p)
        PROVE  dl' \in {dl, "Now", "Fail"} /\ (pc' = "spread" <=> pc = "spread")
    BY <2>2 DEF Takes, Got, Spoilt, Header, FtpGot, FtpSpoilt, FtpMissed, task
  <2>3. TakesImage \/ UCancels \/ UCleared => ~Alone'
    BY DEF TakesImage, UCancels, UCleared, UnderWay, Alone
  <2> QED BY <2>1, <2>2, <2>3 DEF Headers
<1>3. Alone' => Bits' = Bits
  BY <1>2, BitsKept
<1>4. \A c \in Classes : Alone' => (Ahead(c)' <=> Ahead(c))
  BY <1>1, <1>2 DEF Ahead, files
<1>5. \A c \in Classes : Served(c)' <=> Served(c)
  BY <1>1 DEF Served
<1>6. BeforeInv'
  <2>1. CASE \E p \in Headers : Takes(p)
    <3>1. PICK p \in Headers : Takes(p)
      BY <2>1
    <3>2. /\ pc' = pc /\ req' = req /\ UNCHANGED <<files, send, flags, post, cur, went>>
          /\ hdr' = p /\ kind' = "zip"
          /\ ~mixed' => ~mixed /\ (UnderWay => p = hdr)
      BY <3>1 DEF Takes, Others, Header, task
    <3>3. ~mixed' /\ pc = "spread" => Bits' = Bits
      BY <3>2, BitsKept DEF UnderWay
    <3> QED BY <3>2, <3>3 DEF InstallInv, BeforeInv, Quiet, UnderWay, files, send, flags
  <2>2. CASE \E p \in Pkgs : Got(p)
    BY <2>2 DEF InstallInv, BeforeInv, Quiet, Got, FtpGot
  <2>6. CASE \E p \in Headers : Spoilt(p)
    BY <2>6 DEF InstallInv, BeforeInv, Quiet, Spoilt, FtpSpoilt, FtpMissed
  <2>3. CASE TakesImage
    BY <2>3 DEF InstallInv, BeforeInv, Quiet, TakesImage, UnderWay, Image, WrongImage, task, files,
                send, flags
  <2>4. CASE UCancels
    <3>1. "PSU" \notin Bits'
      BY <2>4, PkgAssumption DEF UCancels, Cancel, Bits
    <3> QED BY <2>4, <3>1 DEF InstallInv, BeforeInv, UCancels, Cancel, task, files
  <2>5. CASE UCleared
    BY <2>5 DEF InstallInv, BeforeInv, UCleared, FailClear
  <2> QED BY <2>1, <2>2, <2>3, <2>4, <2>5, <2>6
<1>7. HeaderInv'
  BY <1>2, <1>3 DEF InstallInv, HeaderInv
<1>8. ModuleInv'
  BY <1>1, <1>2, <1>3, <1>4, Consts DEF InstallInv, ModuleInv, Quiet, files, send
<1>9. ClassInv'
  BY <1>1, <1>2, <1>3, <1>4, <1>5 DEF InstallInv, ClassInv
<1> QED BY <1>1, <1>6, <1>7, <1>8, <1>9 DEF InstallInv

LEMMA InstallGoes == ASSUME UTypeOK, InstallInv, UGoes PROVE InstallInv'
<1>1. /\ ~asked' /\ went'
      /\ UNCHANGED <<hdr, kind, dl, pc, files, send, flags, post, ext, cur, mixed>>
  BY DEF UGoes, Go, task, Runs
<1>2. Bits' = Bits
  BY <1>1, BitsKept
<1>3. \A c \in Classes : (Served(c)' <=> Served(c)) /\ (Ahead(c)' <=> Ahead(c))
  BY <1>1 DEF Served, Ahead, flags, files
<1> USE <1>1, <1>2, <1>3 DEF InstallInv, Alone, Quiet, files, send, flags, ext
<1>4. BeforeInv'
  BY DEF BeforeInv
<1>5. HeaderInv'
  BY DEF HeaderInv
<1>6. ModuleInv'
  BY Consts DEF ModuleInv
<1>7. ClassInv'
  BY DEF ClassInv
<1> QED BY <1>4, <1>5, <1>6, <1>7

\* A package begins to be checked: none is alone at work yet.
LEMMA InstallBegun == ASSUME UTypeOK, InstallInv, UBegun PROVE InstallInv'
<1>1. ~Alone' /\ ~asked' /\ cur' = None /\ pc' = "check" /\ "conf" \notin req'
  BY DEF UBegun, ZipBegin, Alone, Runs
<1>2. ~mixed' => \A m \in Mods : Quiet(m)'
  BY DEF UBegun, Working, Quiet, send, flags
<1> QED BY <1>1, <1>2 DEF InstallInv, BeforeInv, HeaderInv, ModuleInv, ClassInv

\* The images of a class are handed over: nothing of the class is left from before.
LEMMA InstallSpread == ASSUME UTypeOK, InstallInv, Spread PROVE InstallInv'
<1>1. PICK p \in ImageOf(at) :
        disk' = [disk EXCEPT ![at] = p] /\ cur' = p /\ mixed' = (mixed \/ p # hdr)
  BY DEF Spread
<1>2. /\ ~asked' /\ UNCHANGED <<hdr, kind, req, pc, st, sending, cmd, held, went>>
      /\ pc = "spread" /\ dl' = "Inside" /\ at \in Classes /\ at \in Bits
      /\ flag' = flag \ ModsOf(at) /\ status' = status \ ModsOf(at)
      /\ conf' = conf \ ModsOf(at) /\ upg' = upg \cup ModsOf(at)
  BY DEF Spread, NextClass, Runs, Inside, task, ext, Classes
<1>3. \/ at = "PSU" /\ at' = "PAU" /\ post' = {} /\ kind = "zip"
      \/ at = "PAU" /\ at' = "end" /\ post' = post
  BY DEF Spread, NextClass
<1>4. p \in Contents /\ p # None /\ disk \in [Classes -> Contents]
  BY <1>1 DEF ImageOf, UTypeOK
<1>5. Bits' = Bits
  BY <1>2, BitsKept
<1>6. Alone' => /\ p = hdr /\ hdr \in Pkgs /\ ~mixed
                /\ cur = None \/ cur = p
  BY <1>1, <1>4 DEF Alone, UTypeOK, FlowTypeOK, Headers, InstallInv, HeaderInv
<1>7. Alone' => post' = {} /\ kind = "zip"
  BY <1>2, <1>3, <1>6 DEF InstallInv, BeforeInv
<1>8. Alone' => \A m \in Mods : ClassOf(m) = at => Quiet(m)
  BY <1>2, <1>3, <1>4, <1>6 DEF InstallInv, BeforeInv, ModuleInv, Alone, Ahead
<1>9. Alone' => \A m \in Mods : cmd[m] = 0
  BY <1>2, <1>3, <1>4, <1>6 DEF InstallInv, BeforeInv, ModuleInv, Alone, Quiet
<1>10. Alone' => \A m \in Mods : at' = "PAU" /\ ClassOf(m) = "PAU" => Quiet(m)
  BY <1>2, <1>3, <1>4, <1>6 DEF InstallInv, BeforeInv
<1>11. BeforeInv'
  BY <1>1, <1>2, <1>3, <1>4, <1>7 DEF InstallInv, BeforeInv, Alone
<1>12. HeaderInv'
  BY <1>1, <1>2, <1>5, <1>6, <1>7 DEF HeaderInv
<1>13. ASSUME Alone', NEW m \in Mods, ClassOf(m) = at
       PROVE  /\ Quiet(m) /\ m \in upg' /\ m \notin status' /\ m \notin conf' /\ m \notin flag'
              /\ disk'[ClassOf(m)] = p
  BY <1>1, <1>2, <1>4, <1>8, <1>13, Consts
<1>14. ASSUME Alone', NEW m \in Mods, ClassOf(m) # at
       PROVE  /\ m \in upg' <=> m \in upg
              /\ m \in status' <=> m \in status
              /\ m \in conf' <=> m \in conf
              /\ m \in flag' <=> m \in flag
              /\ disk'[ClassOf(m)] = disk[ClassOf(m)]
  BY <1>1, <1>2, <1>4, <1>14, Consts
<1>15. \A c \in Classes : c # at => (Ahead(c)' <=> c = "PAU" /\ at' = "PAU")
  BY <1>2, <1>3 DEF Ahead, Classes
<1>16. \A c \in Classes : c = at => ~Ahead(c)'
  BY <1>2, <1>3 DEF Ahead
<1>17. ModuleInv'
  <2> SUFFICES ASSUME Alone', NEW m \in Mods
               PROVE  /\ m \in upg' => disk'[ClassOf(m)] = p
                      /\ st[m] # "none" => sending[m] = p /\ m \in flag'
                      /\ st[m] = "success" => held[m] = p
                      /\ cmd[m] = 0
                      /\ Ahead(ClassOf(m))' => Quiet(m)'
                      /\ ~Ahead(ClassOf(m))' /\ ClassOf(m) \in Bits /\ m \in status' =>
                            m \in flag' /\ held[m] = p
    BY <1>1, <1>2, <1>5 DEF ModuleInv
  <2>1. CASE ClassOf(m) = at
    BY <1>2, <1>9, <1>13, <1>16, <2>1 DEF Quiet
  <2>2. CASE ClassOf(m) # at /\ at = "PSU"
    BY <1>2, <1>3, <1>4, <1>9, <1>10, <1>14, <1>15, <2>2, Consts DEF Quiet, Classes
  <2>3. CASE ClassOf(m) # at /\ at = "PAU" /\ cur = None
    <3>1. Quiet(m)
      BY <1>2, <1>4, <1>6, <2>3 DEF InstallInv, BeforeInv
    <3>2. ClassOf(m) = "PSU"
      BY <2>3, Consts DEF Classes
    <3>3. "PSU" \notin Bits
      BY <1>2, <1>6, <2>3 DEF InstallInv, BeforeInv
    <3> QED BY <1>2, <1>3, <1>9, <1>14, <1>15, <2>3, <3>1, <3>2, <3>3 DEF Quiet, Classes
  <2>4. CASE ClassOf(m) # at /\ at = "PAU" /\ cur = p
    BY <1>2, <1>3, <1>4, <1>6, <1>9, <1>14, <1>15, <2>4, Consts
       DEF InstallInv, ModuleInv, Alone, Ahead, Quiet, Classes
  <2> QED BY <1>3, <1>6, <2>1, <2>2, <2>3, <2>4
<1>18. ASSUME Alone', NEW c \in Classes, c # at, c \in Bits, ~Ahead(c)'
       PROVE  cur = p /\ at = "PAU" /\ c = "PSU" /\ Alone /\ ~Ahead(c)
  BY <1>2, <1>3, <1>4, <1>6, <1>15, <1>18 DEF InstallInv, BeforeInv, Alone, Ahead, Classes
<1>19. ASSUME Alone', NEW c \in Classes, c # at, Served(c) PROVE Served(c)'
  BY <1>14, <1>19 DEF Served
<1>20. ClassInv'
  <2> SUFFICES ASSUME Alone', NEW c \in Classes, c \in Bits, ~Ahead(c)',
                      NEW m \in Mods, ClassOf(m) = c, m \in conf'
               PROVE  went /\ Served(c)'
    BY <1>2, <1>5, <1>7, <1>9 DEF ClassInv
  <2>1. c # at /\ m \in conf
    BY <1>13, <1>14
  <2> QED BY <1>18, <1>19, <2>1 DEF InstallInv, ClassInv
<1> QED BY <1>2, <1>11, <1>12, <1>17, <1>20 DEF InstallInv

LEMMA InstallNoSpread ==
    ASSUME UTypeOK, InstallInv, NoSpread \/ NoPackage \/ SpreadDone
    PROVE  InstallInv'
<1>1. /\ ~asked' /\ pc = "spread"
      /\ UNCHANGED <<hdr, kind, dl, disk, send, flags, held, cur>>
  BY DEF NoSpread, NoPackage, SpreadDone, NextClass, Runs, SpreadEnd, flow, ext, hist
<1>2. Bits' = Bits
  BY <1>1, BitsKept
<1>3. Alone' => Alone
  <2>1. mixed => mixed'
    BY Zenon DEF NoSpread, NoPackage, SpreadDone, hist
  <2> QED BY <1>1, <2>1 DEF Alone
<1>4. Alone' => /\ at = "PAU" \/ at = "end"
                /\ \A c \in Classes : c \in Bits /\ ~Ahead(c)' => ~Ahead(c)
                /\ pc' = "spread" => at' = "end"
                /\ post' = post
                /\ went => went'
  BY <1>1, <1>3 DEF InstallInv, BeforeInv, HeaderInv, Alone, NoSpread, NoPackage, SpreadDone, NextClass,
         SpreadEnd, Ahead, Classes, flow
<1>5. BeforeInv'
  <2>1. CASE NoSpread \/ NoPackage
    BY <1>1, <1>2, <2>1 DEF InstallInv, BeforeInv, NoSpread, NoPackage, NextClass, Alone,
       Quiet, send, flags, flow, hist
  <2>2. CASE SpreadDone
    BY <1>1, <2>2 DEF InstallInv, BeforeInv, SpreadDone, SpreadEnd
  <2> QED BY <2>1, <2>2
<1>6. HeaderInv'
  BY <1>1, <1>2, <1>3 DEF InstallInv, HeaderInv
<1>7. ModuleInv'
  BY <1>1, <1>2, <1>3, <1>4, Consts DEF InstallInv, ModuleInv, Quiet, Ahead, Classes, send, flags
<1>8. \A c \in Classes : Served(c)' <=> Served(c)
  BY <1>1 DEF Served, flags
<1>9. ClassInv'
  BY <1>1, <1>2, <1>3, <1>4, <1>8 DEF InstallInv, ClassInv, flags
<1> QED BY <1>1, <1>5, <1>6, <1>7, <1>9 DEF InstallInv

\* An upgrade begins: as many modules have the image as took it.
LEMMA InstallConfirms == ASSUME UTypeOK, InstallInv, Confirms PROVE InstallInv'
<1>1. /\ ~asked' /\ pc = "conf" /\ pc' \in {"install", "post"} /\ "conf" \in req
      /\ UNCHANGED <<hdr, kind, dl, at, disk, send, flag, status, conf, held, cur, went, mixed>>
      /\ req' \subseteq req
      /\ post' \subseteq post
  BY DEF Confirms, Runs, ConfTakeOut, ConfEnd, Tells, files, ext, hist
<1>2. Bits' = Bits
  BY <1>1, BitsKept
<1>3. \A m \in Mods : cmd'[m] = cmd[m] \/ cmd'[m] = 1
  BY DEF Confirms, Tells
<1>4. Alone' => Alone
  BY <1>1 DEF Alone
<1>5. went
  BY <1>1 DEF InstallInv, BeforeInv
<1>6. ~AnyBusy
  BY DEF Confirms
<1>7. Alone => \A c \in Classes : c \in Bits => Served(c)
  BY <1>1, <1>6, Conditions DEF Served, AnyBusy
<1>8. \A c \in Classes : ~Ahead(c) /\ ~Ahead(c)' /\ (Served(c)' <=> Served(c))
  BY <1>1 DEF Served, Ahead
<1>9. BeforeInv'
  BY <1>1, <1>5 DEF InstallInv, BeforeInv
<1>10. HeaderInv'
  BY <1>1, <1>2, <1>4 DEF InstallInv, HeaderInv
<1>11. ModuleInv'
  BY <1>1, <1>2, <1>3, <1>4, <1>8, Consts DEF InstallInv, ModuleInv, send
<1>12. ClassInv'
  BY <1>1, <1>2, <1>4, <1>5, <1>7, <1>8 DEF InstallInv, ClassInv
<1> QED BY <1>1, <1>9, <1>10, <1>11, <1>12 DEF InstallInv

LEMMA InstallInstalls ==
    ASSUME UTypeOK, InstallInv, NEW good \in BOOLEAN, Installs(good)
    PROVE  InstallInv'
<1>1. /\ ~asked' /\ pc = "install" /\ pc' = "post"
      /\ UNCHANGED <<hdr, kind, at, disk, send, flags, held, cur, went, mixed>>
      /\ dl' \in {dl, "Fail"} /\ req' \subseteq req
      /\ post' \subseteq post \cup {"APP"}
  BY DEF Installs, Runs, ConfEnd, files, ext, hist
<1>2. Bits' = Bits
  BY <1>1, BitsKept
<1>3. Alone' => Alone
  BY <1>1 DEF Alone
<1>4. \A c \in Classes : ~Ahead(c) /\ ~Ahead(c)' /\ (Served(c)' <=> Served(c)) /\ c # "APP"
  BY <1>1 DEF Served, Ahead, flags, Classes
<1>5. BeforeInv'
  BY <1>1 DEF InstallInv, BeforeInv
<1>6. HeaderInv'
  BY <1>1, <1>2, <1>3 DEF InstallInv, HeaderInv
<1>7. ModuleInv'
  BY <1>1, <1>2, <1>3, <1>4, Consts DEF InstallInv, ModuleInv, send, flags
<1>8. ClassInv'
  BY <1>1, <1>2, <1>3, <1>4 DEF InstallInv, ClassInv, flags
<1> QED BY <1>1, <1>5, <1>6, <1>7, <1>8 DEF InstallInv

\* A class counts as done when as many modules have answered as took the image; one
\* has answered, so they were told, and the upgrade was asked for.
LEMMA InstallPosts == ASSUME UTypeOK, InstallInv, Posts PROVE InstallInv'
<1>1. /\ pc = "post" /\ pc' = "ftp" /\ req' = req
      /\ UNCHANGED <<hdr, kind, at, disk, send, flags, held, cur, went, mixed>>
      /\ dl' \in {dl, "RstWait"}
      /\ post' = post \cup Confirmed
      /\ asked' => post' = Bits
  BY DEF Posts, Post, files, ext, hist
<1>2. Bits' = Bits
  BY <1>1, BitsKept
<1>3. Alone' => Alone
  BY <1>1 DEF Alone
<1>4. \A c \in Classes : ~Ahead(c) /\ ~Ahead(c)' /\ (Served(c)' <=> Served(c))
  BY <1>1 DEF Served, Ahead, flags
<1>5. ASSUME Alone, NEW c \in Confirmed, c \in Bits
      PROVE  /\ went /\ Served(c)
             /\ \A m \in Mods : ClassOf(m) = c /\ m \in flag => m \in conf
  <2>1. PICK m \in Mods : ClassOf(m) = c /\ m \in status
    BY <1>5, Conditions
  <2>2. c \in Classes /\ m \in flag
    BY <1>4, <1>5, <2>1, Conditions DEF InstallInv, ModuleInv
  <2>3. m \in conf
    BY <2>1, <2>2, Conditions
  <2> QED BY <1>4, <1>5, <2>1, <2>2, <2>3, Conditions DEF InstallInv, ClassInv
<1>6. BeforeInv'
  BY <1>1 DEF InstallInv, BeforeInv
<1>7. HeaderInv'
  BY <1>1, <1>2, <1>3 DEF InstallInv, HeaderInv
<1>8. ModuleInv'
  BY <1>1, <1>2, <1>3, <1>4, Consts DEF InstallInv, ModuleInv, send, flags
<1>9. ClassInv'
  BY <1>1, <1>2, <1>3, <1>4, <1>5 DEF InstallInv, ClassInv, flags
<1> QED BY <1>1, <1>2, <1>6, <1>7, <1>8, <1>9 DEF InstallInv

\* A module takes the image: one that does so after another of its class has ended
\* was put in late, so that the count of those that took it stands once one has it.
LEMMA InstallBegins ==
    ASSUME UTypeOK, InstallInv, NEW m \in Mods, Begins(m)
    PROVE  InstallInv'
<1>1. /\ ~asked' /\ m \in upg
      /\ UNCHANGED <<hdr, kind, dl, req, pc, at, disk, status, conf, cmd, post, held, cur, went>>
      /\ upg' = upg \ {m}
      /\ \/ flag' = flag /\ st' = st /\ sending' = sending
         \/ /\ flag' = flag \cup {m}
            /\ st' = [st EXCEPT ![m] = "send"]
            /\ sending' = [sending EXCEPT ![m] = disk[ClassOf(m)]]
            /\ ~mixed' => In(status, ClassOf(m)) = {}
  BY DEF Begins, Runs, flow, files
<1>2. Bits' = Bits
  BY <1>1, BitsKept
<1>3. mixed => mixed'
  BY Zenon DEF Begins
<1>4. Alone' => Alone
  BY <1>1, <1>3 DEF Alone
<1>5. \A c \in Classes : Ahead(c)' <=> Ahead(c)
  BY <1>1 DEF Ahead
<1>6. ASSUME Alone', NEW c \in Classes, Served(c) PROVE Served(c)'
  <2>1. CASE flag' = flag
    BY <1>1, <1>6, <2>1 DEF Served
  <2>2. CASE In(status, ClassOf(m)) = {}
    BY <1>1, <1>6, <2>2, Consts DEF Served, In, UTypeOK
  <2> QED BY <1>1, <1>6, <2>1, <2>2 DEF Alone
<1>7. ASSUME Alone', NEW c \in Classes, c \in Bits, c \in post, ~Ahead(c)
      PROVE  \A n \in Mods : ClassOf(n) = c /\ n \in flag' => n \in conf'
  <2>1. Served(c) /\ \A n \in Mods : ClassOf(n) = c /\ n \in flag => n \in conf
    BY <1>4, <1>7 DEF InstallInv, ClassInv
  <2>2. CASE flag' = flag
    BY <1>1, <2>1, <2>2
  <2>3. CASE In(status, ClassOf(m)) = {} /\ flag' = flag \cup {m}
    BY <1>1, <2>1, <2>3, Consts DEF Served, In
  <2> QED BY <1>1, <1>7, <2>2, <2>3 DEF Alone
<1>8. BeforeInv'
  BY <1>1, <1>2, <1>3 DEF InstallInv, BeforeInv, Quiet
<1>9. HeaderInv'
  BY <1>1, <1>2, <1>4 DEF InstallInv, HeaderInv
<1>10. ModuleInv'
  BY <1>1, <1>2, <1>4, <1>5, Consts DEF InstallInv, ModuleInv, Quiet, UTypeOK
<1>11. ClassInv'
  BY <1>1, <1>2, <1>4, <1>5, <1>6, <1>7 DEF InstallInv, ClassInv
<1> QED BY <1>1, <1>2, <1>8, <1>9, <1>10, <1>11 DEF InstallInv

\* The image is sent: to an amplifier this counts at once.
LEMMA InstallSent ==
    ASSUME UTypeOK, InstallInv, NEW m \in Mods, Sent(m) \/ Succeeds(m)
    PROVE  InstallInv'
<1>1. /\ ~asked' /\ st[m] # "none"
      /\ UNCHANGED <<hdr, kind, dl, req, pc, at, disk, upg, sending, flag, conf, cmd, post, cur, went, mixed>>
      /\ status' \in {status, status \cup {m}}
      /\ st' \in {[st EXCEPT ![m] = "none"], [st EXCEPT ![m] = "success"]}
      /\ \/ held' = [held EXCEPT ![m] = sending[m]]
         \/ held' = held /\ st[m] = "success" /\ st'[m] = "none"
  BY DEF Sent, Succeeds, Runs, flow, files, ext, hist, UTypeOK
<1>2. Bits' = Bits
  BY <1>1, BitsKept
<1>3. Alone' => Alone
  BY <1>1 DEF Alone
<1>4. \A c \in Classes : Ahead(c)' <=> Ahead(c)
  BY <1>1 DEF Ahead
<1>5. Alone => m \in flag /\ sending[m] = cur /\ held'[m] = cur
  BY <1>1 DEF InstallInv, ModuleInv, UTypeOK
<1>6. \A c \in Classes : Alone /\ Served(c) => Served(c)'
  BY <1>1, <1>5 DEF Served
<1>7. BeforeInv'
  BY <1>1, <1>2 DEF InstallInv, BeforeInv, Quiet
<1>8. HeaderInv'
  BY <1>1, <1>2, <1>3 DEF InstallInv, HeaderInv
<1>9. ModuleInv'
  BY <1>1, <1>2, <1>3, <1>4, <1>5, Consts DEF InstallInv, ModuleInv, Quiet, UTypeOK
<1>10. ClassInv'
  BY <1>1, <1>2, <1>3, <1>4, <1>6 DEF InstallInv, ClassInv
<1> QED BY <1>1, <1>2, <1>7, <1>8, <1>9, <1>10 DEF InstallInv

\* A module drops out, answers, or is linked otherwise.
LEMMA InstallModule ==
    ASSUME UTypeOK, InstallInv, NEW m \in Mods,
           SendFails(m) \/ PulledOut(m) \/ Answers(m) \/ DoesNot(m) \/ Link(m)
    PROVE  InstallInv'
<1>1. /\ ~asked'
      /\ UNCHANGED <<hdr, kind, req, pc, at, disk, upg, sending, flag, status, post, cur, went, mixed>>
      /\ dl' \in {dl, "Fail"}
      /\ st' = st \/ st' = [st EXCEPT ![m] = "none"]
      /\ cmd' = cmd \/ cmd' = [cmd EXCEPT ![m] = 0]
      /\ conf' = conf \/ (conf' = conf \cup {m} /\ cmd[m] # 0)
      /\ held' = held \/ cmd[m] = 2
  BY DEF SendFails, PulledOut, Answers, Told, DoesNot, Link, Runs, ModuleFails, flow, task, files,
         send, flags, ext, hist
<1>2. Bits' = Bits
  BY <1>1, BitsKept
<1>3. Alone' => Alone
  BY <1>1 DEF Alone
<1>4. \A c \in Classes : (Ahead(c)' <=> Ahead(c)) /\ (Served(c)' <=> Served(c))
  BY <1>1 DEF Ahead, Served
<1>5. Alone => held' = held /\ (conf' = conf \/ (conf' = conf \cup {m} /\ cmd[m] = 1))
  BY <1>1 DEF InstallInv, ModuleInv, UTypeOK
<1>6. BeforeInv'
  BY <1>1, <1>2 DEF InstallInv, BeforeInv, Quiet, UTypeOK
<1>7. HeaderInv'
  BY <1>1, <1>2, <1>3 DEF InstallInv, HeaderInv
<1>8. ModuleInv'
  BY <1>1, <1>2, <1>3, <1>4, <1>5, Consts DEF InstallInv, ModuleInv, Quiet, UTypeOK
<1>9. ClassInv'
  BY <1>1, <1>2, <1>3, <1>4, <1>5 DEF InstallInv, ClassInv, UTypeOK
<1> QED BY <1>1, <1>2, <1>6, <1>7, <1>8, <1>9 DEF InstallInv

LEMMA InstallStep == UTypeOK /\ InstallInv /\ [UNext]_uvars => InstallInv'
<1> SUFFICES ASSUME UTypeOK, InstallInv, [UNext]_uvars PROVE InstallInv'
  OBVIOUS
<1>1. CASE Clients
  BY <1>1, InstallOther, InstallHeader, InstallGoes DEF Clients
<1>2. CASE UTask
  BY <1>2, InstallOther, InstallHeader, InstallBegun, InstallSpread, InstallNoSpread,
     InstallConfirms, InstallInstalls, InstallPosts DEF UTask
<1>3. ASSUME NEW m \in Mods, Module(m) \/ Link(m) PROVE InstallInv'
  BY <1>3, InstallBegins, InstallSent, InstallModule DEF Module
<1>4. CASE Same(TimesOut)
  BY <1>4, InstallOther
<1>5. CASE UNCHANGED uvars
  <2>1. Bits' = Bits
    BY <1>5, BitsKept DEF uvars, flow
  <2> QED BY <1>5, <2>1 DEF uvars, own, flow, files, send, flags, ext, hist, InstallInv, BeforeInv,
          HeaderInv, ModuleInv, ClassInv, Alone, Quiet, Ahead, Served
<1> QED BY <1>1, <1>2, <1>3, <1>4, <1>5 DEF UNext

LEMMA Installed == USpec => [](UTypeOK /\ InstallInv)
<1> QED BY UTypeInit, TypeStep, InstallInit, InstallStep, PTL DEF USpec

\* The unit is reset for a package that was alone at work only when the upgrade was
\* asked for and every module that took the package has it and was told to apply it.
THEOREM ResetOnlyAfterAll == USpec => []ResetAfterAll
<1>1. UTypeOK /\ InstallInv => ResetAfterAll
  <2> SUFFICES ASSUME UTypeOK, InstallInv, asked, Alone
               PROVE  went /\ \A m \in flag : ClassOf(m) \in Bits => m \in conf /\ held[m] = cur
    BY DEF ResetAfterAll
  <2>1. \A c \in Classes : c \in Bits => c \in post /\ ~Ahead(c)
    BY DEF InstallInv, Ahead
  <2>2. \A c \in Classes : c \in Bits =>
           went /\ Served(c) /\ \A m \in Mods : ClassOf(m) = c /\ m \in flag => m \in conf
    BY <2>1 DEF InstallInv, ClassInv
  <2>3. went
    BY <2>2 DEF InstallInv, HeaderInv
  <2>4. ASSUME NEW m \in flag, ClassOf(m) \in Bits PROVE m \in conf /\ held[m] = cur
    <3>1. m \in Mods /\ ClassOf(m) \in Classes
      BY Consts DEF UTypeOK
    <3>2. m \in conf /\ m \in status
      BY <2>2, <2>4, <3>1 DEF Served
    <3> QED BY <2>1, <2>4, <3>1, <3>2 DEF InstallInv, ModuleInv
  <2> QED BY <2>3, <2>4
<1> QED BY <1>1, Installed, PTL

\* Complete, on which a client asks for the upgrade, is shown for such a package only
\* when every module that took it has it.
THEOREM CompleteOnlySent == USpec => []CompleteSent
<1>1. UTypeOK /\ InstallInv => CompleteSent
  BY Consts DEF InstallInv, HeaderInv, ModuleInv, ClassInv, Served, Ahead, CompleteSent, Alone,
                UTypeOK
<1> QED BY <1>1, Installed, PTL
=============================================================================
