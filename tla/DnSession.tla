------------------------------ MODULE DnSession ------------------------------
(***************************************************************************)
(* Download of a file: the communication thread takes the blocks that a    *)
(* management client sends (rxStartDownload, rxDataDownload,               *)
(* rxFinishConfirm, rxDNconfirm, ftp_get_pkg) and WDT_Task ends a session  *)
(* in which nothing has come for too long.  system_call_Task, module       *)
(* PkgFlow, shares the session's counters and the temporary file.          *)
(*                                                                         *)
(* A block is known by its file and its number; a CRC is the sequence it   *)
(* was computed from.  Clients are external: any command may come at any   *)
(* time, repeated or out of order.  A handler is a step, but for the timer *)
(* that DownLoadDataCheck sets before it.                                  *)
(***************************************************************************)
EXTENDS PkgFlow, Sequences

CONSTANTS
    Images,     \* single images
    Blocks,     \* blocks of a file
    MaxCmd      \* bound on the commands of the clients

ASSUME DnAssumption ==
    /\ Blocks \in Nat \ {0} /\ MaxCmd \in Nat
    /\ Pkgs \cap Images = {} /\ "absent" \notin Pkgs \cup Images

VARIABLES
    comm,               \* the command being handled, by the timeout it set
    cmds,               \* commands that have come
    total, cont,        \* downTotalBlock, downTotalBlock_continue
    received, crc,      \* downReceivedBlock, tot_crc
    recvSize,           \* down_load_recv_size, in blocks
    pre,                \* pre_DN_file_header
    finished,           \* rxFinishConfirm_cnt
    rcu,                \* m_Env.DnMode.Rcu
    temp,               \* DN_TEMP_FILE
    isDl, wdt,          \* is_down_load, and its timer as WDT_Task saw it
    owed,               \* history: a package acknowledged and not yet taken up
    unseen,             \* history: WDT_Task ended a session between the timer
                        \* and the handler of a command
    hurt                \* history: since its first block, a block of the session
                        \* was not written, or another wrote or took the file

client == <<comm, cmds>>
count == <<total, cont, received, crc, recvSize, pre, finished, rcu>>
watch == <<isDl, wdt, unseen>>
file == <<temp, hurt>>
vars == <<flow, client, count, file, watch, owed>>

Files == Pkgs \cup Images
Unit(f, k) == [f |-> f, k |-> k]
Units == {Unit(f, k) : f \in Files, k \in 0..Blocks - 1}
Whole(f) == [i \in 1..Blocks |-> Unit(f, i - 1)]
Absent == <<Unit("absent", 0)>>     \* no file
Part == <<Unit("part", 0)>>         \* an archive out of a package

-----------------------------------------------------------------------------
(* The communication thread                                                *)

Command == comm = "idle" /\ cmds < MaxCmd /\ cmds' = cmds + 1
Handling(c) == comm = c /\ comm' = "idle" /\ UNCHANGED cmds

\* DownLoadDataCheck
Dispatch(c) ==
    /\ Command /\ comm' = c
    /\ isDl' = TRUE /\ unseen' = FALSE
    /\ UNCHANGED <<flow, count, file, wdt, owed>>

\* rxStartDownload; packages in mode m, single images in mode r.
Start(m, r) ==
    /\ Handling("block")
    /\ Starts(m)
    /\ total' = Blocks /\ rcu' = r
    /\ temp' = IF temp = Absent THEN <<>> ELSE temp
    /\ UNCHANGED <<cont, received, crc, recvSize, pre, finished, hurt, watch, owed>>

\* rxReStartDownload changes nothing but the timer.
ReStart ==
    /\ Handling("block")
    /\ UNCHANGED <<flow, count, file, watch, owed>>

\* rxDataDownload: a package whose header is that of the session goes on where
\* the session stopped.
SameHeader(p) == pre = p /\ cont = total

Resume(p) ==
    /\ Handling("block")
    /\ SameHeader(p)
    /\ NoBlock
    /\ UNCHANGED <<count, file, watch, owed>>

\* The first block of another file: the session begins again, ...
Afresh ==
    /\ Handling("block")
    /\ recvSize' = 0 /\ crc' = <<>> /\ received' = 0 /\ finished' = FALSE
    /\ cont' = total
    /\ UNCHANGED <<total, pre, rcu, hurt, watch, owed>>

\* ... finds no file, ...
RenewFails(p) ==
    /\ ~SameHeader(p)
    /\ Afresh
    /\ NoBlock
    /\ UNCHANGED temp

\* ... is refused, for its header or its kind or because an image finds no file, ...
FirstRefused(p) ==
    /\ Afresh
    /\ \/ Header(p) /\ temp' = <<>>
       \/ (WrongImage \/ Image) /\ temp' \in {<<>>, temp}

\* ... or is taken.
FirstBlock(f, saved) ==
    /\ Handling("block")
    /\ f \in Pkgs => ~SameHeader(f) /\ Header(f)
    /\ f \in Images => Image
    /\ finished' = FALSE /\ cont' = total
    /\ recvSize' = 1
    /\ temp' = IF saved THEN <<Unit(f, 0)>> ELSE <<>>
    /\ crc' = temp'
    /\ received' = Len(temp')
    /\ pre' = IF f \in Pkgs THEN f ELSE pre
    /\ hurt' = (hurt /\ ~saved)
    /\ UNCHANGED <<total, rcu, watch, owed>>

\* SaveDnDataFile: a block beyond the size of the file is taken and not saved;
\* one that cannot be written still counts.
NextBlock(f, k, saved) ==
    /\ Handling("block")
    /\ k > 0
    /\ Block
    /\ LET room == recvSize < Blocks
           taken == received = k /\ (saved \/ ~room)
       IN  /\ recvSize' = IF received = k /\ room THEN recvSize + 1 ELSE recvSize
           /\ received' = IF taken THEN received + 1 ELSE received
           /\ crc' = IF taken THEN Append(crc, Unit(f, k)) ELSE crc
           /\ temp' = IF ~(taken /\ room) THEN temp
                      ELSE IF temp = Absent THEN <<Unit(f, k)>> ELSE Append(temp, Unit(f, k))
           /\ hurt' = (hurt \/ (received = k /\ room /\ ~saved))
    /\ UNCHANGED <<total, cont, pre, finished, rcu, watch, owed>>

\* rxFinishConfirm, with the number of blocks and the CRC of f; a single image
\* is also checked by its own CRC (CheckDN_File): good.
Agrees(f) == received = Blocks /\ crc = Whole(f)

FinishIgnored ==
    /\ Handling("finish")
    /\ finished
    /\ UNCHANGED <<flow, count, file, watch, owed>>

FinishNack(f, good) ==
    /\ Handling("finish")
    /\ ~finished
    /\ ~Agrees(f) \/ kind = "wrong" \/ (kind = "one" /\ ~good)
    /\ Refused
    /\ finished' = TRUE
    /\ total' = Blocks
    /\ crc' = <<>> /\ received' = 0 /\ pre' = None
    /\ temp' = <<>>
    /\ UNCHANGED <<cont, recvSize, rcu, hurt, watch, owed>>

FinishAck(f) ==
    /\ Handling("finish")
    /\ ~finished
    /\ Agrees(f)
    /\ finished' = TRUE
    /\ total' = Blocks
    /\ \/ Accepted /\ isDl' = FALSE /\ owed' = TRUE
       \/ ImageAccepted(rcu = "auto") /\ isDl' = (rcu = "auto" /\ isDl) /\ UNCHANGED owed
    /\ UNCHANGED <<cont, received, crc, recvSize, pre, rcu, file, wdt, unseen>>

\* rxDNconfirm, ftp_get_pkg
Goes ==
    /\ Command /\ Go
    /\ UNCHANGED <<comm, count, file, watch, owed>>

\* Mutation: the file is emptied, what was counted of it is kept.
CancelsFile ==
    /\ Command /\ Cancel
    /\ pre' = None
    /\ temp' = <<>>
    /\ owed' = FALSE
    /\ UNCHANGED <<comm, total, cont, received, crc, recvSize, finished, rcu, hurt, watch>>

Cancels ==
    /\ Command /\ Cancel
    /\ crc' = <<>> /\ received' = 0 /\ pre' = None
    /\ temp' = <<>>
    /\ owed' = FALSE
    /\ UNCHANGED <<comm, total, cont, recvSize, finished, rcu, hurt, watch>>

FtpRequested ==
    /\ Command /\ FtpRequest
    /\ UNCHANGED <<comm, count, file, watch, owed>>

-----------------------------------------------------------------------------
(* WDT_Task: the timer runs out 30 s after a block, 3 s after the end.     *)

WdtSees ==
    /\ wdt = "watching" /\ wdt' = "ending"
    /\ isDl
    /\ UNCHANGED <<flow, client, count, file, isDl, unseen, owed>>

\* Mutation: the timer ends without a word to those who wait.
WdtEndsQuiet ==
    /\ wdt = "ending" /\ wdt' = "watching"
    /\ isDl' = FALSE
    /\ unseen' = (comm # "idle")
    /\ UNCHANGED <<flow, client, count, file, owed>>

WdtEnds ==
    /\ wdt = "ending" /\ wdt' = "watching"
    /\ isDl' = FALSE
    /\ TimesOut
    /\ unseen' = (comm # "idle")
    /\ UNCHANGED <<client, count, file, owed>>

-----------------------------------------------------------------------------
(* system_call_Task, where it touches the session                          *)

Fetched(p) ==
    /\ FtpGot(p)
    /\ temp' = Whole(p) /\ hurt' = TRUE
    /\ UNCHANGED <<client, count, watch, owed>>

\* The header is refused, or the copy of the file ends early.
FetchFails(p) ==
    /\ FtpSpoilt(p)
    /\ hurt' = TRUE
    /\ \/ temp' = temp
       \/ p \in Pkgs /\ \E n \in 0..Blocks : temp' = SubSeq(Whole(p), 1, n)
    /\ UNCHANGED <<client, count, watch, owed>>

Begun ==
    /\ ZipBegin
    /\ recvSize' = 0 /\ crc' = <<>> /\ received' = 0 /\ finished' = FALSE /\ pre' = None
    /\ owed' = FALSE
    /\ UNCHANGED <<client, total, cont, rcu, file, watch>>

\* The file is cut to the size of the package and moved away.
Cut(s) == SubSeq(s, 1, IF Len(s) < Blocks THEN Len(s) ELSE Blocks)

Holds(content) ==
    CASE content = None -> temp = Absent
      [] content \in Pkgs -> Cut(temp) = Whole(content)
      [] content = "bad" -> temp # Absent /\ \A p \in Pkgs : Cut(temp) # Whole(p)

Moved(content) ==
    /\ Holds(content)
    /\ ZipCheck(content)
    /\ temp' = Absent /\ hurt' = TRUE
    /\ UNCHANGED <<client, count, watch, owed>>

TakenOut ==
    /\ ConfTakeOut
    /\ temp' = Part /\ hurt' = TRUE
    /\ UNCHANGED <<client, count, watch, owed>>

Cleared ==
    /\ FailClear
    /\ cont' = 0
    /\ UNCHANGED <<client, total, received, crc, recvSize, pre, finished, rcu, file, watch, owed>>

Elsewhere(A) == A /\ UNCHANGED <<client, count, file, watch, owed>>

Gets == Elsewhere(FtpBegin)
HandsOver == Elsewhere(Inside)

Steps ==
    \/ FtpPass \/ FtpFails
    \/ ZipNone \/ ZipHash \/ \E code \in {0, 9} : Unzip(code)
    \/ SpreadEnd
    \/ ConfBusy \/ ConfLater
    \/ \E b \in BOOLEAN : ConfEnd(b) \/ Settle(b) \/ Post(b)
    \/ FailRemove

-----------------------------------------------------------------------------
Init ==
    /\ FlowInit
    /\ comm = "idle" /\ cmds = 0
    /\ total = 0 /\ cont = 0 /\ received = 0 /\ crc = <<>> /\ recvSize = 0
    /\ pre = None /\ finished = FALSE /\ rcu = "wait"
    /\ temp = Absent
    /\ isDl = FALSE /\ wdt = "watching" /\ owed = FALSE /\ unseen = FALSE
    /\ hurt = FALSE

Handle ==
    \/ \E m \in Modes : \E r \in {m, "auto"} : Start(m, r)
    \/ ReStart
    \/ \E p \in Headers : Resume(p) \/ RenewFails(p) \/ FirstRefused(p)
    \/ \E f \in Files, saved \in BOOLEAN :
        \/ FirstBlock(f, saved)
        \/ \E k \in 1..Blocks - 1 : NextBlock(f, k, saved)
    \/ FinishIgnored
    \/ \E f \in Files : FinishAck(f) \/ \E good \in BOOLEAN : FinishNack(f, good)

Comm ==
    \/ \E c \in {"block", "finish"} : Dispatch(c)
    \/ Handle
    \/ Goes \/ Cancels \/ FtpRequested

Wdt == WdtSees \/ WdtEnds

Task ==
    \/ Gets
    \/ \E p \in Pkgs : Fetched(p)
    \/ \E p \in Headers : FetchFails(p)
    \/ Begun
    \/ \E content \in Contents : Moved(content)
    \/ TakenOut \/ Cleared
    \/ Elsewhere(Steps)

\* What the modules of the unit do is module PkgUpgrade.
Modules == Elsewhere(ModuleFails)

Next == Comm \/ Wdt \/ Task \/ HandsOver \/ Modules

Spec == Init /\ [][Next]_vars

-----------------------------------------------------------------------------
\* The session's counters agree: the CRC is over the blocks received.
TypeOK ==
    /\ FlowTypeOK
    /\ comm \in {"idle", "block", "finish"} /\ cmds \in 0..MaxCmd
    /\ total \in {0, Blocks} /\ cont \in {0, Blocks}
    /\ received \in 0..Blocks /\ recvSize \in 0..Blocks
    /\ crc \in Seq(Units) /\ Len(crc) = received
    /\ pre \in Headers /\ finished \in BOOLEAN /\ rcu \in Modes
    /\ temp \in Seq(Units \cup {Unit("absent", 0), Unit("part", 0)})
    /\ isDl \in BOOLEAN /\ wdt \in {"watching", "ending"}
    /\ owed \in BOOLEAN /\ unseen \in BOOLEAN /\ hurt \in BOOLEAN

\* When number and CRC of the blocks are those of a file, so that rxFinishConfirm
\* acknowledges it, the file is there in full, whatever sessions were broken off,
\* resumed, refused or cancelled before: but for a block of the session that could
\* not be written (it is counted when it is sent again) and for system_call_Task,
\* which works on the same file.
AgreedWhole == \A f \in Files : Agrees(f) => hurt \/ Cut(temp) = Whole(f)

\* Whatever was lost or written twice on the way, what is unpacked is a whole
\* package: a block that could not be saved is counted, so that the CRC of
\* rxFinishConfirm agrees with a file that lacks one, and only the hash tells.
UnpackedIntact == pc = "unzip" => zip # "bad"

\* A session shown as under way has someone to end it: the timer, the fetch,
\* or a request to system_call_Task; but for an acknowledged package whose
\* request was lost, and a session ended while its next command was on the way.
NowWatched ==
    dl = "Now" => isDl \/ pc = "get" \/ "zip" \in req \/ owed \/ unseen
=============================================================================
