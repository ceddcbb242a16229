------------------------------ MODULE LogStore ------------------------------
(***************************************************************************)
(* The log of the alarms sent to gREMS (log_file.c): a file with an index  *)
(* (the sizes of its records) before the records, and three files to       *)
(* recover it from: its checksum, a copy, and the copy's checksum.         *)
(*                                                                         *)
(* A record is written by Wr_Alm_Pkt_to_log and all are removed by         *)
(* Flush_gREMS_Pktlog_File, one at a time under a mutex.  LOG_Task's       *)
(* Init__PktLog, 15 s after the start, and the readers (Get_Pkt_from_log)  *)
(* do not take it.  Every step on a file is synced before the next; the    *)
(* power may fail at any of them.                                          *)
(*                                                                         *)
(* A record is known by its number and its size stands for it; a checksum  *)
(* is the content it was computed from; Part is what is no whole record.   *)
(* A file is <<>> (missing or empty) or <<content>>.  The log of the       *)
(* controls is the same code but for the mutex, which its writer lacks,    *)
(* and shares the temporary file.                                          *)
(***************************************************************************)
EXTENDS Integers, Sequences, FiniteSets

CONSTANTS
    Keep,       \* PKT_LOG_MAX_CNT: records kept when the log is moved
    MovMax,     \* PKT_LOG_MOV_MAX: records at which it is moved
    MaxRange,   \* PKT_LOG_MAX_RANGE: records the index has room for
    MaxRec,     \* bound on the records written
    MaxEnv      \* bound on the crashes and flushes, together

ASSUME LogAssumption ==
    /\ Keep \in Nat \ {0} /\ MovMax \in Nat /\ MaxRange \in Nat
    /\ Keep < MovMax /\ MovMax < MaxRange
    /\ MaxRec \in Nat /\ MaxEnv \in Nat

VARIABLES
    file,       \* log, log.chksum, log.old, log.old.chksum
    tmp,        \* Temp_Alm_Pkt_Log_File
    mem,        \* AlmPkt_Log_Header: the index in memory
    init,       \* Wr_Alm_Pkt_to_log has read the index since the start
    pc,         \* the holder of the mutex ("user") and LOG_Task ("task")
    re,         \* check_abnormal_log returned RET_None
    idx,        \* local: where the record goes in the index
    rec, env,   \* records and events so far
    done,       \* history: records written since the last flush began
    gone,       \* history: records a flush has removed
    harm        \* history: how the log may have come to harm

disk == <<file, tmp>>
run == <<mem, init, pc, re, idx>>
hist == <<done, gone, harm>>
vars == <<disk, run, rec, env, hist>>

Names == {"log", "sum", "old", "oldSum"}
Part == 0
Log(i, b) == <<[idx |-> i, body |-> b]>>
Empty == Log(<<>>, <<>>)
Torn == Log(<<>>, <<Part>>)
NoSum == Log(<<Part>>, <<>>)    \* a checksum cut short is that of nothing
Ranged(s) == {s[i] : i \in DOMAIN s}

Idx == IF file["log"] = <<>> THEN <<>> ELSE file["log"][1].idx
Body == IF file["log"] = <<>> THEN <<>> ELSE file["log"][1].body

\* What is written to a log that has been removed meanwhile is lost.
Rewritten(i, b) ==
    IF file["log"] = <<>> THEN file ELSE [file EXCEPT !["log"] = Log(i, b)]

Goes(p, label) == pc' = [pc EXCEPT ![p] = label]
Active(p) == pc[p] \notin {"idle", "wait", "ready"}

-----------------------------------------------------------------------------
(* check_abnormal_log                                                      *)

\* The operations on whole files, in their order: "to" becomes what "from" is,
\* or is deleted.
Op(from, to, next) == [from |-> from, to |-> to, next |-> next]

Ops ==
    [mkSum     |-> Op("log", "sum", "cpOld"),           \* make_log_chksum
     cpOld     |-> Op("log", "old", "cpOldSum"),        \* copy__log_old_from_current
     cpOldSum  |-> Op("sum", "oldSum", "open"),
     cpBack    |-> Op("old", "log", "cpBackSum"),       \* copy__log_from_old
     cpBackSum |-> Op("oldSum", "sum", "open"),
     rmLog     |-> Op("none", "log", "rmSum"),          \* delete__log_all
     rmSum     |-> Op("none", "sum", "rmOld"),
     rmOld     |-> Op("none", "old", "rmOldSum"),
     rmOldSum  |-> Op("none", "oldSum", "open"),
     flSum     |-> Op("none", "sum", "flOld"),          \* Flush_gREMS_Pktlog_File
     flOld     |-> Op("none", "old", "flOldSum"),
     flOldSum  |-> Op("none", "oldSum", "flEnd"),
     newSum    |-> Op("log", "sum", "end")]             \* Wr_Alm_Pkt_to_log

\* sha1sum of no file leaves nothing, cp of no file what there was.
Result(op) ==
    IF op.from = "none" THEN <<>>
    ELSE IF op.from # "log" /\ file[op.from] = <<>> THEN file[op.to]
    ELSE file[op.from]

Operate(p) ==
    /\ pc[p] \in DOMAIN Ops
    /\ file' = [file EXCEPT ![Ops[pc[p]].to] = Result(Ops[pc[p]])]
    /\ Goes(p, Ops[pc[p]].next)
    /\ UNCHANGED <<tmp, mem, init, re, idx, rec, env, hist>>

Valid(name, sum) == file[name] # <<>> /\ file[name] = file[sum]

\* Mutation: the copy is taken although its checksum is wrong.
RemedyOldUnchecked ==
    CASE file["log"] # <<>> /\ file["sum"] = <<>> -> "mkSum"
      [] Valid("log", "sum") -> "cpOld"
      [] file["old"] # <<>> /\ file["sum"] # file["log"] -> "cpBack"
      [] OTHER -> "rmLog"

Remedy ==
    CASE file["log"] # <<>> /\ file["sum"] = <<>> -> "mkSum"
      [] Valid("log", "sum") -> "cpOld"
      [] ~Valid("log", "sum") /\ (file["log"] # <<>> => file["sum"] # <<>>) ->
            IF Valid("old", "oldSum") THEN "cpBack" ELSE "rmLog"

Check(p) ==
    /\ pc[p] = "check"
    /\ Goes(p, Remedy)
    /\ re' = [re EXCEPT ![p] = Remedy \in {"cpBack", "rmLog"}]
    /\ UNCHANGED <<disk, mem, init, idx, rec, env, hist>>

\* The log is created when it is missing; its index is read by LOG_Task, and by
\* a writer for the first time or after a recovery.
Open(p) ==
    /\ pc[p] = "open"
    /\ file' = IF file["log"] = <<>> THEN [file EXCEPT !["log"] = Empty] ELSE file
    /\ mem' = IF file["log"] = <<>> THEN <<>>
              ELSE IF p = "task" \/ ~init \/ re[p] THEN Idx ELSE mem
    /\ init' = (init \/ p = "user")
    /\ idx' = IF p = "user" THEN Len(mem') ELSE idx
    /\ re' = [re EXCEPT ![p] = FALSE]
    /\ Goes(p, IF p = "user" THEN "room" ELSE "ready")
    /\ UNCHANGED <<tmp, rec, env, hist>>

-----------------------------------------------------------------------------
(* Wr_Alm_Pkt_to_log                                                       *)

\* Init__PktLog while a record is written, or the other way round.
Meets == harm' = IF Active("user") \/ Active("task") THEN harm \cup {"start"} ELSE harm

\* A log that has come to harm is followed to the end of what is under way and
\* of LOG_Task's start: harm = {} bounds the model here, in Flush and in Crash.
Begin ==
    /\ pc["user"] = "idle" /\ rec < MaxRec /\ harm = {}
    /\ rec' = rec + 1
    /\ Goes("user", "check")
    /\ Meets
    /\ UNCHANGED <<disk, mem, init, re, idx, env, done, gone>>

FullKept ==     \* mutation: a full index goes on growing
    /\ pc["user"] = "room" /\ idx >= MaxRange
    /\ Goes("user", "append")
    /\ UNCHANGED <<disk, mem, init, re, idx, rec, env, hist>>

\* A full index: the log is deleted (it could not be moved for long).
Clear ==
    /\ pc["user"] = "room" /\ idx >= MaxRange
    /\ mem' = <<>> /\ idx' = 0
    /\ file' = Rewritten(<<>>, <<>>)
    /\ Goes("user", "append")
    /\ harm' = harm \cup {"move"}
    /\ UNCHANGED <<tmp, init, re, rec, env, done, gone>>

HasRoom ==
    /\ pc["user"] = "room" /\ idx < MovMax
    /\ Goes("user", "append")
    /\ UNCHANGED <<disk, mem, init, re, idx, rec, env, hist>>

\* Move_PktLog_to_NewFile: the newest records go to the temporary file, which
\* may still hold what an earlier move has left there.
OldestKept(s) == SubSeq(s, 1, Keep)     \* mutation: of the wrong end
Newest(s) == SubSeq(s, (IF Len(s) > Keep THEN Len(s) - Keep ELSE 0) + 1, Len(s))

Move ==
    /\ pc["user"] = "room" /\ MovMax <= idx /\ idx < MaxRange
    /\ mem' = Newest(mem)
    /\ \/ tmp' = Log(mem', Newest(Body)) /\ UNCHANGED harm
       \/ /\ tmp # <<>> /\ tmp' = Log(mem', Append(Newest(Body), Part))
          /\ harm' = harm \cup {"move"}
    /\ Goes("user", "rm")
    /\ UNCHANGED <<file, init, re, idx, rec, env, done, gone>>

\* The temporary file cannot be opened, or not be filled: by then the index in
\* memory is already the new one.
MoveFails ==
    /\ pc["user"] = "room" /\ MovMax <= idx /\ idx < MaxRange
    /\ \/ UNCHANGED <<tmp, mem, harm>>
       \/ tmp' = Torn /\ mem' = Newest(mem) /\ harm' = harm \cup {"move"}
    /\ Goes("user", "append")
    /\ UNCHANGED <<file, init, re, idx, rec, env, done, gone>>

Remove ==
    /\ pc["user"] = "rm"
    /\ file' = [file EXCEPT !["log"] = <<>>]
    /\ Goes("user", "mv")
    /\ UNCHANGED <<tmp, mem, init, re, idx, rec, env, hist>>

Place ==
    /\ pc["user"] = "mv"
    /\ file' = [file EXCEPT !["log"] = tmp]
    /\ tmp' = <<>>
    /\ idx' = Len(mem)
    /\ Goes("user", "append")
    /\ UNCHANGED <<mem, init, re, rec, env, hist>>

\* Append_Pkt_to_logfile; a record that does not fit is cut off again.
AppendPkt ==
    /\ pc["user"] = "append"
    /\ file' = Rewritten(Idx, Append(Body, rec))
    /\ Goes("user", "index")
    /\ UNCHANGED <<tmp, mem, init, re, idx, rec, env, hist>>

AppendFails ==
    /\ pc["user"] = "append"
    /\ Goes("user", "newSum")
    /\ UNCHANGED <<disk, mem, init, re, idx, rec, env, hist>>

\* Wr_Pkt_Info_to_logfile
Put(s, i, r) == [k \in 1..i + 1 |-> IF k > i THEN r ELSE IF k <= Len(s) THEN s[k] ELSE Part]

Index ==
    /\ pc["user"] = "index"
    /\ mem' = Put(mem, idx, rec)
    /\ file' = Rewritten(mem', Body)
    /\ Goes("user", "newSum")
    /\ UNCHANGED <<tmp, init, re, idx, rec, env, hist>>

Written ==
    /\ pc["user"] = "end"
    /\ done' = IF rec \in Ranged(Body) THEN Append(done, rec) ELSE done
    /\ idx' = 0
    /\ Goes("user", "idle")
    /\ UNCHANGED <<disk, mem, init, re, rec, env, gone, harm>>

-----------------------------------------------------------------------------
(* Flush_gREMS_Pktlog_File, Init__PktLog, Get_Pkt_from_log                 *)

Flush ==
    /\ pc["user"] = "idle" /\ env < MaxEnv /\ harm = {}
    /\ env' = env + 1
    /\ mem' = <<>>
    /\ file' = [file EXCEPT !["log"] = Log(<<>>, Body)]
    /\ Goes("user", "cut")
    /\ done' = <<>>
    /\ Meets
    /\ UNCHANGED <<tmp, init, re, idx, rec, gone>>

CutCopyKept ==      \* mutation: the copy is left (as before 2019.11.30)
    /\ pc["user"] = "cut"
    /\ file' = Rewritten(Idx, <<>>)
    /\ Goes("user", "flEnd")
    /\ UNCHANGED <<tmp, mem, init, re, idx, rec, env, hist>>

Cut ==
    /\ pc["user"] = "cut"
    /\ file' = Rewritten(Idx, <<>>)
    /\ Goes("user", "flSum")
    /\ UNCHANGED <<tmp, mem, init, re, idx, rec, env, hist>>

Flushes ==
    /\ pc["user"] = "flEnd"
    /\ gone' = 1..rec
    /\ Goes("user", "idle")
    /\ UNCHANGED <<disk, mem, init, re, idx, rec, env, done, harm>>

Start ==
    /\ pc["task"] = "wait"
    /\ Goes("task", "check")
    /\ Meets
    /\ UNCHANGED <<disk, mem, init, re, idx, rec, env, done, gone>>

\* A reader that finds no log creates one, and clears the index in memory.
Read ==
    /\ file["log"] = <<>>
    /\ file' = [file EXCEPT !["log"] = Empty]
    /\ mem' = <<>>
    /\ harm' = IF pc["user"] = "mv" THEN harm \cup {"read"} ELSE harm
    /\ UNCHANGED <<tmp, init, pc, re, idx, rec, env, done, gone>>

-----------------------------------------------------------------------------
\* The power fails, in the middle of what is being written perhaps.
Half(p) ==
    CASE pc[p] \in DOMAIN Ops /\ Ops[pc[p]].from # "none" ->
            {[file EXCEPT ![Ops[pc[p]].to] = f] : f \in {<<>>, IF Ops[pc[p]].to \in {"log", "old"} THEN Torn ELSE NoSum}}
      [] pc[p] = "append" -> {Rewritten(Idx, Append(Body, Part))}
      [] pc[p] = "index" -> {Rewritten(<<Part>>, Body)}
      [] pc[p] = "mv" -> {[file EXCEPT !["log"] = Torn]}
      [] OTHER -> {}

\* A log without a checksum cannot be told from a torn one.
Bare == pc["user"] \in {"append", "index", "cut"} /\ file["sum"] = <<>>

Crash ==
    /\ env < MaxEnv /\ env' = env + 1 /\ harm = {}
    /\ file' \in {file} \cup Half("user") \cup Half("task")
    /\ tmp' \in {tmp, <<>>}
    /\ mem' = <<>> /\ init' = FALSE /\ idx' = 0
    /\ pc' = [user |-> "idle", task |-> "wait"]
    /\ re' = [user |-> FALSE, task |-> FALSE]
    /\ harm' = IF Bare THEN {"bare"} ELSE {}
    /\ UNCHANGED <<rec, done, gone>>

Init ==
    /\ file = [n \in Names |-> <<>>] /\ tmp = <<>>
    /\ mem = <<>> /\ init = FALSE /\ idx = 0
    /\ pc = [user |-> "idle", task |-> "wait"]
    /\ re = [user |-> FALSE, task |-> FALSE]
    /\ rec = 0 /\ env = 0
    /\ done = <<>> /\ gone = {} /\ harm = {}

Wr_Alm_Pkt_to_log ==
    \/ Begin \/ Clear \/ HasRoom \/ Move \/ MoveFails \/ Remove \/ Place
    \/ AppendPkt \/ AppendFails \/ Index \/ Written

Next ==
    \/ \E p \in {"user", "task"} : Check(p) \/ Operate(p) \/ Open(p)
    \/ Wr_Alm_Pkt_to_log
    \/ Flush \/ Cut \/ Flushes
    \/ Start \/ Read
    \/ Crash

Spec == Init /\ [][Next]_vars

-----------------------------------------------------------------------------
Contents == [idx : Seq(0..MaxRec), body : Seq(0..MaxRec)]
File(f) == f = <<>> \/ (Len(f) = 1 /\ f[1] \in Contents)

\* The index in memory never outgrows its room.
TypeOK ==
    /\ \A n \in Names : File(file[n])
    /\ File(tmp)
    /\ mem \in Seq(0..MaxRec) /\ Len(mem) <= MaxRange
    /\ init \in BOOLEAN /\ re \in [{"user", "task"} -> BOOLEAN]
    /\ pc["user"] \in {"idle", "check", "open", "room", "rm", "mv", "append", "index", "end",
                       "cut", "flEnd"} \cup DOMAIN Ops
    /\ pc["task"] \in {"wait", "check", "open", "ready"} \cup DOMAIN Ops
    /\ idx \in 0..MaxRange
    /\ rec \in 0..MaxRec /\ env \in 0..MaxEnv
    /\ done \in Seq(1..rec) /\ gone \subseteq 1..rec
    /\ harm \subseteq {"start", "move", "read", "bare"}

AtRest == pc = [user |-> "idle", task |-> "ready"]

\* Nothing did harm: no start of LOG_Task and no reader came in the middle of a
\* write, no move failed, and no power failure hit a log without a checksum.
Unharmed == AtRest /\ harm = {}

\* Wherever the power failed, the log that goes on being used is whole: its index,
\* and the one in memory, are those of its records.
Whole == Unharmed => file["log"] # <<>> /\ Idx = Body /\ mem = Idx

\* A record that was written is not lost by later failures: it is in the log until
\* it is flushed or Keep newer ones are there.
Kept == Unharmed =>
    \A i \in DOMAIN done :
        \/ done[i] \in Ranged(Body)
        \/ Cardinality({r \in Ranged(Body) : r > done[i]}) >= Keep

\* What a flush has removed does not come back from the copy.
Flushed == Unharmed => Ranged(Body) \cap gone = {}

\* "For a read of the log there seems to be no need to use" the mutexes
\* (log_file.c 1575).
ReadHarmless == AtRest /\ harm \subseteq {"read"} => Idx = Body /\ mem = Idx
=============================================================================
