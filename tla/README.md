# A TLA+ model of the RU controller (RCU_App_DN)

`RCU_App_DN` runs on the controller of a 5G radio unit. Two products are built
from one source tree, the AAU and the PRU (`__TYPE__AAU__`, `__TYPE__PRU__`; the
maker is `__MAKER_ANTS__`). It brings the unit up with the line station (LS),
supervises alarms, resets the unit when nothing else helps, keeps its
configuration in flash, downloads software and reports to the management system
(gREMS).

This directory holds TLA+ modules for the parts of that program whose
correctness depends on order, interleaving, crashes or time, the TLC
configurations that check them, and proofs checked by TLAPS. Source paths below
are relative to the repository; line numbers refer to the same commit as the
modules. The sources are CP949 text with CRLF line ends.

## 1. Inventory

The Makefile links 40 C files. Threads share global structures (`m_Eep`, `m_Env`,
`m_St`, `AufoConfigFlag`, `m_Uda`) mostly without locks, and communicate through
flags in them, which is where most of the hazards listed in `PROJECT.json` are.

| component | sources | state | operations | hard because |
|---|---|---|---|---|
| UDA auto-reset | `uda_proc.c`, parts of `alarm.c`, `main.c` | `m_Uda`, timers per source, `auto_rst_req`, the reset-info record | judge alarms, decide, save, reset, restore at boot, operator's mode command | spans reboots, five timers per source, a command from another thread |
| Boot, reset reason, watchdog task | `main.c`, `alarm.c`, `os_util.c` | `m_rst_info`, `is_reboot`, task flags | `Chk_ResetReason`, `WDT_Task`, `End_task`, `Proc_PSU_Reset` | several requesters of one reset, shutdown with running threads |
| Start-up with the LS | `auto_cofig_proc.c`, `lsh_udp_comm.c` | two step ladders, `RU_Init_Status`, `Init_Status`, `RU_Id_Alloc`, lock and base-address flags | `Auto_Config_Task` pass, datagram handlers | two threads write the same flags; datagrams get lost and arrive late; restarts |
| Persistent records | `eep_emul.c`, `alarm.c` | two files per record, RAM image, `is_eep_write` | read, write, repair, save request | crash during a write, writers in several threads |
| UDP receive queues | `udp_comm.c`, `comm_lib.c` | a ring of datagrams and a pipe per port | receive, wake up, take | the ring has no full check |
| Frame parser | `frame.c`, `crc.c` | byte ring, parser stage | add bytes, get frame | resynchronisation after a corrupt frame |
| Download | `down_load.c`, `comm.c`, `main.c` | the session's counters, `zip_header`, the files, `DL_State`, three requests to `system_call_Task`, the flags of the modules | start, data, finish, confirm, resume, fetch by ftp, check, unpack, copy, confirm, reset | four threads write the state without locks; a timeout in another one; steps that last minutes |
| Log files | `log_file.c`, `log_event.c`, `log_reset.c` | a file with an index and records, its checksum, a copy, the copy's checksum, the index in memory | append, move, flush, recover, read | the power fails between any two steps; two threads without the mutex |
| gREMS, NMS alarms | `rems.c`, `nms_alarm.c`, `protocol.c` | report queues, alarm history | report, acknowledge, repeat | lost reports, queue limits |
| Standby, battery saving | `algorithm_rf.c`, parts of `PAU_comm.c`, `control.c` | two modes with states, delays and requests per amplifier, what battery saving switched off, the mark that shuts a path | `Proc_AMP_Standby`, `Proc_MIMO_Standby`, `Proc_AC_Fail_Batt_Save`, the stages of an amplifier's task, the operator's commands | several owners of the amplifier state in three threads; a state saved at the beginning is restored at the end |
| PAU, PSU | `PAU_comm.c`, `psu_comm.c` | `m_AutoDn`, `info_AMP`, the answers to an upgrade | poll, download frame by frame, apply, diagnose | late answers, modules that restart or are unplugged |
| FPGA registers, shutdown functions | `FPGA_Reg.c`, `spi.c`, `a_pru_mmap_proc.c` | register images, shutdown counters | read, write, over-power and over-temperature shutdown | retry counters and recovery times |
| DPD supervision | `pru_dpd.c` | DPD state per path | poll, restart, alarm | timeouts |
| Spectrum | `spectrum.c` | samples | measure | numerical |
| Local host, Bluetooth, DTU, console | `lo_host_comm.c`, `BT_Comm.c`, `dtu_udp_comm.c`, `cli.c`, `Debug_Lib.c` | none of their own | forward requests | - |
| Devices, helpers | `i2c_dev.c`, `temp_ic.c`, `ADC_ic.c`, `SIM.c`, `devicelib.c`, `inventory.c`, `util.c`, `comm_conf.c` | - | device access, conversion | - |

How they interact: the main thread (`Alarm_Process`) calls the UDA functions,
the standby functions and the alarm reports once a second. `WDT_Task` saves
`m_Eep` whenever `is_eep_write` is set and reboots whenever `is_reboot` is set,
whoever set them. Datagrams go from the socket task through a ring and a pipe to
one processing thread per port; that thread's handlers write the flags
`Auto_Config_Task` runs on. The UDA reset leaves its state in the reset-info
record of `eep_emul.c`, and the next boot takes it from there. A download begins in
the communication thread (or in `system_call_Task`, by ftp), is checked, unpacked and
copied by `system_call_Task`, sent by one task per module, and ends in a reset that
`Alarm_Process` asks for when the modules' flags agree.

What makes the modelled components correct:

* UDA: automatic resets must not go on for ever, suppression must set in when
  they are spent, must be reported, and must end; the reason stored must be the
  real one.
* Start-up: nothing is radiated or reported before the unit is registered; every
  restart registers it afresh; a unit whose LS answers
  registers; every acknowledgement and every relock has its effect (two do not: section 3).
* Records: a crash at any moment costs at most the save under way; every change
  is saved in the end.
* Download: only a whole package is unpacked; a session or an upgrade under way is
  one that something will end; the unit is reset, and a client is told that all is
  done, only when every module that took the package holds its image.
* Transfer to a module: what is acknowledged is stored, success means the whole
  image, and every transfer ends.
* Log: whenever the power fails, the log is whole afterwards, what was written stays
  and what was flushed does not come back.
* Standby: whatever overlaps, an amplifier ends up as the operator wants it, with its path
  open, is not switched on against the operator, and is off while the battery is saved.
* Datagrams: each one taken from the ring is one that was put in, once and in its
  turn; nothing waits for a wake-up that does not come; a frame acted upon is one a
  peer sent, and its answer goes to that peer.

## 2. Modules

| module | models | code |
|---|---|---|
| `UdaAutoReset` | alarm judgement, decision, suppression, reset, boot | `uda_proc.c:634-1660`, `main.c:642-808`, `alarm.c:764-772, 1910-1986` |
| `UdaAutoResetHistory` | the same with history variables; properties about the past | - |
| `UdaAutoResetProofs` | proofs about `UdaAutoReset` and its history | - |
| `AutoConfig` | start-up: the configuration task, the LS handlers, lock and address events | `auto_cofig_proc.c:292-438, 728-1232, 1439-1819`, `lsh_udp_comm.c:2442-3372` |
| `AutoConfigProofs` | proofs about `AutoConfig` | - |
| `EepEmul` | records in two files, saving, loading, repair, crashes | `eep_emul.c`, `alarm.c:36-47, 866-905` |
| `EepEmulProofs` | proofs about `EepEmul` | - |
| `UdpRx` | ring of datagrams, wake-up pipe, task of a port, byte queue, frame parser | `comm_lib.c:18-33, 722-824, 1476-1588, 1782-1851, 2068-2093`, `udp_comm.c:381-634`, `frame.c:36-324`, `lsh_udp_comm.c:115-149` |
| `DatagramQueue` | what the ring promises: a queue that forgets all when `N` datagrams wait | - |
| `UdpRxProofs` | proofs about `UdpRx`, among them that it implements `DatagramQueue` | - |
| `PkgFlow` | the way of a package through `system_call_Task`, clients and modules abstract | `down_load.c:742-763, 1340-1405, 1841-2022, 2793-2987, 3057-3223, 3748-4132`, `main.c:259-272` |
| `DnSession` | the download of a file by blocks and the timeout, on top of `PkgFlow` | `down_load.c:706-785, 1797-1839, 2025-2053, 2595-2987, 3115-3230`, `comm.c:313-355`, `main.c:252-274` |
| `PkgUpgrade` | copies for the modules, their downloads, confirmation and reset, on top of `PkgFlow` | `down_load.c:1340-1405, 2310-2574, 3701-3792, 4042-4104`, `PAU_comm.c:2416-2457, 2643-2671, 3148-3183, 3960-3969, 4138-4191` |
| `PackageProofs` | proofs about `PkgFlow`, `DnSession` and `PkgUpgrade` | - |
| `AmpSend` | an image sent frame by frame to a module | `PAU_comm.c:3659-4193`, `comm_lib.c:385-429` |
| `AmpSendProofs` | proofs about `AmpSend` | - |
| `LogStore` | the log of the alarms sent to gREMS and its recovery | `log_file.c:518-1398, 1573-1626, 2535-2542` |
| `LogStoreProofs` | proofs about `LogStore` | - |
| `Standby` | MIMO standby, AMP standby, battery saving, the operator and an amplifier's task, who share an amplifier | `algorithm_rf.c:567-645, 785-820, 999-1362, 1474-1596, 1650-2150, 2473-2807`, `PAU_comm.c:174-320, 904-967, 1069-1200, 2758-3005, 3074-3390`, `control.c:1096-1177, 3957-4020, 4162-4198`, `alarm.c:728-760, 1046-1062, 2624-2640` |
| `MCStandby` | the initial states of `Standby` that TLC starts from | - |
| `StandbyProofs` | proofs about `Standby` | - |

`PkgFlow` is what the download's threads share: the steps of `system_call_Task` and what
a client's command does to them. `DnSession` and `PkgUpgrade` extend it and are built from
its actions, each with more state, one on the side of the clients, the other on the side
of the modules; the steps that belong to the other side stay as abstract as `PkgFlow` has
them. That their steps are steps of `PkgFlow` is therefore no result about the code, only
what lets `FlowUnpacks` be used for them.
`AmpSend` refines the one step of `PkgUpgrade` in which a module's download succeeds
or fails.

Definitions keep the names of the functions and variables they stand for where
TLA+ allows it; `PROJECT.json` maps each one to its lines. Definitions marked
"mutation" are deliberately wrong variants of the definition that follows them:
replacing the definition by the variant must break a property, which shows that
the property says something about the code.

### UdaAutoReset

State: `uda` is `m_Uda`; `flash` is the reset-info record as `ResetInfo_Write`
stored it last; `req` is `auto_rst_req`; `Reset_En` is the stage of
`Proc___Reset_By_UDA` (0 none, 1 requested, 2 saved, 3 failed); `tm` holds the
five timers of each source. One pass of the main thread is
`Proc___Reset_By_UDA`, then `Judge` and `Decide` (the two halves of
`Proc___Auto_Rst_UDA`), and `pc` says which comes next. The operator's command
(`Use_UDA_Oper_Mode_Ctrl`), another reset request, the reboot by `WDT_Task` and a
crash may come between any two of them. `Boot` restores `m_Uda` from the record.

The PRU build is modelled: its reset goes through the PSU and, when that fails,
through a reboot. The AAU build reboots at once and reports a warm software reset
as the operator's (`main.c:725-765`). The Link source, which is never judged, the
Spurious source, which has a state machine of its own (`uda_proc.c:276-600`), JIG
mode and forced test alarms are left out. Timers are counted in a
coarse unit and saturate at the only value they are compared with.

### AutoConfig

State: the two ladders (`Ip_Assign_Step`, `Init_Noti_Step`), `AutoConfig_Step`,
`RU_Init_Status`, the flags of `AufoConfigFlag` and the three enables that depend
on the status. `pc` cuts a pass of `Auto_Config_Task` at every place where a flag
shared with the datagram thread is read or written; `rx` does the same for a
handler. The threads interleave at those places, in every run and proof: a handler may
begin, go on or end anywhere in a pass. Acknowledgements in the network are the set
`net`; they may be lost, repeated or late. The LS may send its requests at any time.

Two history variables: `met` are the messages acted upon since the boot, and `torn` says
that a handler was in the middle of its writes at some moment while the flags were last
cleared. The writes of the two then mix, and what is left may be of either registration;
`InitStatusFresh` and `RadiationRegistered` are claimed without that case, and hold for
every other interleaving. `Registers` is claimed without two states from which the unit
does not go on: `Overwritten` (the acknowledgement of the ID was taken and the step
written over, run `AcFollowed`) and `Skipped` (a clearing torn by a handler has left the
notification over and not acknowledged). Both are described in section 3.

Not modelled: the mismatch alarm, the LS Valid indicator, the mark of a reset
(`RU_Init_St_Reset`), the other commands of the LS, the values of addresses and delays
(a delay request is valid or not).

### EepEmul

`kind` is the record looked at: `m_Eep` ("data"), the reset-info record ("rst") or
the AAU's calibration tables ("table"). A copy holds a record or is `Torn`, which
its CRC shows. `V_EEP_Write` is cut where a file is truncated and where it is
complete, for A and then B. `interrupted` counts the copies whose replacement was
cut short or failed since both were last replaced; `saved` the records a restart
may find. The CRC is taken to be right whenever it matches, and a record changed
by another thread while it is copied to be one of the records it went through:
the writer asks for another save afterwards.

### UdpRx and DatagramQueue

State: `slot`, `front` and `rear` are `udp_rx_que` of one port; `pipe` counts the
bytes in its pipe; `que`, `pos` and `open` are its `comm_que`: what is not parsed
yet, the index `front` and the parser's stage; `got` is the datagram
`RecvCommDataQue` took last, whose sender is `recv_addr`. `pc` says where
`UDP_Sel_Proc_Task` is: in `select`, taking datagrams, parsing, or waiting for the
rest of a frame. `Arrive` is the other task, `UDP_Sel_Task`, which may put a
datagram in at any moment. The ring is cut at its mutex.

`port` is "node" (the clients: CRC, the rest of the byte queue is kept) or "ls" (no
CRC, the queue is emptied after every call). A frame is two units, which come in one
datagram or in two, so that a frame may be cut, wait for its rest, be mixed with
another's or be split by the end of the byte queue; its bytes, the header's own
checksum, the error answer to a bad CRC, two frames in one datagram and the UART and
TCP ports are left out. `Intact` is claimed for "node" only: the LS's frames have no
CRC, and the halves of two of its messages do make one.

`DatagramQueue` knows no indexes: `Put` appends, and empties the queue when it would
hold `N`, which is what an index that overruns the other amounts to. `UdpRx` refines
it with the slots from `rear` to `front` as the queue.

### PkgFlow

State: `hdr`, `kind` and `mode` describe the package; `zip` and `dir` are the file and
the directory it is in, by the package they hold, "bad" standing for what is none;
`dl` is the state shown to the clients; `req` the three requests to
`system_call_Task`, `dflag` its `downloading_flag` and `pc` where it is. Each of its
operations that lasts (fetching, hashing, unpacking, copying, confirming) is a step,
and the handlers of the communication thread come between. The shell commands that
unpack and copy may fail; what of their failures the code sees is `Returned`.

### DnSession

State: the counters of the session (`total`, `cont`, `received`, `crc`, `recvSize`), the
header of the session before (`pre`), the temporary file, and the timer
`is_down_load` with WDT_Task's view of it. A handler is one step but for the timer,
which is set before it (`comm`): in between WDT_Task may end the session. Blocks come
in any order, repeated, of another file, and may fail to be saved. A first block that
cannot be saved leaves an empty session; a later one is not counted, but its place in
the file's size is taken (`recvSize`), so that when it comes again it may be counted and
not saved. A first block is refused when its header or its kind is not valid, which has
by then begun the session afresh; a fetch that fails after the file came has replaced
the header (`FetchFails`). `owed` and `unseen` are history variables for the two ways
a session may be left without anyone to end it, `hurt` for the two in which the file and
what is counted of it part: a block of the session that was not written, and
`system_call_Task`, which fetches into, cuts and moves away the same file.

Left out: images addressed to one amplifier or to a test slot, the sizes and offsets
within a block, the answers' layout.

### PkgUpgrade

State: `disk` are the images copied for the two classes of modules, amplifiers
("PAU") and the power supply ("PSU"); `upg`, `st` and `sending` are the request, the
stage and the image of each module's download; `flag`, `status` and `conf` the bits of
`amp_DN_flag`, `amp_DN_status`, `amp_DN_confirm` and of the power supply's; `cmd` the
request to apply (1) or to cancel (2) that a module has not answered. The amplifiers
have a task each. `link` is external: a module answers, does not, or is taken out.
The history variables `cur`, `went` and `mixed` say which package is being installed,
whether that was asked for, and whether anything else came in between: the state is
shared by everything that is downloaded, and the properties speak of a package that
is alone at work. The model ends when the reset is asked for.

### AmpSend

State: `st`, `result`, `frame` and `retry` are those of `m_AutoDn`; `sent` is the type
of the request that waits for its answer. The line and the amplifier are external,
modelled by what the code expects of them: requests and answers get lost, answers come
late but in order, the amplifier refuses, restarts and forgets. A request first throws
away what has come (`Flushed`), and an answer is compared by its type and number,
not by its image. `blind` is a history variable: the pass that starts a transfer
(`PAU_comm.c:3975-4099`) reads an answer type that no case of it has set, so an answer
may be taken for a frame's; `SuccessWhole` is claimed without it. The power supply's
`Proc_Psu_AutoDownload` is the same state machine.

### LogStore

State: the four files, the temporary one, the index in memory (`mem`), and the step
each of the two threads is at: the holder of the mutex, which writes or flushes, and
`LOG_Task`, which checks the log 15 s after the start and does not take the mutex.
Every shell command is synced before the next (`system_agent_sync`) and is a step;
writing to the open file takes two, records and index. The power may fail at any step
and leaves the file being written as it was, as it will be, or torn. A checksum is
the content it was computed from. `harm` is a history variable for the four ways in
which the log does come to harm, described in section 3; the invariants are claimed
without them.

Left out: the log of the controls, which is the same code without the mutex; the event
log and the log of resets; a record's layout.

### Standby

State: `on` is what the amplifier does, `seen` and `disabled` what its task has heard of
it (it is taken for on at the second report; an AC alarm keeps `Disabled` from being
raised). `st`, `dly`, `req` and `bk` are, for each of the two algorithms, the amplifiers
in standby, those within the delay after it, those the algorithm has switched and still
follows, and the state saved for its end. `rsn` is `StdBy_Off_rsn`, which shuts the
path in the DTU. `chosen` is the mode in `m_Eep`, `enabled` the one in force; battery
saving sets the second aside. `acAmp` and `acAtt` are what battery saving has switched
off or attenuated and not yet undone. `user` is the operator's choice.

A call of an algorithm (`MimoPass`, `AmpPass`, `AcPass`) is one step, with one disjunct
per early return, and so is each stage of the amplifier's loop (`Poll`, `AcProc`,
`MimoProc`, `AmpProc`, `UserProc`); the operator's commands come between any two of them.
A timer that is running may have run out in any call (`over`, `due`). A command to an
amplifier may be lost on its way, or its answer on the way back (`Send`).

Left out: amplifier 1 as a target (it is known by what the others read of it, `lead`),
the shutdown functions, DPD, the minute after the start, a call that only takes note of
new times, and the AAU, whose battery saving is not built. The operator's command,
which switches the amplifier and then records the choice, is one step.

## 3. What the runs check

| run | module, configuration | shows | distinct states |
|---|---|---|---|
| `UdaLive` | `UdaAutoResetHistory`, one source with timers of different lengths, `SUPPRESS_MAX` 2 | `SpentIsSuppressed`, `SuppressionReported`, `ResetsBounded`, `ReleaseNotDuringAlarm`, `SuppressionConverges`, `AlarmFreeClears` | 181,000 |
| `AcRaces` | `AutoConfig`, 1 event | `BootOrder`, `InitStatusFresh`, `RadiationRegistered`, `Registers` | 251,000 |
| `Eep` | `EepEmul`, all three records, 3 crashes, 1 failed write | `Recoverable`, `ChangeSaved`, `CopiesRepaired` | 497,000 |
| `UdpRx` | `UdpRx`, 3 slots, 3 bytes of pipe, 4 units of byte queue, 3 frames of 2 clients | `RingIsQueue`, `Woken`, `Taken`, `InOrder`, `Intact`, `LsAnswered` | 107,000 |
| `DnSession` | `DnSession`, two packages, an image, 2 blocks, 4 commands | `UnpackedIntact`, `NowWatched`, `AgreedWhole` | 2,351,000 |
| `PkgUpgrade` | `PkgUpgrade`, two packages, an amplifier, a power supply, 1 event | `ResetAfterAll`, `CompleteSent`, `InsideEnds`, `UpgradeEnds` | 128,000 |
| `AmpSend` | `AmpSend`, 3 frames, 4 answers under way | `AckedStored`, `SuccessWhole`, `FewFaults`, `TransferEnds` | 331,000 |
| `LogStore` | `LogStore`, 5 records, 3 crashes or flushes | `TypeOK`, `Whole`, `Kept`, `Flushed` | 477,000 |
| `Standby` | `MCStandby`, one amplifier besides the lead, 2 events or lost answers | `PathOwned`, `UserOff`, `Restored`, `Resumed`, `Saved` | 186,000 |
| `AcFollowed` | `AutoConfig`, no event | an acknowledged ID the task does not follow (`IdFollowed`) | violated |
| `AcRelock` | `AutoConfig`, 1 event | a relock after which the unit does not register again (`RelockRestarts`) | violated |
| `LogReader` | `LogStore`, 2 crashes or flushes | a reader without the mutex spoils the log (`ReadHarmless`) | violated |

### Bounds

* UDA. One source: its timers have different lengths and it boots, which is what the
  properties are about; two sources, of which one may hide the other, are what the
  proofs cover for any set of them. The order of the limits follows the code's (30 min windows, 35 min release, 120 min count) where a run
  depends on it: in `UdaLive` a release takes longer than a kept alarm, and the
  counting window is long enough for the resets it must count. `SUPPRESS_MAX` is 2
  or 3 instead of the code's, so that suppression is reached. `MaxEnv` is one
  command, foreign reset or crash; the proofs have no such bound.
* Start-up. `MaxEnv` counts losses of the lock and changes of the base address; the lock
  always comes back. One is a restart at any point of the start-up or after it, which is
  where the hazards are, and the three invariants of `AcRaces` are proved without the
  bound. `AcFollowed` needs no event: the race is in the first registration.
* Records. Three crashes and one failed write are one more than `Recoverable`
  tolerates; three values distinguish the record in RAM, the copies and the user's.
  `CHECK_DEADLOCK FALSE`: with no change left to make the unit idles.
* Reception. Three frames in halves are six datagrams: enough to turn the ring of
  three slots twice and to overrun it, to fill the pipe, and to reach the end of the
  byte queue, exactly and not, with units left in it. The code has 8 slots and a pipe
  of 64 KB; the proofs ask for a pipe no shorter than the ring.
  `CHECK_DEADLOCK FALSE`: with nothing more to come the port idles.
* Session. Two packages and an image, so that a resume may meet another file's blocks;
  two blocks, so that one may be lost, doubled or unsaved; four commands reach the
  end of a session (two blocks, its end, one more) or two that disturb each other. The
  proofs have no such bound. `CHECK_DEADLOCK FALSE`: the commands may be used up.
* Upgrade. `MaxEvents` counts the clients' commands after the package and the changes
  of links; one is a module unplugged, put in or silent in the middle of a download,
  or a command that disturbs it. With one amplifier and one package the invariants were
  also checked with three events (33,800,000 states), with two amplifiers and one event
  in 511,000; the proofs bound neither.
  `CHECK_DEADLOCK FALSE`: the unit is reset, or idles.
* Transfer. Three frames are a first, a middle and a last one; four answers on the line
  are more than the retries of one request leave there; faults are counted to
  `Retry_Max`, which is the code's 5. Deadlock is checked.
* Log. `Keep`, `MovMax` and `MaxRange` are 2, 3 and 4 for 100, 200 and 256; five records
  reach the move twice; three crashes hit a recovery and a recovery's recovery. The
  index has room for more than is moved, as in the code, and comes to be full when the
  move fails. `CHECK_DEADLOCK FALSE`: the records and events may be used up.

* Standby. One amplifier besides the lead: the amplifiers meet only in the lead, in the
  sets the algorithms run over and in `acExt`, all of them external or the same for
  each. `MaxEvents` counts what operator, clock, mains and lead do, and the lost answers;
  two are an overlap (a mode that ends during an AC failure, a command during standby)
  or an answer lost at a change. `MCInit` starts where the modes can be entered at once,
  so that no event is spent on getting there. Deadlock is checked.

### Fairness

* UDA: the main thread and `WDT_Task` loop for ever (`WF` of `Pass` and `Reboot`), a
  unit that is down boots, and time passes (`SF` of `Tick`, which a pass disables
  for a moment). Nothing is assumed of alarms, operator or crashes.
* Start-up: both threads loop for ever and an address that stays readable is found valid
  and stable (`WF` of `Auto_Config_Task`, `Handle`, `RegReady`, `BaseStable`). The rest
  is said of the unit whose line is up: 2 s pass and an address that is stable is
  derived in the end (`TimersExpire`); a notification sent again and again is answered
  at last, the second one at a moment at which the task sleeps, as it does 500 ms between
  two passes, and not always in the microseconds in which it writes the step the handler
  has set (`Answered`; the acknowledgement of the ID has no second try, so nothing of the
  kind would help it, and nothing is assumed); a unit that answers is asked for its
  status and its delay again and again (`Requested`). Nothing is assumed of the lock.
* Records: `WDT_Task` polls every 100 ms, a thread that changed `m_Eep` goes on to
  set the flag, and the unit boots.
* Reception: the port's task loops for ever; `SF` of `TimeOut`, because the tries for
  the rest of a frame are counted (300 of 1 ms, 100 of 10 ms) and each one passes
  through other steps. Nothing is assumed of the peers.
* Upgrade: `system_call_Task` and each module's task loop for ever (`WF`). `SF` of the
  start of the fetch and of the confirmation, which wait for a countdown of at most
  255 s. Nothing is assumed of clients and links. The invariants' runs, and those of
  the session and the log, assume no fairness.
* Transfer: `WF` of a pass of the module's task, which includes the timeout of an
  answer. Nothing is assumed of the line or the amplifier.

* Standby: the alarm task and each amplifier's task loop for ever (`WF` of each
  algorithm's call and of the loop), and a timer that is left running runs out (`WF` of
  the calls in which it has). Nothing is assumed of operator, clock, mains, lead or line.

### Where the code does not do what it says

Three runs end in a violation; `PROJECT.json` "findings" quotes the line each one
disagrees with.

* `AcFollowed`. `Ip_Assign_Process` sends the notification, sets the status and then writes
  the step to CHECK (`auto_cofig_proc.c:1172-1176`). If the LS's answer is handled in
  between, the handler has allocated the ID and set the step to PROCESSING
  (`lsh_udp_comm.c:3036-3042`), and the task's write covers it. From then on every
  acknowledgement is dismissed because an ID is allocated (3018-3026): the unit notifies
  for ever and does not register until the lock is lost and regained or an address
  changes. `Registers` is claimed without that state (`Overwritten`). The twin of it, the
  INIT_NOTI_ACK, is repaired by the next one, which is not dismissed.
* `AcRelock`. A pass compares the lock with the one before (`auto_cofig_proc.c:1778`) and
  reads it again to record it (1795). A lock that comes back in between is recorded and
  never compared: a registered unit goes on without restarting.
* `LogReader`. A reader takes no mutex. If it comes between the removal of the log and
  the move of the new one (`log_file.c:1358-1361`), it finds none, creates an empty log and
  clears the index in memory (1616-1626) before it reads it again; the writer goes on with
  the cleared index, and the log it moves in no longer agrees with it.

Other disagreements met while modelling have no run of their own. Each is seen in the
model, which does what the code does, and the properties are stated around it.

Download:

* `unzip_Zip_FILE` (`down_load.c:1898-1926`) keeps the result of `system()` in an
  `INT8U`: a wait status is 256 times the exit code, so a failure comes out as 0
  (`Returned`). A package that could not be unpacked is shown as Complete.
* A package acknowledged while `system_call_Task` is at another request may be lost, and
  the session stays at Now (`owed` in `NowWatched`). So does a session that WDT_Task ends
  between the timer and the handler of its next block (`unseen`).
* A block that cannot be written takes its room and is counted when it is resent, though it
  may then not be saved (`hurt` in `AgreedWhole`); only the hash of the package tells. A session
  resumed after a break may go on with another package's blocks, with the same result.
* If a module fails, is unplugged or never answered, its class keeps the state at Inside
  and the upgrade from being done, and with it the next fetch (`AnyLost` in
  `InsideEnds` and `UpgradeEnds`).
* A client's cancel of an upgrade (`down_load.c:2942-2987`) clears `zip_DN_flag_post` (2980)
  and `zip_header` (2984), so that `check_zip_DN_flag` finds nothing to confirm and no
  reset follows. A module's answer to the cancel sets, however, the same bit as its answer
  to an upgrade (`PAU_comm.c:790-793`, `psu_comm.c:643-646`), and the flags stay: once the
  header of a next download is there, until its images are handed over, the flags and
  confirmations looked at are those of the cancelled package. `ResetAfterAll` does not
  speak of it: a cancelled package is not alone at work (`UCancels` sets `cur` to none).
* A request to apply that a module did not answer stays and kills its next download
  (`PAU_comm.c:2426-2432`); a header that is replaced while another package is being
  unpacked changes whose flags are looked at (`mixed`).
* `Proc_AMP_MultiDownload` reads `pau_type` without having set it in the pass that starts
  a transfer (`PAU_comm.c:3975-4099`): an answer of that pass may count as a frame's
  (`blind`).

Log:

* `Init__PktLog` takes no mutex: 15 s after the start it may recover the log in the
  middle of a write ("start" in `harm`).
* A move whose copy fails has replaced the index already, and its temporary file is not
  truncated; a full index removes the whole log ("move").
* The first write of a new log, and a flush, leave the log without a checksum for some
  steps; a power failure there leaves a log that is not checked ("bare").
* The writer of the controls' log takes no mutex, and both logs use one temporary file.

Standby:

* `algorithm_rf.c:774-780` says of the end of a standby that an amplifier the user has
  off is off. The state is saved when standby begins, and the operator's choice is asked
  again only where the amplifier is known to be off (`AMP_Alarm_St`,
  `PAU_comm.c:2872`). When an answer is lost, or while an AC alarm keeps `Disabled` from
  being raised, it is taken for on, and is switched on although the operator had it off;
  the amplifier's task switches it off in its next turn. `UserOff` is therefore claimed
  of an amplifier that is known to be off (`disabled`), wherever it is and whatever was
  lost. That the alarm is over, or that no answer was lost, is not enough: an alarm that
  has ended may leave an amplifier that is off and not reported yet, which the inductive
  step showed.
* Battery saving notes the amplifiers that are on and switches all of them on at its end,
  whatever the operator has chosen meanwhile (`acAmp` in `UserOff`); the loop's end
  puts it right, which `Restored` says.
* A change to one layer during MIMO standby leaves the request of the amplifier standing,
  because `MIMO_Std_AMP_Proc` returns early for one layer (`PAU_comm.c:2840`); until the
  layers are back the guards of `PAU_EN_Ctrl` refuse every command (`Stranded`).
* With one layer, `Proc_MIMO_Standby` indexes by `pair[]`, which that call has not set;
  the amplifiers named in it are any (`MimoOff`).

UDA, start-up, records, reception:

* `uda_proc.c:1487`: a Clock request that is suppressed keeps a PD_CPRI request of the
  same pass from being looked at, although 1211 gives every alarm its reset.
* `uda_proc.c:674` stores PD_CPRI as the reason whenever both alarm flags are set, also
  when the reset was decided for Clock (1469 puts Clock first).
* `uda_proc.c:1587` ends suppression 35 minutes after the last rejected request, in an
  alarm or not, where 1215 speaks of 30 minutes in the normal state; what does hold is
  `ReleaseNotDuringAlarm`: an alarm that lasts as long as it takes to make a request
  is not released.
* `auto_cofig_proc.c:728-763`: an acknowledgement whose handler is between its writes while
  the flags are cleared completes a registration that never took place, or leaves the
  notification over and not acknowledged (`torn`, `Skipped`).
* `eep_emul.c:293` reads copy A of the tables twice and copy B never (`Second`);
  `Recoverable` leaves the tables out. A save of the record RAM already holds is
  skipped, so that the reset-info record stays with one copy after a crash;
  `CopiesRepaired` speaks of `m_Eep` only.
* `comm_lib.c:1585`: a datagram that ends exactly where the byte queue does makes the
  task take the next one before it has parsed the first, whose answer then goes to the
  second's sender (`udp_comm.c:125`).

## 4. What is proved

Liveness and the runs' violations stay with TLC. For every value of the constants
allowed by the modules' assumptions:

* `UdaAutoResetProofs`: `TypeCorrect`, `SpentSuppressed`, `SuppressionAlarmed`.
  `SpentIsSuppressed` is not inductive. The invariant adds `SpentHandled` (a source
  may be out of resets and not suppressed only between a boot and its first decision,
  when no timer of it has run, so that it cannot ask for a reset), `RequestsHandled`
  (the same of the requests of the pass under way), `Flagged` (a suppressed source is
  flagged in RAM and in both records) and `AlarmsFollow` (the alarms reported follow
  the flags with a pass of delay). `BoundedResets` proves `ResetsBounded` of the history
  (`UdaAutoResetHistory`, whose steps are the program's): `HistInv` says that the count in
  `m_Uda`, from the grant of a reset on, is at most one behind the resets there were, and
  so is the count of a record that a boot would restore, which only the reset under way
  can have saved.
  `SuppressedThroughout` proves `ReleaseNotDuringAlarm` where ending a suppression takes at
  least as long as making a request (`TimesAssumption`: 35 and 30 minutes,
  `uda_proc.c:638-651`; equal times suffice). `OffInv` relates the two timers of a
  suppressed Clock: the one that ends it is not ahead of the one that makes a request,
  or the alarm is not there for longer than that one has run, or the pass that decides
  on the request is under way, which starts the first anew.
* `AutoConfigProofs`: `TypeCorrect`, `BootInOrder`, `RegisteredAfresh` and
  `RadiatesRegistered`, all with the threads interleaved at every access to what they share
  and for any number of changes of the line. The invariant of `BootInOrder` follows the
  order through the flags: what a handler has started (`ReceiverMet`), what a step
  (`StepsMet`) and what the status (`StatusMet`) imply about the messages met so far
  (`met`, a history variable that only grows, `MetInOrder`). For the other two `RegInv`
  says, unless the last clearing was torn, what is left of the flags in the middle of a
  clearing (`Cleared`), that the ladder is beyond its notification only with an ID and an
  address (`Assigned`), that an acknowledgement being handled belongs to the notification
  of this start-up (`Acknowledged`) and that the requests come after it (`Asked`).
* `EepEmulProofs`: `TypeCorrect` and `OneBadCopy`, the latter for the records whose
  loader reads both files. The invariant says which copy is whole when nothing was
  cut short (`Undisturbed`), when one was (`OneBad`), and what a save under way has
  done (`SaveUnderWay`).
* `UdpRxProofs`: `TypeCorrect`, `NeverAsleep`, `RingImplementsQueue`, `FramesIntact`,
  `LsAnswersSender` and `FramesInOrder`. The invariant
  is that of types, `Filled` (the slots from `rear` to `front` hold datagrams) and
  `Woken`, which is inductive: a byte too many is dropped only from a full pipe, and a
  full pipe holds more bytes than the ring has datagrams. For the refinement each
  step of the ring is one of the queue: `Add_UDP_Que` is `Put`, `RecvCommDataQue` is
  `Get`, the others leave slots, indexes and `got` alone.
  The other three come from one invariant (`FInv`), for rings and byte queues of any
  size. `Ordered` says that the frame handled last, the one begun, those in the byte queue
  and those in the ring are numbered upwards, whatever an overrun or a full ring threw
  away; `Owned` that all pieces of a frame wherever they are name one sender; `LsPlace`
  what the byte queue of the LS port holds at each place of its task, above all that
  what is parsed is of the datagram taken last, so that the answer goes to its sender.
* `PackageProofs`, of `PkgFlow`: `FlowTypeCorrect` and `FlowUnpacks`. What is being unpacked is a whole
  package, or was dropped on the way: the unpacking is entered only with the hashes
  equal, and whatever replaces the file after that puts no damaged one in its place. It is
  proved once, and a session, which is built from these steps, inherits it.
* `PackageProofs`, of `DnSession`: `AgreedIsWhole`, whose invariant `Written` says that while
  the session is unhurt the file is what the CRC was computed from, block by block, and its
  size the number counted: each of the counters is reset, raised and cleared by other
  handlers than the file (a cancel that emptied the file alone would break it);
  `OnlyWholeUnpacked`, from `FlowUnpacks`; `TypeCorrect`, whose conjunct on the
  CRC's length relates two counters that different handlers write; and `Watched`. For
  the last the invariant says who ends a session in each of the places of the task and
  the handlers (`WatchInv`).
* `PackageProofs`, of `PkgUpgrade`: `UTypeCorrect`, `ResetOnlyAfterAll` and `CompleteOnlySent`, for any
  number of amplifiers and packages. Neither of the last two is inductive. `InstallInv`
  follows a package that is alone at work: before its images are handed over nothing of
  an earlier one is pending (`BeforeInv`); from then on it is the one in the header
  (`HeaderInv`); what is read, sent and held by a module is of it (`ModuleInv`); the
  modules are told only when as many have the image as took it, a class is posted only
  when as many have answered, and Complete is shown only then (`ClassInv`).
* `AmpSendProofs`: `TypeCorrect`, `SentIsStored`, `SuccessIsWhole` and `FailureIsFaults`,
  for any number of frames. No answer names its image and a late one may be taken for a later request's;
  the invariant says where the transfer is (`Control`), that the answers on the line are
  in the order of the requests, none ahead of what was asked (`Order`), and that an
  answer on the line that accepts a frame or the end was earned by the amplifier's state
  (`Amplifier`). For the faults `FaultsInv` counts: the tries behind and the answers on the
  line that do not fit the request under way are together at most the faults so far, each
  of them left there by a request that timed out or earned by a refusal.

* `LogStoreProofs`: `TypeCorrect`, `LogWhole`, `RecordsKept` and `FlushedGone`, for any
  number of records and of power failures and any sizes of the index; none of the three
  but the types is inductive. `Clean` says, while no harm was done (section 3), that one
  of the two programs at most is at work (`Alone`), what the checksum's file and the old
  copy may hold (`Sound`), that the files recover what was written (`Recovers`: a log
  whose checksum is missing or equal is good, and otherwise the old copy is) or that the
  first record, or a flush, has left the log without a checksum (`Bare`), and what each
  program has done at its place (`At`). `Live` keeps a flushed record out of each file that may come back. `Fitting` says
  that once the log has been read its index is the one in memory and no recovery goes
  back, so that a record is written where the index says. `Bounded` keeps the index
  within its table, also in the races, where a copy of any age may return.
* `StandbyProofs`: `TypeCorrect`, `PathsOwned` and `OperatorObeyed`, for any number of
  amplifiers, events and lost answers, and for any values of the modes and windows, not
  only those `MCStandby` starts from. `PathOwned` is inductive together with the types:
  whoever shuts a path takes its request or the saving's note in the same step, and the
  step that gives these up opens it or leaves it to the other algorithm (the passes of
  AMP standby that switch nothing are collected in `AmpQuiet`, and are shown together). `UserOff` follows step by step: the amplifier's task asks `user` itself, and
  an end of standby restores a state only where `disabled` is not raised.

Only model-checked: the liveness properties (`SuppressionConverges`, `AlarmFreeClears`,
`Registers`, `ChangeSaved`, `CopiesRepaired`, `Taken`, `InsideEnds`, `UpgradeEnds`,
`TransferEnds`, `Restored`, `Resumed`, `Saved`), which need fairness and `ENABLED`. Every invariant and every action property of the passing runs is
a theorem.

## 5. Plan

Done: UDA auto-reset, start-up, records, reception, download,
upgrade, transfer to a module, the gREMS log, standby and battery saving.

Open, in this order:

1. Abstract specifications of the status ladder (`AutoConfig`) and of a record's store
   (`EepEmul`).
2. The other side of the states shared with what is modelled: the shutdown functions and
   DPD, which own the amplifiers together with standby; the Spurious source's payload
   switch-off.
3. The gREMS report queue; the sending side of the sockets; the PAU and PSU variants of
   the parser; `End_task` and the supervision of the tasks.

## 6. Not modelled

`PROJECT.json` "components" gives the reason for each part. Most of the source is not
control: the register map and its conversions (`FPGA_Reg.c`, 17,000 lines), the tables of
the protocol's objects and their getters and setters (`protocol.c`, `comm.c`,
`control.c`, `rems.c`), patterns and version data in headers
(`ver_info_ants_pru.h`, `aau_pattern_*.h`), the console and the measurement of spectra.
They copy, convert and print, one object after the other, and a model would repeat
them. What is left to model with profit is listed in section 5; the share of the lines
the map covers stays small for that reason.
