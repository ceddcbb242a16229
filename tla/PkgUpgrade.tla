------------------------------ MODULE PkgUpgrade ------------------------------
(***************************************************************************)
(* What becomes of a package after it is unpacked: system_call_Task copies *)
(* the images for the amplifiers (PAU) and the power supply (PSU) to where *)
(* their tasks find them and asks for the downloads; PAU_Comm_Task (one    *)
(* per amplifier) and the PSU's task send them; when an upgrade is asked   *)
(* for, by the package's mode or by a client, and every download is over,  *)
(* the modules are told to apply their images, the other archives are      *)
(* copied, and when all have answered the unit is reset.                   *)
(*                                                                         *)
(* The way of the package is module PkgFlow, whose actions are taken       *)
(* together with what they mean for the modules.  How an image is sent,    *)
(* frame by frame, is module AmpSend.  A download lasts minutes and the    *)
(* loop of a task seconds, so that every module that answers has begun     *)
(* before the first has ended.  The model ends when the reset is asked for.*)
(***************************************************************************)
EXTENDS PkgFlow

CONSTANTS
    Amps, Psu,      \* the modules; Psu has at most one
    HasPsu, HasPau, HasApp,     \* the packages with an image for a class
    MaxEvents       \* bound on the commands of the clients and the changes of
                    \* the modules' links, together

ASSUME UpAssumption ==
    /\ Amps \cap Psu = {} /\ MaxEvents \in Nat
    /\ HasPsu \subseteq Pkgs /\ HasPau \subseteq Pkgs /\ HasApp \subseteq Pkgs

Mods == Amps \cup Psu
Classes == {"PSU", "PAU"}
ModsOf(c) == IF c = "PAU" THEN Amps ELSE Psu
ClassOf(m) == IF m \in Amps THEN "PAU" ELSE "PSU"

VARIABLES
    events,                 \* commands and changes of links so far
    at,                     \* the class check_zip_files_PSU_PAU has come to
    disk,                   \* PSU_PATH, PAU_PATH
    upg,                    \* info_PSU.upgrade, info_AMP[].upgrade
    st,                     \* m_AutoDn[].st (and .req)
    sending,                \* the image read at the start
    flag, status, conf,     \* psu_DN_flag, amp_DN_flag, ..status, ..confirm
    cmd,                    \* PSU_confirm_DL, PAU_confirm_DL[]
    post,                   \* zip_DN_flag_post
    asked,                  \* psu_reset_req
    link,                   \* external: a module answers, does not, or is out
    held, ready,            \* external: its new image; its state is Complete or Fail
    cur,                    \* history: the package being installed,
    went, mixed             \* approved, or not the only one at work

files == <<at, disk>>
send == <<upg, st, sending>>
flags == <<flag, status, conf, cmd>>
ext == <<link, held, ready>>
hist == <<cur, went, mixed>>
own == <<files, send, flags, post, asked, ext, hist>>
uvars == <<flow, events, own>>

\* zip_header.binary_flag; "APP" stands for the archives copied in the unit.
BinaryFlag(p) == {c \in {"PSU", "PAU", "APP"} :
    p \in (CASE c = "PSU" -> HasPsu [] c = "PAU" -> HasPau [] c = "APP" -> HasApp)}
Bits == IF hdr \in Pkgs THEN BinaryFlag(hdr) ELSE {}
In(s, c) == s \cap ModsOf(c)

Working == {m \in Mods : m \in upg \/ st[m] # "none" \/ cmd[m] # 0}

Event == events < MaxEvents /\ events' = events + 1

\* The unit goes on running: the model ends with the reset.
Runs == ~asked /\ UNCHANGED asked

-----------------------------------------------------------------------------
(* system_call_Task: check_zip_files_PSU_PAU                               *)

\* Another package's header or a single image, while a package is under way.
UnderWay == cur # None \/ pc \in {"check", "hash", "unzip", "spread"}
Others(p) == mixed' = (mixed \/ (p # hdr /\ UnderWay))

Got(p) ==
    /\ Runs /\ FtpGot(p) /\ Others(p)
    /\ UNCHANGED <<events, files, send, flags, post, ext, cur, went>>

Spoilt(p) ==
    /\ Runs /\ FtpSpoilt(p) /\ Others(p)
    /\ UNCHANGED <<events, files, send, flags, post, ext, cur, went>>

UBegun ==
    /\ Runs /\ ZipBegin
    /\ cur' = None /\ went' = FALSE /\ mixed' = (Working # {})
    /\ UNCHANGED <<events, files, send, flags, post, ext>>

\* The image for a class, which a failed unzip may have cut.
ImageOf(c) == {p \in Contents \ {None} : dir = p /\ (p \in Pkgs => c \in BinaryFlag(p))}

NextClass ==
    /\ Runs /\ pc = "spread"
    /\ \/ at = "PSU" /\ kind = "zip" /\ at' = "PAU" /\ post' = {}
       \/ at = "PAU" /\ at' = "end" /\ UNCHANGED post

\* What came last is a single image.
NoPackage ==
    /\ Runs /\ pc = "spread"
    /\ at = "PSU" /\ kind # "zip" /\ at' = "end"
    /\ UNCHANGED <<flow, events, disk, send, flags, post, ext, hist>>

Spread ==
    /\ NextClass
    /\ at \in Bits
    /\ \E p \in ImageOf(at) :
        /\ disk' = [disk EXCEPT ![at] = p]
        /\ cur' = p
        /\ mixed' = (mixed \/ p # hdr)
    /\ flag' = flag \ ModsOf(at)
    /\ status' = status \ ModsOf(at)
    /\ conf' = conf \ ModsOf(at)
    /\ upg' = upg \cup ModsOf(at)
    /\ Inside
    /\ UNCHANGED <<events, st, sending, cmd, ext, went>>

\* There is none, or the copy fails: nobody is told.
NoSpread ==
    /\ NextClass
    /\ mixed' = (mixed \/ at \in Bits)
    /\ UNCHANGED <<flow, events, disk, send, flags, ext, cur, went>>

SpreadDone ==
    /\ Runs /\ at = "end" /\ at' = "PSU"
    /\ SpreadEnd
    /\ went' = (went \/ mode = "auto")
    /\ UNCHANGED <<events, disk, send, flags, post, ext, cur, mixed>>

-----------------------------------------------------------------------------
(* system_call_Task: the upgrade                                           *)

Busy(c) == c \in Bits /\ (In(flag, c) = {} \/ In(flag, c) # In(status, c))
AnyBusy == \E c \in Classes : Busy(c)

Waits ==
    /\ ~asked
    /\ \/ AnyBusy /\ ConfBusy
       \/ ~AnyBusy /\ ConfLater
    /\ UNCHANGED <<events, own>>

\* confirm_zip_files: the modules first, then the archives.
Tells ==
    /\ kind = "zip"
    /\ cmd' = [m \in Mods |-> IF ClassOf(m) \in Bits THEN 1 ELSE cmd[m]]
    /\ post' = {}

Confirms ==
    /\ Runs /\ ~AnyBusy
    /\ \/ "APP" \in Bits /\ ConfTakeOut /\ Tells
       \/ "APP" \notin Bits /\ pc = "conf" /\ ConfEnd(TRUE) /\ Tells
       \/ kind # "zip" /\ pc = "conf" /\ ConfEnd(TRUE) /\ UNCHANGED <<cmd, post>>
    /\ UNCHANGED <<events, files, send, flag, status, conf, ext, hist>>

\* CheckDN_File and CopyImage, whose file a client may overwrite meanwhile.
Installs(good) ==
    /\ Runs /\ pc = "install"
    /\ ConfEnd(good)
    /\ post' = IF good THEN post \cup {"APP"} ELSE post
    /\ UNCHANGED <<events, files, send, flags, ext, hist>>

\* check_PSU_PAU_DN
AnySent ==          \* mutation: one class is enough
    \E c \in Bits \cap Classes : In(flag, c) # {} /\ In(flag, c) = In(status, c)

SentByConf ==       \* mutation: the flags of the wrong step are compared
    /\ Bits \cap Classes # {}
    /\ \A c \in Bits \cap Classes : In(flag, c) # {} /\ In(flag, c) = In(conf, c)

AllSent ==
    /\ Bits \cap Classes # {}
    /\ \A c \in Bits \cap Classes : In(flag, c) # {} /\ In(flag, c) = In(status, c)

Settles ==
    /\ ~asked /\ Settle(AllSent)
    /\ UNCHANGED <<events, own>>

UCleared ==
    /\ Runs /\ FailClear
    /\ cur' = None
    /\ UNCHANGED <<events, files, send, flags, post, ext, went, mixed>>

\* check_zip_DN_flag
Confirmed == {c \in Bits \cap Classes : In(status, c) # {} /\ In(flag, c) = In(conf, c)}

PostsFirst ==          \* mutation: the first class to be done is enough
    /\ ~asked
    /\ post' = post \cup Confirmed
    /\ asked' = (post' # {})
    /\ Post(asked')
    /\ UNCHANGED <<events, files, send, flags, ext, hist>>

Posts ==
    /\ ~asked
    /\ post' = post \cup Confirmed
    /\ asked' = (post' # {} /\ post' = Bits)
    /\ Post(asked')
    /\ UNCHANGED <<events, files, send, flags, ext, hist>>

-----------------------------------------------------------------------------
(* The task of a module                                                    *)

\* Proc_PAU_PkgDn, Proc_PSU_PkgDown.  One that begins when another of its
\* class has ended was put in late.
Begins(m) ==
    /\ Runs /\ m \in upg /\ link[m] # "out"
    /\ upg' = upg \ {m}
    /\ \/ /\ link[m] = "up"
          /\ flag' = flag \cup {m}
          /\ st' = [st EXCEPT ![m] = "send"]
          /\ sending' = [sending EXCEPT ![m] = disk[ClassOf(m)]]
          /\ ready' = ready \ {m}
          /\ mixed' = (mixed \/ In(status, ClassOf(m)) # {})
       \/ link[m] = "down" /\ UNCHANGED <<flag, st, sending, ready, mixed>>
    /\ UNCHANGED <<flow, events, files, status, conf, cmd, post, link, held, cur, went>>

\* Proc_AMP_MultiDownload to the answer to the last frame, which for an
\* amplifier counts at once (Rx_PAU_AutoDown).
Sent(m) ==
    /\ Runs /\ st[m] = "send" /\ link[m] = "up"
    /\ \A n \in upg : link[n] = "out"
    /\ st' = [st EXCEPT ![m] = "success"]
    /\ status' = IF m \in Amps THEN status \cup {m} ELSE status
    /\ held' = [held EXCEPT ![m] = sending[m]]
    /\ ready' = ready \cup {m}
    /\ UNCHANGED <<flow, events, files, upg, sending, flag, conf, cmd, post, link, hist>>

Succeeds(m) ==
    /\ Runs /\ st[m] = "success" /\ m \notin upg /\ link[m] # "out"
    /\ st' = [st EXCEPT ![m] = "none"]
    /\ status' = status \cup {m}
    /\ UNCHANGED <<flow, events, files, upg, sending, flag, conf, cmd, post, ext, hist>>

\* Five frames without a good answer; the module itself may report a failure.
SendFails(m) ==
    /\ Runs /\ st[m] = "send" /\ m \notin upg /\ link[m] # "out"
    /\ st' = [st EXCEPT ![m] = "none"]
    /\ ready' = ready \cup {m}
    /\ ModuleFails
    /\ UNCHANGED <<events, files, upg, sending, flags, post, link, held, hist>>

\* An amplifier that is taken out is no longer sent to.
PulledOut(m) ==
    /\ Runs /\ link[m] = "out" /\ st[m] # "none"
    /\ st' = [st EXCEPT ![m] = "none"]
    /\ UNCHANGED <<flow, events, files, upg, sending, flags, post, ext, hist>>

\* chk_amp_FW_confirm, PSU_FW_apply_reqest: the image is applied (1) or given
\* up (2).  The answer counts as a confirmation in both cases.
Told(m) == cmd[m] # 0 /\ (m \in Amps => m \in flag)

Answers(m) ==
    /\ Runs /\ Told(m) /\ link[m] = "up" /\ m \in ready
    /\ conf' = conf \cup {m}
    /\ cmd' = [cmd EXCEPT ![m] = 0]
    /\ ready' = ready \ {m}
    /\ held' = IF cmd[m] = 2 THEN [held EXCEPT ![m] = None] ELSE held
    /\ UNCHANGED <<flow, events, files, send, flag, status, post, link, hist>>

DoesNot(m) ==
    /\ Runs /\ Told(m)
    /\ cmd' = [cmd EXCEPT ![m] = 0]
    /\ st' = [st EXCEPT ![m] = "none"]
    /\ ModuleFails
    /\ UNCHANGED <<events, files, upg, sending, flag, status, conf, post, ext, hist>>

\* Its task looks at a module's link only while there is work for the module.
Link(m) ==
    /\ Runs /\ Event
    /\ m \in Working
    /\ \E s \in {"up", "down", "out"} \ {link[m]} :
        /\ s = "out" => m \in Amps
        /\ link' = [link EXCEPT ![m] = s]
    /\ UNCHANGED <<flow, files, send, flags, post, held, ready, hist>>

-----------------------------------------------------------------------------
(* The clients                                                             *)

Takes(p) ==
    /\ Runs /\ Event /\ Header(p) /\ Others(p)
    /\ UNCHANGED <<files, send, flags, post, ext, cur, went>>

UGoes ==
    /\ Runs /\ Event /\ Go
    /\ went' = TRUE
    /\ UNCHANGED <<files, send, flags, post, ext, cur, mixed>>

UCancels ==
    /\ Runs /\ Event /\ Cancel
    /\ cmd' = [m \in Mods |-> 2]
    /\ post' = {}
    /\ cur' = None
    /\ UNCHANGED <<files, send, flag, status, conf, ext, went, mixed>>

\* ftp_get_pkg clears zip_DN_flag_post even when it refuses.
Asks ==
    /\ Runs /\ Event
    /\ post' = {}
    /\ FtpRequest \/ (~FtpAllowed /\ UNCHANGED flow)
    /\ UNCHANGED <<files, send, flags, ext, hist>>

\* The rest concerns the session alone (module DnSession).
Session ==
    /\ ~asked /\ Event
    /\ \/ \E m \in Modes : Starts(m)
       \/ Block \/ NoBlock
       \/ Accepted \/ Refused \/ \E a \in BOOLEAN : ImageAccepted(a)
    /\ UNCHANGED own

TakesImage ==
    /\ Runs /\ Event /\ (Image \/ WrongImage)
    /\ mixed' = (mixed \/ UnderWay)
    /\ UNCHANGED <<files, send, flags, post, ext, cur, went>>

-----------------------------------------------------------------------------
\* A unit that has just started, or one that has just accepted a package
\* (Starts, Header and Accepted).
JustAccepted ==
    /\ hdr \in Pkgs /\ kind = "zip" /\ mode \in Modes
    /\ zip = None /\ dir = None
    /\ dl = "Now" /\ req = {"zip"} /\ dflag = FALSE /\ pc = "ftp"

UInit ==
    /\ FlowInit \/ JustAccepted
    /\ events = 0
    /\ at = "PSU" /\ disk = [c \in Classes |-> None]
    /\ upg = {} /\ st = [m \in Mods |-> "none"] /\ sending = [m \in Mods |-> None]
    /\ flag = {} /\ status = {} /\ conf = {} /\ cmd = [m \in Mods |-> 0]
    /\ post = {} /\ asked = FALSE
    /\ link = [m \in Mods |-> "up"]
    /\ held = [m \in Mods |-> None] /\ ready = {}
    /\ cur = None /\ went = FALSE /\ mixed = FALSE

Same(A) == ~asked /\ A /\ UNCHANGED <<events, own>>

UTask ==
    \/ Same(FtpBegin \/ FtpPass \/ FtpFails)
    \/ \E p \in Pkgs : Got(p)
    \/ \E p \in Headers : Spoilt(p)
    \/ Same(ZipNone \/ ZipHash \/ \E content \in Contents : ZipCheck(content))
    \/ UBegun
    \/ Same(\E code \in {0, 9} : Unzip(code))
    \/ Spread \/ NoSpread \/ NoPackage \/ SpreadDone
    \/ Waits \/ Confirms \/ \E good \in BOOLEAN : Installs(good)
    \/ Settles \/ Same(FailRemove) \/ UCleared
    \/ Posts

Module(m) ==
    \/ Begins(m) \/ Sent(m) \/ SendFails(m) \/ Succeeds(m) \/ PulledOut(m)
    \/ Answers(m) \/ DoesNot(m)

Clients ==
    \/ \E p \in Headers : Takes(p)
    \/ TakesImage \/ UGoes \/ UCancels \/ Asks \/ Session

UNext ==
    \/ Clients \/ Same(TimesOut) \/ UTask
    \/ \E m \in Mods : Module(m) \/ Link(m)

USpec == UInit /\ [][UNext]_uvars

\* The tasks run, and the times come at which a package is fetched and an
\* upgrade done (system_call_Task counts down 255 s at most).  Clients and
\* links owe nothing.
UFairness ==
    /\ WF_uvars(UTask)
    /\ SF_uvars(Same(FtpBegin)) /\ SF_uvars(Confirms)
    /\ \A m \in Mods : WF_uvars(Module(m))

LiveSpec == USpec /\ UFairness

-----------------------------------------------------------------------------
\* A module sends only what was copied for it, and the classes are gone through
\* from the first one each time.
UTypeOK ==
    /\ FlowTypeOK
    /\ events \in 0..MaxEvents
    /\ at \in Classes \cup {"end"} /\ disk \in [Classes -> Contents]
    /\ pc # "spread" => at = "PSU"
    /\ upg \subseteq Mods /\ st \in [Mods -> {"none", "send", "success"}]
    /\ sending \in [Mods -> Contents]
    /\ \A m \in upg : disk[ClassOf(m)] # None
    /\ \A m \in Mods : st[m] = "send" => sending[m] # None
    /\ flag \subseteq Mods /\ status \subseteq Mods /\ conf \subseteq Mods
    /\ cmd \in [Mods -> 0..2]
    /\ post \subseteq {"PSU", "PAU", "APP"} /\ asked \in BOOLEAN
    /\ link \in [Mods -> {"up", "down", "out"}] /\ held \in [Mods -> Contents]
    /\ ready \subseteq Mods
    /\ cur \in Contents /\ went \in BOOLEAN /\ mixed \in BOOLEAN

\* A package that was alone at work: nothing of an earlier one was pending, no
\* other package or image came meanwhile, each image for a module was copied and
\* no module put in late.
Alone == ~mixed /\ cur # None

\* The unit is reset for a package only when that was asked for, and when every
\* module that took it holds its image and has been told to apply it.
ResetAfterAll == asked /\ Alone =>
    /\ went
    /\ \A m \in flag : ClassOf(m) \in Bits => m \in conf /\ held[m] = cur

\* A client that is shown Complete may ask for the upgrade: every module that
\* took the package holds its image.
CompleteSent == dl = "Complete" /\ kind = "zip" /\ Alone =>
    \A m \in flag : ClassOf(m) \in Bits => held[m] = cur

\* A class nobody answers for: no module took the image, or one that did is no
\* longer being sent to and has not got it.
Lost(c) ==
    \/ In(flag, c) = {}
    \/ \E m \in In(flag, c) \ status : m \notin upg /\ st[m] = "none"
AnyLost == \E c \in Bits \cap Classes : Lost(c)

\* The downloads to the modules come to an end that the clients are shown,
\* unless a class is lost (then neither the state nor the upgrade moves on).
InsideEnds == dl = "Inside" ~> dl # "Inside" \/ AnyLost

\* An upgrade that was asked for is done or dropped, with the same exception.
UpgradeEnds == "conf" \in req ~> "conf" \notin req \/ asked \/ AnyLost
=============================================================================
