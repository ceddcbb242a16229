------------------------------- MODULE PkgFlow -------------------------------
(***************************************************************************)
(* The way of a package through system_call_Task: fetched by ftp or taken  *)
(* from a client, checked, unpacked, handed over, and applied when that is *)
(* asked for.  What the clients send (module DnSession) and what the       *)
(* modules of the unit do (module PkgUpgrade) is left open here; both      *)
(* modules are built from the actions of this one.                         *)
(*                                                                         *)
(* The task shares its requests, the state shown to the clients and the    *)
(* header of the package with the communication thread and the modules'    *)
(* tasks, and nothing locks them: a handler of a command is a step, the    *)
(* task takes one for each of its operations that lasts.                   *)
(***************************************************************************)
EXTENDS Integers

CONSTANTS Pkgs      \* packages, known by their headers

VARIABLES
    hdr,            \* zip_header
    kind,           \* dn_img_kind
    mode,           \* m_Env.DnMode.pkg
    zip, dir,       \* DN_TEMP_FILE_ZiP, ZIP_FILES_DIR: the package, if whole
    dl,             \* m_St.DL_State[DN_RCU][DL_ST]
    req,            \* DN_TASK_REQ_ftp, _zip, _Comfirm
    dflag,          \* downloading_flag
    pc              \* the place of system_call_Task

flow == <<hdr, kind, mode, zip, dir, dl, req, dflag, pc>>
task == <<dflag, pc>>

None == "none"
Modes == {"auto", "wait"}
States == {"IDLE", "Now", "Check", "Unzip", "Inside", "Complete", "RstWait", "Fail"}
Contents == Pkgs \cup {None, "bad"}
Headers == Pkgs \cup {None}     \* None: of no package

ASSUME PkgAssumption == None \notin Pkgs /\ "bad" \notin Pkgs

-----------------------------------------------------------------------------
(* What the commands of a client do                                        *)

\* rxStartDownload
Starts(m) ==
    /\ mode' = m
    /\ dl' = "Now"
    /\ UNCHANGED <<hdr, kind, zip, dir, req, task>>

\* rxDataDownload: the first block of a package, whose header is kept though it
\* be refused, of a single image, of neither; another block; and a first block
\* that goes on with a session or finds no file.
Header(p) ==
    /\ hdr' = p /\ kind' = "zip"
    /\ dl' = "Now"
    /\ UNCHANGED <<mode, zip, dir, req, task>>

Image ==
    /\ kind' = "one"
    /\ dl' = "Now"
    /\ UNCHANGED <<hdr, mode, zip, dir, req, task>>

WrongImage ==
    /\ kind' = "wrong"
    /\ dl' = "Now"
    /\ UNCHANGED <<hdr, mode, zip, dir, req, task>>

Block ==
    /\ dl' = "Now"
    /\ UNCHANGED <<hdr, kind, mode, zip, dir, req, task>>

NoBlock ==
    /\ kind' = "zip"
    /\ UNCHANGED <<hdr, mode, zip, dir, dl, req, task>>

\* rxFinishConfirm
Accepted ==
    /\ kind = "zip"
    /\ req' = req \cup {"zip"}
    /\ UNCHANGED <<hdr, kind, mode, zip, dir, dl, task>>

ImageAccepted(auto) ==
    /\ kind = "one"
    /\ dl' = IF auto THEN "RstWait" ELSE "Complete"
    /\ UNCHANGED <<hdr, kind, mode, zip, dir, req, task>>

Refused ==
    /\ dl' = "Fail"
    /\ UNCHANGED <<hdr, kind, mode, zip, dir, req, task>>

\* rxDNconfirm: upgrade now (refused without a package), or drop the package.
Go ==
    /\ zip # None
    /\ req' = req \cup {"conf"}
    /\ UNCHANGED <<hdr, kind, mode, zip, dir, dl, task>>

Cancel ==
    /\ zip' = None /\ hdr' = None
    /\ req' = {}
    /\ dl' = "IDLE"
    /\ UNCHANGED <<kind, mode, dir, task>>

\* ftp_get_pkg (check_ftp_DN_cmd_ACK): refused while a download is under way.
FtpAllowed == "ftp" \notin req /\ dl \in {"IDLE", "Complete", "Fail"}

FtpRequest ==
    /\ FtpAllowed
    /\ req' = req \cup {"ftp"}
    /\ UNCHANGED <<hdr, kind, mode, zip, dir, dl, task>>

\* WDT_Task: nothing has come for too long.
TimesOut ==
    /\ dl' = IF dl = "Now" THEN "Fail" ELSE dl
    /\ UNCHANGED <<hdr, kind, mode, zip, dir, req, task>>

-----------------------------------------------------------------------------
(* system_call_Task                                                        *)

\* An ftp request waits for its time; then the file comes, or does not.
FtpBegin ==
    /\ pc = "ftp" /\ "ftp" \in req
    /\ dl' = "Now"
    /\ pc' = "get"
    /\ UNCHANGED <<hdr, kind, mode, zip, dir, req, dflag>>

FtpPass ==
    /\ pc = "ftp" /\ pc' = "zip"
    /\ UNCHANGED <<hdr, kind, mode, zip, dir, dl, req, dflag>>

FtpGot(p) ==
    /\ pc = "get" /\ pc' = "zip"
    /\ kind' = "zip" /\ hdr' = p
    /\ mode' = "wait"
    /\ req' = (req \cup {"zip"}) \ {"ftp"}
    /\ dflag' = TRUE
    /\ UNCHANGED <<zip, dir, dl>>

FtpMissed ==
    /\ pc = "get" /\ pc' = "zip"
    /\ dl' = "Fail"
    /\ req' = req \ {"ftp"}
    /\ dflag' = TRUE
    /\ UNCHANGED <<mode, zip, dir>>

\* The file does not come, or cannot be opened; ...
FtpFails ==
    /\ FtpMissed
    /\ kind' \in {kind, "zip"}
    /\ UNCHANGED hdr

\* ... or its header is not valid, or it cannot be copied.
FtpSpoilt(p) ==
    /\ FtpMissed
    /\ kind' = "zip" /\ hdr' = p

ZipNone ==
    /\ pc = "zip" /\ pc' = "conf"
    /\ "zip" \notin req
    /\ UNCHANGED <<hdr, kind, mode, zip, dir, dl, req, dflag>>

ZipBegin ==
    /\ pc = "zip" /\ pc' = "check"
    /\ "zip" \in req
    /\ dflag' = TRUE
    /\ req' = req \ {"conf"}
    /\ dl' = "Check"
    /\ UNCHANGED <<hdr, kind, mode, zip, dir>>

ZipFails ==
    /\ req' = req \ {"zip"}
    /\ dl' = "Fail"
    /\ pc' = "ftp"

\* check_Zip_FILE: what has come takes the place of the package.
ZipCheck(content) ==
    /\ pc = "check"
    /\ \/ content = None /\ ZipFails /\ UNCHANGED zip
       \/ content # None /\ zip' = content /\ pc' = "hash" /\ UNCHANGED <<dl, req>>
    /\ UNCHANGED <<hdr, kind, mode, dir, dflag>>

\* HASH_Check_Zip_FILE
HashUnread == zip # None      \* mutation: the hashes are not compared
HashRight == hdr # None /\ zip = hdr

ZipHash ==
    /\ pc = "hash"
    /\ \/ ~HashRight /\ ZipFails
       \/ HashRight /\ dl' = "Unzip" /\ pc' = "unzip" /\ UNCHANGED req
    /\ UNCHANGED <<hdr, kind, mode, zip, dir, dflag>>

\* unzip_Zip_FILE returns the status of the shell in 8 bits: an exit code of
\* unzip is in the 8 above them.
Returned(code) == (256 * code) % 256

Unzip(code) ==
    /\ pc = "unzip"
    /\ zip = None => code # 0
    /\ dir' = IF code = 0 THEN zip ELSE "bad"
    /\ \/ Returned(code) > 0 /\ ZipFails
       \/ Returned(code) = 0 /\ pc' = "spread" /\ UNCHANGED <<dl, req>>
    /\ UNCHANGED <<hdr, kind, mode, zip, dflag>>

\* check_zip_files_PSU_PAU: an image for a module is handed over; and its end.
Inside ==
    /\ pc = "spread"
    /\ dl' = "Inside"
    /\ UNCHANGED <<hdr, kind, mode, zip, dir, req, task>>

SpreadEnd ==
    /\ pc = "spread" /\ pc' = "conf"
    /\ req' = (req \ {"zip"}) \cup (IF mode = "auto" THEN {"conf"} ELSE {})
    /\ UNCHANGED <<hdr, kind, mode, zip, dir, dl, dflag>>

\* An upgrade is asked for.  It waits for the downloads to the modules, ...
ConfBusy ==
    /\ pc = "conf" /\ pc' = "ftp"
    /\ "conf" \in req
    /\ UNCHANGED <<hdr, kind, mode, zip, dir, dl, req, dflag>>

\* ... then for its time, ...
ConfLater ==
    /\ pc = "conf" /\ pc' = "post"
    /\ "conf" \in req
    /\ dl' = "RstWait"
    /\ UNCHANGED <<hdr, kind, mode, zip, dir, req, dflag>>

\* ... and is done by confirm_zip_files, which takes archives out by way of
\* the temporary file of the downloads.
ConfTakeOut ==
    /\ pc = "conf" /\ pc' = "install"
    /\ "conf" \in req
    /\ UNCHANGED <<hdr, kind, mode, zip, dir, dl, req, dflag>>

ConfEndKept(good) ==      \* mutation: the request stays
    /\ pc \in {"conf", "install"} /\ pc' = "post"
    /\ pc = "conf" => "conf" \in req
    /\ dl' = IF good THEN dl ELSE "Fail"
    /\ UNCHANGED <<hdr, kind, mode, zip, dir, req, dflag>>

ConfEnd(good) ==
    /\ pc \in {"conf", "install"} /\ pc' = "post"
    /\ pc = "conf" => "conf" \in req
    /\ dl' = IF good THEN dl ELSE "Fail"
    /\ req' = req \ {"conf"}
    /\ UNCHANGED <<hdr, kind, mode, zip, dir, dflag>>

\* None is asked for: the state moves on, and a failure is cleaned up after.
Settle(sent) ==
    /\ pc = "conf" /\ pc' = "post"
    /\ "conf" \notin req
    /\ ~(dl = "Fail" /\ dflag)
    /\ dl' = IF dl = "Unzip" \/ (dl = "Inside" /\ sent) THEN "Complete" ELSE dl
    /\ UNCHANGED <<hdr, kind, mode, zip, dir, req, dflag>>

\* DL_St_Fail_handle: the files, then the requests.
FailRemove ==
    /\ pc = "conf" /\ pc' = "clean"
    /\ "conf" \notin req
    /\ dl = "Fail" /\ dflag
    /\ zip' = None /\ dir' = None
    /\ UNCHANGED <<hdr, kind, mode, dl, req, dflag>>

FailClear ==
    /\ pc = "clean" /\ pc' = "post"
    /\ req' = {}
    /\ hdr' = None
    /\ dflag' = FALSE
    /\ UNCHANGED <<kind, mode, zip, dir, dl>>

\* check_zip_DN_flag
Post(reset) ==
    /\ pc = "post" /\ pc' = "ftp"
    /\ dl' = IF reset THEN "RstWait" ELSE dl
    /\ UNCHANGED <<hdr, kind, mode, zip, dir, req, dflag>>

\* A module's download or upgrade fails (AMP_Down_Fail, PSU_Down_Fail).
ModuleFails ==
    /\ dl' = "Fail"
    /\ UNCHANGED <<hdr, kind, mode, zip, dir, req, task>>

-----------------------------------------------------------------------------
FlowInit ==
    /\ hdr = None /\ kind = "one" /\ mode = "wait"
    /\ zip = None /\ dir = None
    /\ dl = "IDLE" /\ req = {} /\ dflag = FALSE /\ pc = "ftp"

Commands ==
    \/ \E m \in Modes : Starts(m)
    \/ \E p \in Headers : Header(p)
    \/ Image \/ WrongImage \/ Block \/ NoBlock
    \/ Accepted \/ Refused \/ \E a \in BOOLEAN : ImageAccepted(a)
    \/ Go \/ Cancel \/ FtpRequest

SystemCall ==
    \/ FtpBegin \/ FtpPass \/ FtpFails
    \/ \E p \in Pkgs : FtpGot(p)
    \/ \E p \in Headers : FtpSpoilt(p)
    \/ ZipNone \/ ZipBegin \/ ZipHash
    \/ \E content \in Contents : ZipCheck(content)
    \/ \E code \in {0, 9} : Unzip(code)
    \/ Inside \/ SpreadEnd
    \/ ConfBusy \/ ConfLater \/ ConfTakeOut
    \/ \E b \in BOOLEAN : ConfEnd(b) \/ Settle(b) \/ Post(b)
    \/ FailRemove \/ FailClear

FlowNext == Commands \/ TimesOut \/ SystemCall \/ ModuleFails

FlowSpec == FlowInit /\ [][FlowNext]_flow

-----------------------------------------------------------------------------
FlowTypeOK ==
    /\ hdr \in Headers
    /\ kind \in {"zip", "one", "wrong"}
    /\ mode \in Modes
    /\ zip \in Contents /\ dir \in Contents
    /\ dl \in States
    /\ req \subseteq {"ftp", "zip", "conf"}
    /\ dflag \in BOOLEAN
    /\ pc \in {"ftp", "get", "zip", "check", "hash", "unzip", "spread", "conf",
               "install", "clean", "post"}
=============================================================================
