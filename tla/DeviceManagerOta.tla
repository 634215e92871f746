-------------------------- MODULE DeviceManagerOta --------------------------
(***************************************************************************)
(* The software-update (OTA) part of the device manager,                  *)
(* src/src/device-manager/device_manager_ota.c.                           *)
(*                                                                         *)
(* One install is device_manager_ota_install_execute: extract the package *)
(* with libarchive inside the package directory, locate iot-update, copy  *)
(* it next to the executable, run the copy (or the original) on the       *)
(* package, delete the copy.  The code is sequential; what the model      *)
(* explores is the environment: every return code libarchive, the file    *)
(* system and the process runner can give, and the value an uninitialised *)
(* stack buffer can hold.  The extraction loop takes one step per archive *)
(* entry, so the state between entries (the current directory changed,    *)
(* part of the package written) is visible to the invariants.             *)
(***************************************************************************)
EXTENDS Integers, Sequences

CONSTANTS
    NumEntries,     \* entries in the update package
    EntrySize,      \* [1..NumEntries -> Nat]: archive_entry_size of each
    MaxBlocks,      \* data blocks of an entry read before ARCHIVE_EOF
    MaxCalls,       \* install calls and action registrations per behaviour
    OpenMayFail,    \* archive_read_open_filename may return an error
    GarbageMayRun   \* the uninitialised command_with_params may start non-NUL

ASSUME NumEntries \in Nat /\ MaxBlocks \in Nat /\ MaxCalls \in Nat
ASSUME EntrySize \in [1..NumEntries -> Nat]
ASSUME OpenMayFail \in BOOLEAN /\ GarbageMayRun \in BOOLEAN

Entries == 1..NumEntries

(* libarchive's return codes (archive.h). *)
ARCHIVE_EOF    == 1
ARCHIVE_OK     == 0
ARCHIVE_WARN   == -20
ARCHIVE_FAILED == -25
ARCHIVE_FATAL  == -30
Errors == {ARCHIVE_WARN, ARCHIVE_FAILED, ARCHIVE_FATAL}

VARIABLES
    pc,        \* "idle", "extract" (inside the entry loop), "tool"
    entry,     \* the archive entry archive_read_next_header returns next
    written,   \* what this install wrote of each entry
    ext,       \* result of device_manager_ota_extract_package
    cwd,       \* the process's current directory
    saved,     \* what extract_package's cwd[] holds: the directory getcwd
               \* saved, or "garbage" when getcwd failed and left it unset
    copy,      \* iot-update-copy left on disk by an earlier install
    ran,       \* the commands os_system_run_wait ran, in order
    result,    \* the status the last call returned
    calls,     \* install calls and OTA requests made
    manifest,  \* device_manager->ota_manifest
    live       \* actions allocated by register and not freed

vars == <<pc, entry, written, ext, cwd, saved, copy, ran, result, calls, manifest, live>>

Status == {"none", "SUCCESS", "FAILURE", "BAD_PARAMETER", "EXECUTION_ERROR"}
Written == {"none", "partial", "full", "done"}

(***************************************************************************)
(* device_manager_ota_copy_data: read a block, stop with OK at EOF or with *)
(* the code of a failed read, write the block, stop with the code of a    *)
(* failed write.  A block is <<read code, write code>>.                   *)
(***************************************************************************)
RECURSIVE CopyData(_)
CopyData(blocks) ==
    LET rd == Head(blocks)[1]
        wr == Head(blocks)[2]
    IN  IF rd = ARCHIVE_EOF THEN ARCHIVE_OK
        ELSE IF rd < ARCHIVE_OK THEN rd
        ELSE IF wr < ARCHIVE_OK THEN wr
        ELSE CopyData(Tail(blocks))

(* The block sequences an entry's data can give: up to MaxBlocks good   *)
(* blocks, then EOF, a failed read, or a good read whose write fails.   *)
BlockRuns ==
    LET good == <<ARCHIVE_OK, ARCHIVE_OK>>
        last == {<<ARCHIVE_EOF, ARCHIVE_OK>>}
                \cup {<<e, ARCHIVE_OK>> : e \in Errors}
                \cup {<<ARCHIVE_OK, e>> : e \in Errors}
    IN  {[i \in 1..n+1 |-> IF i <= n THEN good ELSE l] : n \in 0..MaxBlocks, l \in last}

(* archive_read_next_header: a header while entries remain, then EOF; an *)
(* error is possible at any read.                                        *)
HeaderCodes == IF entry <= NumEntries THEN {ARCHIVE_OK} \cup Errors
                                      ELSE {ARCHIVE_EOF} \cup Errors

(* archive_write_header and archive_write_finish_entry. *)
WriteCodes == {ARCHIVE_OK} \cup Errors

(* The first byte of an uninitialised stack buffer. *)
UninitByte == IF GarbageMayRun THEN {"NUL", "garbage"} ELSE {"NUL"}

Init ==
    /\ pc = "idle"
    /\ entry = 1
    /\ written = [e \in Entries |-> "none"]
    /\ ext = "none"
    /\ cwd = "home"
    /\ saved = "home"
    /\ copy = "absent"
    /\ ran = <<>>
    /\ result = "none"
    /\ calls = 0
    /\ manifest = "none"
    /\ live = 0

(* archive_read_open_filename. *)
OpenCodes == IF OpenMayFail THEN {ARCHIVE_OK} \cup Errors ELSE {ARCHIVE_OK}

(* What os_system_run_wait leaves in result once system_ret is checked. *)
SysResults == {"SUCCESS", "FAILURE", "EXECUTION_ERROR"}

(***************************************************************************)
(* device_manager_ota_install_execute calls device_manager_ota_extract_   *)
(* package: in an existing package directory, save the current directory, *)
(* change into the package directory, and when the file is there open it  *)
(* with libarchive.  A failed getcwd leaves cwd[] uninitialised: the     *)
(* chdir into the package is skipped, file_exists of the relative file   *)
(* name fails and the result stays BAD_PARAMETER, and at the end a first *)
(* byte that is not NUL makes it chdir to whatever cwd[] spells: the     *)
(* chdir fails, or lands in some other directory.  A failed chdir into  *)
(* the package also leaves BAD_PARAMETER, and changes back to where it  *)
(* was.  A failed open is only logged: the result stays SUCCESS, the     *)
(* entry loop is skipped and it changes back to the saved directory.     *)
(***************************************************************************)
ExtractPackage ==
    \E dirOk, cwdOk, chdirOk \in BOOLEAN, open \in OpenCodes, b \in UninitByte :
        /\ saved' = IF cwdOk THEN cwd ELSE "garbage"
        /\ IF ~(dirOk /\ cwdOk /\ chdirOk)
           THEN /\ ext' = "BAD_PARAMETER"
                /\ pc' = "tool"
                /\ cwd' \in IF dirOk /\ ~cwdOk /\ b = "garbage"
                            THEN {cwd, "other"} ELSE {cwd}
           ELSE /\ ext' = "SUCCESS"
                /\ pc'  = IF open = ARCHIVE_OK THEN "extract" ELSE "tool"
                /\ cwd' = IF open = ARCHIVE_OK THEN "pkg" ELSE cwd

InstallBegin ==
    /\ pc = "idle"
    /\ calls < MaxCalls
    /\ calls' = calls + 1
    /\ entry' = 1
    /\ written' = [e \in Entries |-> "none"]
    /\ ExtractPackage
    /\ UNCHANGED <<copy, ran, result, manifest, live>>

(* The entry loop ends with res; extract_package changes back to the     *)
(* directory getcwd saved (the loop is only entered when it succeeded),  *)
(* the one it was in before the chdir into the package.                  *)
Leave(res) == ext' = res /\ pc' = "tool" /\ cwd' = saved /\ UNCHANGED saved

(* archive_read_next_header returns EOF (break, result SUCCESS) or an     *)
(* error: r < ARCHIVE_OK sets FAILURE, a warning included, and the        *)
(* else-if on r < ARCHIVE_WARN is never reached.                          *)
ReadHeaderStop ==
    /\ pc = "extract"
    /\ \E h \in HeaderCodes \ {ARCHIVE_OK} :
          Leave(IF h = ARCHIVE_EOF THEN "SUCCESS" ELSE "FAILURE")
    /\ UNCHANGED <<entry, written, copy, ran, result, calls, manifest, live>>

(* One pass of the while loop on a header that was read: write the       *)
(* header, copy the data of a non-empty entry, finish the entry; the      *)
(* first of them to return r < ARCHIVE_OK ends the loop with FAILURE.     *)
EntryState(w, r, f) ==
    CASE w < ARCHIVE_OK -> "none"
      [] r < ARCHIVE_OK -> "partial"
      [] f < ARCHIVE_OK -> "full"
      [] OTHER          -> "done"

(* Mutant: a failed copy_data is not checked and the loop goes on. *)
ExtractEntryIgnoreCopy ==
    /\ pc = "extract"
    /\ entry <= NumEntries
    /\ \E w, f \in WriteCodes, blocks \in BlockRuns :
        LET r  == IF EntrySize[entry] > 0 THEN CopyData(blocks) ELSE ARCHIVE_OK
            st == EntryState(w, r, f)
        IN  /\ written' = [written EXCEPT ![entry] = st]
            /\ IF st \in {"done", "partial"}
               THEN entry' = entry + 1 /\ UNCHANGED <<pc, ext, cwd, saved>>
               ELSE Leave("FAILURE") /\ UNCHANGED entry
    /\ UNCHANGED <<copy, ran, result, calls, manifest, live>>

ExtractEntry ==
    /\ pc = "extract"
    /\ entry <= NumEntries
    /\ \E w, f \in WriteCodes, blocks \in BlockRuns :
        LET r  == IF EntrySize[entry] > 0 THEN CopyData(blocks) ELSE ARCHIVE_OK
            st == EntryState(w, r, f)
        IN  /\ written' = [written EXCEPT ![entry] = st]
            /\ IF st = "done"
               THEN entry' = entry + 1 /\ UNCHANGED <<pc, ext, cwd, saved>>
               ELSE Leave("FAILURE") /\ UNCHANGED entry
    /\ UNCHANGED <<copy, ran, result, calls, manifest, live>>

(***************************************************************************)
(* The rest of install_execute.  Only after a successful extraction is    *)
(* iot-update looked up with app_path_which and copied beside the         *)
(* executable; command_with_params is written only on that path, yet it   *)
(* is read on every path: when its uninitialised first byte is not NUL    *)
(* os_system_run_wait runs whatever it holds.  The copy is run when       *)
(* os_file_exists finds one, whether this call made it or an earlier call *)
(* failed to delete it, else the original; the copy is then deleted,      *)
(* which may fail.                                                        *)
(***************************************************************************)
(* Mutant: iot-update is looked up and run whatever extraction returned. *)
InstallToolNoGuard ==
    /\ pc = "tool"
    /\ \E which, copied, deleted \in BOOLEAN, byte \in UninitByte, sys \in SysResults :
        LET built  == which
            onDisk == IF built /\ copied THEN "fresh" ELSE copy
            tool   == IF ~built THEN byte
                      ELSE IF onDisk = "absent" THEN "orig" ELSE onDisk
            runs   == tool # "NUL"
        IN  /\ ran' = IF runs
                      THEN Append(ran, [tool |-> tool,
                                        complete |-> \A e \in Entries : written[e] = "done"])
                      ELSE ran
            /\ result' = CASE runs                -> sys
                           [] ext = "SUCCESS"     -> "EXECUTION_ERROR"
                           [] OTHER               -> ext
            /\ copy' = IF built /\ onDisk # "absent"
                       THEN IF deleted THEN "absent" ELSE "stale"
                       ELSE copy
    /\ pc' = "idle"
    /\ UNCHANGED <<entry, written, ext, cwd, saved, calls, manifest, live>>

InstallTool ==
    /\ pc = "tool"
    /\ \E which, copied, deleted \in BOOLEAN, byte \in UninitByte, sys \in SysResults :
        LET built  == ext = "SUCCESS" /\ which
            onDisk == IF built /\ copied THEN "fresh" ELSE copy
            tool   == IF ~built THEN byte
                      ELSE IF onDisk = "absent" THEN "orig" ELSE onDisk
            runs   == tool # "NUL"
        IN  /\ ran' = IF runs
                      THEN Append(ran, [tool |-> tool,
                                        complete |-> \A e \in Entries : written[e] = "done"])
                      ELSE ran
            /\ result' = CASE runs                -> sys
                           [] ext = "SUCCESS"     -> "EXECUTION_ERROR"
                           [] OTHER               -> ext
            /\ copy' = IF built /\ onDisk # "absent"
                       THEN IF deleted THEN "absent" ELSE "stale"
                       ELSE copy
    /\ pc' = "idle"
    /\ UNCHANGED <<entry, written, ext, cwd, saved, calls, manifest, live>>

(***************************************************************************)
(* The manifest(ota) action callback device_manager_ota: result starts as *)
(* BAD_PARAMETER and the body runs only if it is SUCCESS, so every        *)
(* request returns BAD_PARAMETER and nothing is installed.                *)
(***************************************************************************)
OtaRequest ==
    /\ manifest = "registered"
    /\ pc = "idle"
    /\ calls < MaxCalls
    /\ calls' = calls + 1
    /\ result' = "BAD_PARAMETER"
    /\ UNCHANGED <<pc, entry, written, ext, cwd, saved, copy, ran, manifest, live>>

(* device_manager_ota_register: allocate the action and register it; a   *)
(* failed registration is logged and the allocated action kept, and the  *)
(* call returns SUCCESS either way.                                       *)
Register ==
    /\ live < MaxCalls
    /\ \E allocated, registered \in BOOLEAN :
        /\ live' = IF allocated THEN live + 1 ELSE live
        /\ manifest' = IF allocated /\ registered THEN "registered" ELSE manifest
    /\ result' = "SUCCESS"
    /\ UNCHANGED <<pc, entry, written, ext, cwd, saved, copy, ran, calls>>

(* Mutant: the action is freed without checking that one is registered. *)
DeregisterUnchecked ==
    /\ \E ok \in BOOLEAN :
        IF ok
        THEN manifest' = "none" /\ live' = live - 1
        ELSE UNCHANGED <<manifest, live>>
    /\ result' = "SUCCESS"
    /\ UNCHANGED <<pc, entry, written, ext, cwd, saved, copy, ran, calls>>

(* device_manager_ota_deregister: a deregistered action is freed and the *)
(* pointer cleared; a failure is logged; the call returns SUCCESS.        *)
Deregister ==
    /\ \E ok \in BOOLEAN :
        IF manifest = "registered" /\ ok
        THEN manifest' = "none" /\ live' = live - 1
        ELSE UNCHANGED <<manifest, live>>
    /\ result' = "SUCCESS"
    /\ UNCHANGED <<pc, entry, written, ext, cwd, saved, copy, ran, calls>>

Next ==
    \/ InstallBegin \/ ReadHeaderStop \/ ExtractEntry \/ InstallTool
    \/ OtaRequest \/ Register \/ Deregister

Spec == Init /\ [][Next]_vars

-----------------------------------------------------------------------------
Tools == {"fresh", "stale", "orig", "garbage"}

TypeOK ==
    /\ pc \in {"idle", "extract", "tool"}
    /\ entry \in 1..NumEntries + 1
    /\ written \in [Entries -> Written]
    /\ ext \in Status
    /\ cwd \in {"home", "pkg", "other"}
    /\ saved \in {"home", "other", "garbage"}
    /\ copy \in {"absent", "stale"}
    /\ ran \in Seq([tool : Tools, complete : BOOLEAN])
    /\ result \in Status
    /\ calls \in 0..MaxCalls
    /\ manifest \in {"none", "registered"}
    /\ live \in 0..MaxCalls

(* extract_package reports SUCCESS only when every entry of the package  *)
(* was written and finished: no entry is left missing or half-copied by  *)
(* a header, data or finish error that the loop let through.             *)
ExtractReportsEntries ==
    pc = "tool" /\ ext = "SUCCESS" => \A e \in Entries : written[e] = "done"

(* Every command install_execute runs is iot-update (its copy or the     *)
(* original) on a package that was fully extracted: no command is run    *)
(* after a failed extraction or lookup, and none on a partial package.   *)
ToolRunsOnPackage ==
    \A i \in 1..Len(ran) : ran[i].tool # "garbage" /\ ran[i].complete

(* extract_package leaves the process in the directory it was called in, *)
(* on every path out of the entry loop.                                  *)
CwdRestored == pc \in {"idle", "tool"} => cwd = "home"
=============================================================================
