------------------------------ MODULE Approvals ------------------------------
(***************************************************************************)
(* The migration that every toggle of the approvals runs on a host where   *)
(* a version before v0.9 patched openclaw.json (src/approvals.js): put the *)
(* settings saved in the backup back, and remove the backup.  Toggles come *)
(* from the wrapper API and from bin/approvals-cli.js, in processes of     *)
(* their own, and any of them can stop at any step; meanwhile the user and *)
(* the gateway edit the same configuration.                                *)
(*                                                                         *)
(* Abstractions.  The configuration is its tracked settings (TRACKED_PATHS)*)
(* and all the others, each named by the edit that made it.  A file is     *)
(* opened (and so truncated) in one step and filled in another; an edit    *)
(* from outside replaces the file at once.  A step that fails is a crash:  *)
(* nothing of the call follows it.  The flag file is written before all    *)
(* this; module ApprovalGate reads it.                                     *)
(*                                                                         *)
(* A definition whose name ends in _Slip is the one after it with a        *)
(* plausible mistake in the code; no action uses it.                       *)
(***************************************************************************)
EXTENDS Naturals

CONSTANTS
    Calls,      \* calls of setApprovalsForwardingEnabled
    MaxEdits    \* bound on the edits from outside

ASSUME MaxEditsAssumption == MaxEdits \in Nat

VARIABLES
    config,     \* openclaw.json
    tmp,        \* openclaw.json.tmp
    backup,     \* BACKUP_FILE: is it there, and does it parse
    pc,         \* where each call is
    seen,       \* cfg, the configuration that each call read
    file        \* what the file is now that each call has opened as tmp

VARIABLES       \* history, for the properties
    edits,      \* the number of edits
    latest,     \* the last edit of each part
    exposed,    \* parts whose last edit a migration may overwrite
    overlapped  \* two calls had the tmp file open at a time

vars == <<config, tmp, backup, pc, seen, file, edits, latest, exposed,
          overlapped>>

Parts == {"tracked", "other"}
Torn  == [torn |-> TRUE]
None  == [none |-> TRUE]

\* 0 is what the old version found, Patched what it made of that.
Patched == MaxEdits + 1
Configs == [Parts -> 0..Patched]
Started == [tracked |-> Patched, other |-> 0]

TypeOK ==
    /\ config \in Configs \cup {Torn}
    /\ tmp \in Configs \cup {Torn, None}
    /\ backup \in {"none", "saved", "unparsable"}
    /\ pc \in [Calls -> {"idle", "config", "open", "fill", "rename", "unlink",
                         "returned", "dead"}]
    /\ seen \in [Calls -> Configs \cup {None}]
    /\ file \in [Calls -> {"none", "tmp", "config", "gone"}]
    /\ edits \in 0..MaxEdits /\ latest \in [Parts -> 0..MaxEdits]
    /\ exposed \subseteq Parts /\ overlapped \in BOOLEAN

Init ==
    /\ backup \in {"saved", "unparsable"}
    /\ config = Started /\ tmp = None
    /\ pc = [c \in Calls |-> "idle"]
    /\ seen = [c \in Calls |-> None]
    /\ file = [c \in Calls |-> "none"]
    /\ edits = 0 /\ latest = [part \in Parts |-> 0]
    /\ exposed = {"tracked"} /\ overlapped = FALSE

-----------------------------------------------------------------------------
(* The steps of migratePreV09Config.                                       *)

history     == <<edits, latest, exposed>>
At(c, step) == pc[c] = step
Goto(c, step) == pc' = [pc EXCEPT ![c] = step]

\* A call is over: it lets go of what it read and opened.
Ends(c, step) ==
    /\ Goto(c, step)
    /\ seen' = [seen EXCEPT ![c] = None]
    /\ file' = [file EXCEPT ![c] = "none"]

\* Without a backup, or with one that does not parse, there is nothing to do.
ReadBackup(c) ==
    /\ At(c, "idle")
    /\ Goto(c, IF backup = "saved" THEN "config" ELSE "returned")
    /\ UNCHANGED <<config, tmp, backup, seen, file, history, overlapped>>

\* A configuration that does not parse is left alone.
ReadConfig(c) ==
    /\ At(c, "config")
    /\ IF config = Torn
       THEN Ends(c, "returned")
       ELSE /\ Goto(c, "open") /\ UNCHANGED file
            /\ seen' = [seen EXCEPT ![c] = config]
    /\ UNCHANGED <<config, tmp, backup, history, overlapped>>

\* Slip: the configuration itself is opened.
OpenTmp_Slip(c) ==
    /\ At(c, "open")
    /\ Goto(c, "fill")
    /\ file' = [file EXCEPT ![c] = "config"]
    /\ config' = Torn
    /\ UNCHANGED <<tmp, backup, seen, history, overlapped>>

\* writeFile opens the tmp file, which all calls share, and truncates it.
OpenTmp(c) ==
    /\ At(c, "open")
    /\ Goto(c, "fill")
    /\ file' = [file EXCEPT ![c] = "tmp"]
    /\ tmp' = Torn
    /\ overlapped' = (overlapped \/ \E d \in Calls : file[d] = "tmp")
    /\ UNCHANGED <<config, backup, seen, history>>

\* Slip: the backup takes the place of the configuration.
Restored_Slip(cfg) == [part \in Parts |-> 0]

\* The tracked settings as the backup has them, and the rest of cfg.
Restored(cfg) == [cfg EXCEPT !["tracked"] = 0]

\* Slip: the backup is removed once its values are written.
FillTmp_Slip(c) ==
    /\ At(c, "fill")
    /\ Goto(c, "rename")
    /\ tmp' = IF file[c] = "tmp" THEN Restored(seen[c]) ELSE tmp
    /\ config' = IF file[c] = "config" THEN Restored(seen[c]) ELSE config
    /\ backup' = "none"
    /\ UNCHANGED <<seen, file, history, overlapped>>

\* It is filled, wherever it has gone to since.
FillTmp(c) ==
    /\ At(c, "fill")
    /\ Goto(c, "rename")
    /\ tmp' = IF file[c] = "tmp" THEN Restored(seen[c]) ELSE tmp
    /\ config' = IF file[c] = "config" THEN Restored(seen[c]) ELSE config
    /\ UNCHANGED <<backup, seen, file, history, overlapped>>

\* The configuration is another file now, the tmp file when that was renamed.
Replaced(renamed) ==
    [c \in Calls |->
        CASE file[c] = "config"          -> "gone"
          [] file[c] = "tmp" /\ renamed -> "config"
          [] OTHER                       -> file[c]]

\* The tmp file becomes the configuration; without one the call fails.
Rename(c) ==
    /\ At(c, "rename")
    /\ IF tmp = None
       THEN Ends(c, "dead") /\ UNCHANGED <<config, tmp>>
       ELSE /\ Goto(c, "unlink")
            /\ config' = tmp /\ tmp' = None
            /\ file' = [Replaced(TRUE) EXCEPT ![c] = "none"]
            /\ seen' = [seen EXCEPT ![c] = None]
    /\ UNCHANGED <<backup, history, overlapped>>

\* The backup goes, or stays when it cannot be removed.
Unlink(c) ==
    /\ At(c, "unlink")
    /\ backup' \in {backup, "none"}
    /\ Ends(c, "returned")
    /\ UNCHANGED <<config, tmp, history, overlapped>>

\* The process ends, or a step fails.
Crash(c) ==
    /\ pc[c] \notin {"idle", "returned", "dead"}
    /\ Ends(c, "dead")
    /\ UNCHANGED <<config, tmp, backup, history, overlapped>>

-----------------------------------------------------------------------------
(* The others.                                                             *)

\* A call has read the backup and not yet renamed; it has read the
\* configuration.
Restoring == \E c \in Calls : pc[c] \in {"config", "open", "fill", "rename"}
Reading   == \E c \in Calls : seen[c] # None

\* The user or the gateway writes the configuration anew.
Edit(part) ==
    /\ config # Torn /\ edits < MaxEdits
    /\ edits' = edits + 1
    /\ config' = [config EXCEPT ![part] = edits']
    /\ file' = Replaced(FALSE)
    /\ latest' = [latest EXCEPT ![part] = edits']
    /\ exposed' = IF Reading \/ (part = "tracked"
                                    /\ (Restoring \/ backup = "saved"))
                  THEN exposed \cup {part} ELSE exposed \ {part}
    /\ UNCHANGED <<tmp, backup, pc, seen, overlapped>>

Call(c) ==
    \/ ReadBackup(c) \/ ReadConfig(c) \/ OpenTmp(c) \/ FillTmp(c) \/ Rename(c)
    \/ Unlink(c) \/ Crash(c)

Next == (\E c \in Calls : Call(c)) \/ \E part \in Parts : Edit(part)

Spec == Init /\ [][Next]_vars

-----------------------------------------------------------------------------
(* Properties.                                                             *)

\* A crash at any step leaves a configuration that parses, unless two calls
\* wrote the tmp file, which has one name, at a time.
NeverTorn == config # Torn \/ overlapped

\* The backup outlives the patched settings: no crash, failure or second call
\* leaves the one without the other.
BackupOutlives ==
    backup = "none" /\ config # Torn => config["tracked"] # Patched

\* An edit from outside is not undone, unless it fell between the read and the
\* rename of a migration, or changed a tracked setting before the backup was
\* gone (a crash before the unlink has it restored once more).
EditsKept ==
    config # Torn =>
        \A part \in Parts \ exposed : config[part] = latest[part]
=============================================================================
