--------------------------- MODULE ApprovalsProofs ---------------------------
(* Theorems about module Approvals, for any calls and number of edits.     *)
EXTENDS Approvals, TLAPS

\* A file that is torn or is not there is no configuration.
LEMMA NotConfigs == Torn \notin Configs /\ None \notin Configs /\ Torn # None
<1>1. \A cfg \in Configs : DOMAIN cfg = {"tracked", "other"}
    BY DEF Configs, Parts
<1>2. DOMAIN Torn = {"torn"} /\ DOMAIN None = {"none"}
    BY DEF Torn, None
<1> QED BY <1>1, <1>2

\* The values of the settings.
LEMMA Values ==
    /\ Patched \in Nat /\ Started \in Configs
    /\ \A n \in 0..MaxEdits : n \in 0..Patched /\ n # Patched
    /\ \A cfg \in Configs, part \in Parts, n \in 0..Patched :
            [cfg EXCEPT ![part] = n] \in Configs
    /\ \A cfg \in Configs : Restored(cfg) \in Configs
BY MaxEditsAssumption DEF Patched, Started, Configs, Parts, Restored

-----------------------------------------------------------------------------
(* Types.                                                                  *)

\* A call holds the configuration it read from the read to the rename, and a
\* file that it opened only while it writes.
HoldInv ==
    \A c \in Calls :
        /\ seen[c] # None <=> pc[c] \in {"open", "fill", "rename"}
        /\ file[c] # "none" <=> pc[c] \in {"fill", "rename"}

TypeInv == TypeOK /\ HoldInv

LEMMA TypeInit == Init => TypeInv
<1> SUFFICES ASSUME Init PROVE TypeInv
    OBVIOUS
<1>1. config \in Configs /\ tmp = None
    BY Values DEF Init
<1>2. edits \in 0..MaxEdits /\ latest \in [Parts -> 0..MaxEdits]
    BY MaxEditsAssumption DEF Init
<1>3. exposed \subseteq Parts
    BY DEF Init, Parts
<1>4. HoldInv
    BY DEF Init, HoldInv
<1> QED BY <1>1, <1>2, <1>3, <1>4 DEF Init, TypeInv, TypeOK

LEMMA TypeInductive == TypeInv /\ [Next]_vars => TypeInv'
<1> SUFFICES ASSUME TypeInv, [Next]_vars PROVE TypeInv'
    OBVIOUS
<1> USE NotConfigs, Values, MaxEditsAssumption
    DEF TypeInv, TypeOK, HoldInv, At, Goto, history
<1>1. ASSUME NEW c \in Calls, ReadBackup(c) PROVE TypeInv'
    BY <1>1 DEF ReadBackup
<1>2. ASSUME NEW c \in Calls, ReadConfig(c) PROVE TypeInv'
    BY <1>2 DEF ReadConfig, Ends
<1>3. ASSUME NEW c \in Calls, OpenTmp(c) PROVE TypeInv'
    BY <1>3 DEF OpenTmp
<1>4. ASSUME NEW c \in Calls, FillTmp(c) PROVE TypeInv'
    BY <1>4 DEF FillTmp, Restored
<1>5. ASSUME NEW c \in Calls, Rename(c) PROVE TypeInv'
    <2>1. CASE tmp = None
        BY <1>5, <2>1 DEF Rename, Ends
    <2>2. CASE tmp # None
        <3>1. /\ pc[c] = "rename" /\ pc' = [pc EXCEPT ![c] = "unlink"]
              /\ config' = tmp /\ tmp' = None
              /\ file' = [Replaced(TRUE) EXCEPT ![c] = "none"]
              /\ seen' = [seen EXCEPT ![c] = None]
              /\ UNCHANGED <<backup, edits, latest, exposed, overlapped>>
            BY <1>5, <2>2 DEF Rename
        <3>2. /\ Replaced(TRUE)
                    \in [Calls -> {"none", "tmp", "config", "gone"}]
              /\ \A d \in Calls :
                    Replaced(TRUE)[d] = "none" <=> file[d] = "none"
            BY DEF Replaced
        <3>3. TypeOK'
            BY <2>2, <3>1, <3>2
        <3>4. HoldInv'
            BY <3>1, <3>2
        <3> QED BY <3>3, <3>4
    <2> QED BY <2>1, <2>2
<1>6. ASSUME NEW c \in Calls, Unlink(c) PROVE TypeInv'
    BY <1>6 DEF Unlink, Ends
<1>7. ASSUME NEW c \in Calls, Crash(c) PROVE TypeInv'
    BY <1>7 DEF Crash, Ends
<1>8. ASSUME NEW part \in Parts, Edit(part) PROVE TypeInv'
    <2>1. /\ Replaced(FALSE)
                \in [Calls -> {"none", "tmp", "config", "gone"}]
          /\ \A d \in Calls :
                Replaced(FALSE)[d] = "none" <=> file[d] = "none"
        BY DEF Replaced
    <2>2. edits' \in 0..MaxEdits
        BY <1>8 DEF Edit
    <2>3. config' \in Configs
        BY <1>8, <2>2 DEF Edit
    <2>4. latest' \in [Parts -> 0..MaxEdits]
        BY <1>8, <2>2 DEF Edit
    <2>5. exposed' \subseteq Parts
        BY <1>8 DEF Edit
    <2>6. UNCHANGED <<tmp, backup, pc, seen, overlapped>>
          /\ file' = Replaced(FALSE)
        BY <1>8 DEF Edit
    <2> QED BY <2>1, <2>2, <2>3, <2>4, <2>5, <2>6
<1>9. CASE UNCHANGED vars
    BY <1>9 DEF vars
<1> QED
    BY <1>1, <1>2, <1>3, <1>4, <1>5, <1>6, <1>7, <1>8, <1>9 DEF Next, Call

LEMMA TypeInvCorrect == Spec => []TypeInv
BY TypeInit, TypeInductive, PTL DEF Spec

\* Every variable keeps its type.
THEOREM TypeCorrect == Spec => []TypeOK
<1>1. TypeInv => TypeOK
    BY DEF TypeInv
<1> QED BY <1>1, TypeInvCorrect, PTL

-----------------------------------------------------------------------------
(* The configuration is never torn.                                        *)

\* While no two calls had the tmp file open at a time, the one that writes it
\* has it to itself, and has filled it before it renames it.
WholeInv ==
    ~overlapped =>
        /\ config # Torn
        /\ \A c \in Calls : file[c] \in {"none", "tmp"}
        /\ \A c, d \in Calls : file[c] = "tmp" /\ file[d] = "tmp" => c = d
        /\ \A c \in Calls : pc[c] = "rename" => tmp # Torn

LEMMA WholeInductive == TypeInv /\ WholeInv /\ [Next]_vars => WholeInv'
<1> SUFFICES ASSUME TypeInv, WholeInv, [Next]_vars PROVE WholeInv'
    OBVIOUS
<1> USE NotConfigs, Values
    DEF TypeInv, TypeOK, HoldInv, WholeInv, At, Goto, history
<1>1. ASSUME NEW c \in Calls, ReadBackup(c) PROVE WholeInv'
    BY <1>1 DEF ReadBackup
<1>2. ASSUME NEW c \in Calls, ReadConfig(c) PROVE WholeInv'
    BY <1>2 DEF ReadConfig, Ends
<1>3. ASSUME NEW c \in Calls, OpenTmp(c) PROVE WholeInv'
    BY <1>3 DEF OpenTmp
<1>4. ASSUME NEW c \in Calls, FillTmp(c) PROVE WholeInv'
    BY <1>4 DEF FillTmp, Restored
<1>5. ASSUME NEW c \in Calls, Rename(c) PROVE WholeInv'
    <2>1. CASE tmp = None
        BY <1>5, <2>1 DEF Rename, Ends
    <2>2. CASE tmp # None
        <3>1. /\ config' = tmp /\ tmp' = None /\ UNCHANGED overlapped
              /\ pc' = [pc EXCEPT ![c] = "unlink"]
              /\ pc[c] = "rename"
            BY <1>5, <2>2 DEF Rename
        <3>2. \A d \in Calls : file'[d] =
                IF d = c THEN "none" ELSE
                CASE file[d] = "config" -> "gone"
                  [] file[d] = "tmp"    -> "config"
                  [] OTHER              -> file[d]
            BY <1>5, <2>2 DEF Rename, Replaced
        <3> SUFFICES ASSUME ~overlapped PROVE WholeInv'
            BY <3>1
        <3>3. \A d \in Calls : file'[d] = "none"
            BY <3>1, <3>2
        <3>4. \A d \in Calls : pc'[d] = "rename" => pc[d] = "rename"
            BY <3>1
        <3> QED BY <3>1, <3>3, <3>4
    <2> QED BY <2>1, <2>2
<1>6. ASSUME NEW c \in Calls, Unlink(c) PROVE WholeInv'
    BY <1>6 DEF Unlink, Ends
<1>7. ASSUME NEW c \in Calls, Crash(c) PROVE WholeInv'
    BY <1>7 DEF Crash, Ends
<1>8. ASSUME NEW part \in Parts, Edit(part) PROVE WholeInv'
    BY <1>8 DEF Edit, Replaced, Restoring, Reading
<1>9. CASE UNCHANGED vars
    BY <1>9 DEF vars
<1> QED
    BY <1>1, <1>2, <1>3, <1>4, <1>5, <1>6, <1>7, <1>8, <1>9 DEF Next, Call

\* A crash at any step leaves a configuration that parses, for any number of
\* calls none of which wrote at a time.
THEOREM NeverTornCorrect == Spec => []NeverTorn
<1>1. Init => WholeInv
    BY NotConfigs, Values DEF Init, WholeInv
<1>2. WholeInv => NeverTorn
    BY DEF WholeInv, NeverTorn
<1> QED BY <1>1, <1>2, WholeInductive, TypeInvCorrect, PTL DEF Spec

\* No two migrations are between the read and the rename at a time: what holds
\* of a gateway that starts the plugin again only after it has ended it.
Writing(c) == pc[c] \in {"open", "fill", "rename"}
OneAtATime == \A c, d \in Calls : Writing(c) /\ Writing(d) => c = d

\* One after the other, and wherever each crashes, migrations leave a
\* configuration that parses, without exception.
THEOREM WholeOneAtATime == Spec /\ []OneAtATime => [](config # Torn)
<1>1. Init => ~overlapped
    BY DEF Init
<1>2. TypeInv /\ OneAtATime /\ ~overlapped /\ [Next]_vars => ~overlapped'
    <2> SUFFICES ASSUME TypeInv, OneAtATime, ~overlapped, [Next]_vars
                 PROVE  ~overlapped'
        OBVIOUS
    <2>1. ASSUME NEW c \in Calls, OpenTmp(c) PROVE ~overlapped'
        <3>1. ASSUME NEW d \in Calls, file[d] = "tmp" PROVE FALSE
            <4>1. Writing(c) /\ pc[c] = "open"
                BY <2>1 DEF OpenTmp, At, Writing
            <4>2. Writing(d) /\ pc[d] # "open"
                BY <3>1 DEF TypeInv, HoldInv, Writing
            <4> QED BY <4>1, <4>2 DEF OneAtATime
        <3> QED BY <2>1, <3>1 DEF OpenTmp
    <2>2. CASE UNCHANGED overlapped
        BY <2>2
    <2> QED
        BY <2>1, <2>2
           DEF Next, Call, vars, ReadBackup, ReadConfig, FillTmp, Rename,
               Unlink, Crash, Edit
<1>3. NeverTorn /\ ~overlapped => config # Torn
    BY DEF NeverTorn
<1> QED
    BY <1>1, <1>2, <1>3, NeverTornCorrect, TypeInvCorrect, PTL DEF Spec

-----------------------------------------------------------------------------
(* The backup outlives the patched settings.                               *)

\* What is written is restored, and once one call has renamed, the settings
\* that the old version patched do not come back.
CleanInv ==
    /\ tmp \notin {Torn, None} => tmp["tracked"] # Patched
    /\ backup = "none" \/ (\E c \in Calls : pc[c] = "unlink")
            => config = Torn \/ config["tracked"] # Patched

LEMMA CleanInductive == TypeInv /\ CleanInv /\ [Next]_vars => CleanInv'
<1> SUFFICES ASSUME TypeInv, CleanInv, [Next]_vars PROVE CleanInv'
    OBVIOUS
<1>0. \A cfg \in Configs : Restored(cfg)["tracked"] # Patched
    BY MaxEditsAssumption DEF Restored, Configs, Parts, Patched
<1> USE <1>0, NotConfigs, Values
    DEF TypeInv, TypeOK, HoldInv, CleanInv, At, Goto, history
<1>1. ASSUME NEW c \in Calls, ReadBackup(c) PROVE CleanInv'
    BY <1>1 DEF ReadBackup
<1>2. ASSUME NEW c \in Calls, ReadConfig(c) PROVE CleanInv'
    BY <1>2 DEF ReadConfig, Ends
<1>3. ASSUME NEW c \in Calls, OpenTmp(c) PROVE CleanInv'
    BY <1>3 DEF OpenTmp
<1>4. ASSUME NEW c \in Calls, FillTmp(c) PROVE CleanInv'
    BY <1>4 DEF FillTmp
<1>5. ASSUME NEW c \in Calls, Rename(c) PROVE CleanInv'
    BY <1>5 DEF Rename, Ends, Replaced
<1>6. ASSUME NEW c \in Calls, Unlink(c) PROVE CleanInv'
    BY <1>6 DEF Unlink, Ends
<1>7. ASSUME NEW c \in Calls, Crash(c) PROVE CleanInv'
    BY <1>7 DEF Crash, Ends
<1>8. ASSUME NEW part \in Parts, Edit(part) PROVE CleanInv'
    <2>1. edits' \in 0..MaxEdits /\ UNCHANGED <<tmp, backup, pc>>
        BY <1>8, MaxEditsAssumption DEF Edit
    <2>2. config \in Configs /\ config' = [config EXCEPT ![part] = edits']
        BY <1>8 DEF Edit
    <2>3. config'["tracked"] \in {edits', config["tracked"]}
        BY <2>2 DEF Configs, Parts
    <2>4. edits' # Patched
        BY <2>1
    <2> QED BY <2>1, <2>2, <2>3, <2>4
<1>9. CASE UNCHANGED vars
    BY <1>9 DEF vars
<1> QED
    BY <1>1, <1>2, <1>3, <1>4, <1>5, <1>6, <1>7, <1>8, <1>9 DEF Next, Call

\* No crash, failure or other call leaves the patched settings without their
\* backup.
THEOREM BackupOutlivesCorrect == Spec => []BackupOutlives
<1>1. Init => CleanInv
    BY DEF Init, CleanInv
<1>2. CleanInv => BackupOutlives
    BY DEF CleanInv, BackupOutlives
<1> QED BY <1>1, <1>2, CleanInductive, TypeInvCorrect, PTL DEF Spec

-----------------------------------------------------------------------------
(* Edits are kept.                                                         *)

\* An edit of the other settings that is not exposed came before the read of
\* every call that has not yet renamed, and so before all that they write.
OtherInv ==
    "other" \notin exposed =>
        /\ config # Torn => config["other"] = latest["other"]
        /\ \A c \in Calls :
            seen[c] # None => seen[c]["other"] = latest["other"]
        /\ (\E c \in Calls : pc[c] \in {"fill", "rename"})
                => tmp \in {Torn, None} \/ tmp["other"] = latest["other"]

\* An edit of a tracked setting that is not exposed came after the last
\* migration.
TrackedInv ==
    "tracked" \notin exposed =>
        /\ config # Torn => config["tracked"] = latest["tracked"]
        /\ backup # "saved"
        /\ \A c \in Calls : pc[c] \notin {"config", "open", "fill", "rename"}

LEMMA OtherInductive == TypeInv /\ OtherInv /\ [Next]_vars => OtherInv'
<1> SUFFICES ASSUME TypeInv, OtherInv, [Next]_vars PROVE OtherInv'
    OBVIOUS
<1>0. \A cfg \in Configs : Restored(cfg)["other"] = cfg["other"]
    BY DEF Restored, Configs, Parts
<1> USE <1>0, NotConfigs, Values
    DEF TypeInv, TypeOK, HoldInv, OtherInv, At, Goto, history
<1>1. ASSUME NEW c \in Calls, ReadBackup(c) PROVE OtherInv'
    BY <1>1 DEF ReadBackup
<1>2. ASSUME NEW c \in Calls, ReadConfig(c) PROVE OtherInv'
    BY <1>2 DEF ReadConfig, Ends
<1>3. ASSUME NEW c \in Calls, OpenTmp(c) PROVE OtherInv'
    BY <1>3 DEF OpenTmp
<1>4. ASSUME NEW c \in Calls, FillTmp(c) PROVE OtherInv'
    BY <1>4 DEF FillTmp
<1>5. ASSUME NEW c \in Calls, Rename(c) PROVE OtherInv'
    BY <1>5 DEF Rename, Ends, Replaced
<1>6. ASSUME NEW c \in Calls, Unlink(c) PROVE OtherInv'
    BY <1>6 DEF Unlink, Ends
<1>7. ASSUME NEW c \in Calls, Crash(c) PROVE OtherInv'
    BY <1>7 DEF Crash, Ends
<1>8. ASSUME NEW part \in Parts, Edit(part) PROVE OtherInv'
    BY <1>8 DEF Edit, Configs, Parts, Replaced, Restoring, Reading
<1>9. CASE UNCHANGED vars
    BY <1>9 DEF vars
<1> QED
    BY <1>1, <1>2, <1>3, <1>4, <1>5, <1>6, <1>7, <1>8, <1>9 DEF Next, Call

LEMMA TrackedInductive == TypeInv /\ TrackedInv /\ [Next]_vars => TrackedInv'
<1> SUFFICES ASSUME TypeInv, TrackedInv, [Next]_vars PROVE TrackedInv'
    OBVIOUS
<1> USE NotConfigs, Values
    DEF TypeInv, TypeOK, HoldInv, TrackedInv, At, Goto, history
<1>1. ASSUME NEW c \in Calls, ReadBackup(c) PROVE TrackedInv'
    BY <1>1 DEF ReadBackup
<1>2. ASSUME NEW c \in Calls, ReadConfig(c) PROVE TrackedInv'
    BY <1>2 DEF ReadConfig, Ends
<1>3. ASSUME NEW c \in Calls, OpenTmp(c) PROVE TrackedInv'
    BY <1>3 DEF OpenTmp
<1>4. ASSUME NEW c \in Calls, FillTmp(c) PROVE TrackedInv'
    BY <1>4 DEF FillTmp, Restored
<1>5. ASSUME NEW c \in Calls, Rename(c) PROVE TrackedInv'
    BY <1>5 DEF Rename, Ends, Replaced
<1>6. ASSUME NEW c \in Calls, Unlink(c) PROVE TrackedInv'
    BY <1>6 DEF Unlink, Ends
<1>7. ASSUME NEW c \in Calls, Crash(c) PROVE TrackedInv'
    BY <1>7 DEF Crash, Ends
<1>8. ASSUME NEW part \in Parts, Edit(part) PROVE TrackedInv'
    BY <1>8 DEF Edit, Configs, Parts, Replaced, Restoring, Reading
<1>9. CASE UNCHANGED vars
    BY <1>9 DEF vars
<1> QED
    BY <1>1, <1>2, <1>3, <1>4, <1>5, <1>6, <1>7, <1>8, <1>9 DEF Next, Call

\* An edit is undone only where it fell between the read and the rename of a
\* migration, or changed a tracked setting before the backup was gone.
THEOREM EditsKeptCorrect == Spec => []EditsKept
<1>1. Init => OtherInv /\ TrackedInv
    BY DEF Init, OtherInv, TrackedInv, Started, Parts
<1>2. OtherInv /\ TrackedInv => EditsKept
    BY DEF OtherInv, TrackedInv, EditsKept, Parts
<1> QED
    BY <1>1, <1>2, OtherInductive, TrackedInductive, TypeInvCorrect, PTL
       DEF Spec
=============================================================================
