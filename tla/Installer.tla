----------------------------- MODULE Installer -----------------------------
(***************************************************************************)
(* egress-gw-installer (cmd/egress-gw-installer/sub): an init container of *)
(* the agent's pod that puts the CNI configuration and then the plugin's   *)
(* binary on the node, and waits for the container runtime to find them.   *)
(*                                                                         *)
(* It may fail or be killed at any step, and the node may be rebooted,     *)
(* which loses what has been written to a file and not synced.  The        *)
(* kubelet then runs it again from the beginning.                          *)
(*                                                                         *)
(* The runtime is external: it scans the directory for configurations at   *)
(* least every ScanPeriod seconds.  Time is a count of seconds.            *)
(***************************************************************************)
EXTENDS Naturals

CONSTANTS
    Names,       \* names in the directory for CNI configurations
    ConfName,    \* CNI_CONF_NAME
    Found,       \* [Names -> {"absent", "dir", "old"}]: the directories that an
                 \* installer may find
    ScanPeriod,  \* seconds: every 5, according to root.go
    MaxFaults    \* how often the installer or the node stops

ASSUME InstallerAssumption ==
    /\ ConfName \in Names
    /\ \A d \in Found : d \in [Names -> {"absent", "dir", "old"}] /\ d[ConfName] # "dir"
    /\ ScanPeriod \in Nat /\ MaxFaults \in Nat

VARIABLES
    pc,      \* the step of the installer
    etc,     \* Names -> what is there: nothing, a directory, or a configuration
             \* that is "broken" (empty or cut off), "old" or "new"
    todo,    \* the files that are still to be removed
    temp,    \* the temporary file: "none", "partial" or "whole"
    bin,     \* the plugin at its path: "none", "partial", "old" or "new"
    dirty,   \* what has been written and not synced: "conf", "temp", "bin"
    loaded,  \* the configuration that the runtime uses
    idle,    \* seconds since the last scan
    slept,   \* seconds that the installer has slept
    faults

files == <<etc, temp, bin, dirty>>
clock == <<loaded, idle, slept>>
vars  == <<pc, todo, files, clock, faults>>

Init ==
    /\ etc \in Found
    /\ bin \in {"none", "old"}
    /\ loaded \in {"none", "old"}
    /\ pc = "down"
    /\ todo = {}
    /\ temp = "none"
    /\ dirty = {}
    /\ idle = 0
    /\ slept = 0
    /\ faults = 0

-----------------------------------------------------------------------------
\* installCniConf.

\* Mutant: directories are not left out.
ToRemoveAll == {n \in Names : etc[n] # "absent"}

\* ReadDir, without directories.
ToRemove == {n \in Names : etc[n] \notin {"absent", "dir"}}

Start ==
    /\ pc = "down"
    /\ pc' = "Remove"
    /\ todo' = ToRemove
    /\ UNCHANGED <<files, clock, faults>>

\* A directory that is not empty cannot be removed: an error.
Remove(n) ==
    /\ pc = "Remove"
    /\ n \in todo
    /\ IF etc[n] = "dir" THEN pc' = "down" /\ todo' = {} /\ UNCHANGED etc
       ELSE pc' = pc /\ todo' = todo \ {n} /\ etc' = [etc EXCEPT ![n] = "absent"]
    /\ UNCHANGED <<temp, bin, dirty, clock, faults>>

Create ==
    /\ pc = "Remove"
    /\ todo = {}
    /\ etc' = [etc EXCEPT ![ConfName] = "broken"]
    /\ pc' = "Write"
    /\ UNCHANGED <<todo, temp, bin, dirty, clock, faults>>

Write ==
    /\ pc = "Write"
    /\ etc' = [etc EXCEPT ![ConfName] = "new"]
    /\ dirty' = dirty \cup {"conf"}
    /\ pc' = "Sync"
    /\ UNCHANGED <<todo, temp, bin, clock, faults>>

Sync ==
    /\ pc = "Sync"
    /\ dirty' = dirty \ {"conf"}
    /\ pc' = "CreateTemp"
    /\ UNCHANGED <<todo, etc, temp, bin, clock, faults>>

-----------------------------------------------------------------------------
\* installEgressGW.

CreateTemp ==
    /\ pc = "CreateTemp"
    /\ temp' = "partial"
    /\ pc' = "Copy"
    /\ UNCHANGED <<todo, etc, bin, dirty, clock, faults>>

Copy ==
    /\ pc = "Copy"
    /\ temp' = "whole"
    /\ dirty' = dirty \cup {"temp"}
    /\ pc' = "SyncTemp"
    /\ UNCHANGED <<todo, etc, bin, clock, faults>>

\* Mutant: the temporary file is not synced.
SyncTempNot ==
    /\ pc = "SyncTemp"
    /\ pc' = "Rename"
    /\ UNCHANGED <<todo, files, clock, faults>>

SyncTemp ==
    /\ pc = "SyncTemp"
    /\ dirty' = dirty \ {"temp"}
    /\ pc' = "Rename"
    /\ UNCHANGED <<todo, etc, temp, bin, clock, faults>>

\* The path gets the file with what has been written of it.
Rename ==
    /\ pc = "Rename"
    /\ bin' = IF temp = "whole" THEN "new" ELSE "partial"
    /\ dirty' = IF "temp" \in dirty THEN {"bin"} ELSE {}
    /\ temp' = "none"
    /\ pc' = "sleep"
    /\ slept' = 0
    /\ UNCHANGED <<todo, etc, loaded, idle, faults>>

-----------------------------------------------------------------------------
\* RunE.

\* Mutant: just as long as the period.
SleepTimeShort == 5

SleepTime == 6

Finish ==
    /\ pc = "sleep"
    /\ slept = SleepTime
    /\ pc' = "done"
    /\ UNCHANGED <<todo, files, clock, faults>>

-----------------------------------------------------------------------------
\* The node.

Stop == faults < MaxFaults /\ faults' = faults + 1 /\ pc' = "down" /\ todo' = {}

\* A call fails or the installer is killed.  (After a call that failed the
\* temporary file is removed; that of an installer that was killed stays, under
\* a name that is not used again.)
Crash ==
    /\ pc \notin {"down", "done"}
    /\ Stop
    /\ temp' = "none"
    /\ UNCHANGED <<etc, bin, dirty, clock>>

\* What has not been synced may be lost.
Reboot ==
    /\ Stop
    /\ etc' \in {etc} \cup {[etc EXCEPT ![ConfName] = "broken"] : d \in dirty \cap {"conf"}}
    /\ bin' \in {bin} \cup {"partial" : d \in dirty \cap {"bin"}}
    /\ temp' = "none"
    /\ dirty' = {}
    /\ loaded' = "none"
    /\ idle' = 0
    /\ UNCHANGED slept

\* The runtime loads a configuration that it can read, of which there may be
\* none.
Whole == {etc[n] : n \in Names} \cap {"old", "new"}

Scan ==
    /\ loaded' \in IF Whole # {} THEN Whole ELSE {loaded, "none"}
    /\ idle' = 0
    /\ UNCHANGED <<pc, todo, files, slept, faults>>

\* A second passes, unless the next scan is due or the sleep is over.
Tick ==
    /\ idle < ScanPeriod
    /\ ~ (pc = "sleep" /\ slept = SleepTime)
    /\ idle' = idle + 1
    /\ slept' = IF pc = "sleep" THEN slept + 1 ELSE slept
    /\ UNCHANGED <<pc, todo, files, loaded, faults>>

Step ==
    \/ Start \/ (\E n \in Names : Remove(n)) \/ Create \/ Write \/ Sync
    \/ CreateTemp \/ Copy \/ SyncTemp \/ Rename \/ Finish

Next == Step \/ Crash \/ Reboot \/ Scan \/ Tick

Spec == Init /\ [][Next]_vars

\* The installer runs, the kubelet runs it until it succeeds, and the runtime
\* scans while time passes.
FairSpec == Spec /\ WF_vars(Step) /\ WF_vars(Scan) /\ WF_vars(Tick)

-----------------------------------------------------------------------------
(***************************************************************************)
(* Properties.                                                             *)
(***************************************************************************)

\* The runtime never finds half a plugin at its path: wherever the installer
\* was stopped and whenever the node was rebooted, there is the former binary,
\* the new one or none (installEgressGW).
BinaryWhole == bin # "partial"

\* When the installer has finished, so that the agent starts, the runtime uses
\* the new configuration and the new plugin is there: six seconds are enough
\* for a scan (RunE).
FinishedLoaded == pc = "done" => loaded = "new" /\ bin = "new"

\* The installation is completed at last, over whatever files an installer that
\* was stopped, or another network plugin, has left (installCniConf).
EventuallyInstalled == <>[](pc = "done")

-----------------------------------------------------------------------------
(***************************************************************************)
(* Inductive invariants, from which InstallerProofs derives the two safety *)
(* properties for any directory, period and number of faults.              *)
(***************************************************************************)

\* The steps after the configuration has been written.
Written == {"Sync", "CreateTemp", "Copy", "SyncTemp", "Rename", "sleep", "done"}

\* Every variable has its type.
TypeOK ==
    /\ pc \in {"down", "Remove", "Write"} \cup Written
    /\ etc \in [Names -> {"absent", "dir", "broken", "old", "new"}]
    /\ todo \subseteq Names
    /\ temp \in {"none", "partial", "whole"}
    /\ bin \in {"none", "partial", "old", "new"}
    /\ dirty \subseteq {"conf", "temp", "bin"}
    /\ loaded \in {"none", "old", "new"}
    /\ idle \in 0..ScanPeriod
    /\ slept \in 0..SleepTime
    /\ faults \in 0..MaxFaults

\* The file that Rename puts at the path is whole and synced, and so is the one
\* that is there.
TempWhole ==
    /\ bin # "partial" /\ "bin" \notin dirty
    /\ pc \in {"SyncTemp", "Rename"} => temp = "whole"
    /\ pc = "Rename" => "temp" \notin dirty

\* Configurations that are not to be removed any more are gone, and the new
\* one is the only one from the time it is written.
OneConf ==
    /\ etc[ConfName] # "dir"
    /\ pc = "Remove" => \A n \in Names \ todo : etc[n] \in {"absent", "dir"}
    /\ pc \in {"Write"} \cup Written => \A n \in Names \ {ConfName} : etc[n] \in {"absent", "dir"}
    /\ pc \in Written => etc[ConfName] = "new"

InstallInv == TypeOK /\ TempWhole /\ OneConf

\* Without a scan since the sleep began, the last one is as long ago.  (For a
\* runtime whose period is shorter than the sleep.)
ScanDue ==
    /\ pc = "sleep" => loaded = "new" \/ slept <= idle
    /\ pc = "done" => loaded = "new"
    /\ pc \in {"sleep", "done"} => bin = "new"

=============================================================================
