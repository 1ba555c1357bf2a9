-------------------------- MODULE InstallerProofs --------------------------
(***************************************************************************)
(* Proofs about the installer, for any directory, any period of the        *)
(* runtime's scans and any number of kills and reboots.                    *)
(***************************************************************************)
EXTENDS Installer, TLAPS

\* Every step keeps the types, the temporary file whole when it is renamed, and
\* the new configuration the only one.
LEMMA InstallInductive ==
    ASSUME InstallInv, [Next]_vars
    PROVE  InstallInv'
  <1> USE DEF InstallInv, TypeOK, TempWhole, OneConf, Written, files, clock
  <1>0. /\ ConfName \in Names /\ ScanPeriod \in Nat /\ MaxFaults \in Nat
        /\ SleepTime = 6
    BY InstallerAssumption DEF SleepTime
  <1>1. CASE Start
    BY <1>0, <1>1 DEF Start, ToRemove
  <1>2. ASSUME NEW n \in Names, Remove(n)
        PROVE  InstallInv'
    BY <1>0, <1>2 DEF Remove
  <1>3. CASE Create
    BY <1>0, <1>3 DEF Create
  <1>4. CASE Write
    BY <1>0, <1>4 DEF Write
  <1>5. CASE Sync
    BY <1>0, <1>5 DEF Sync
  <1>6. CASE CreateTemp
    BY <1>0, <1>6 DEF CreateTemp
  <1>7. CASE Copy
    BY <1>0, <1>7 DEF Copy
  <1>8. CASE SyncTemp
    BY <1>0, <1>8 DEF SyncTemp
  <1>9. CASE Rename
    BY <1>0, <1>9 DEF Rename
  <1>10. CASE Finish
    BY <1>0, <1>10 DEF Finish
  <1>11. CASE Crash
    BY <1>0, <1>11 DEF Crash, Stop
  <1>12. CASE Reboot
    <2>1. bin' = bin
      BY <1>12 DEF Reboot
    <2>2. /\ etc' \in [Names -> {"absent", "dir", "broken", "old", "new"}]
          /\ etc'[ConfName] # "dir"
      BY <1>0, <1>12 DEF Reboot
    <2> QED
      BY <1>0, <1>12, <2>1, <2>2 DEF Reboot, Stop
  <1>13. CASE Scan
    <2>1. loaded' \in {"none", "old", "new"}
      BY <1>13 DEF Scan, Whole
    <2> QED
      BY <1>0, <1>13, <2>1 DEF Scan
  <1>14. CASE Tick
    BY <1>0, <1>14 DEF Tick
  <1>15. CASE UNCHANGED vars
    BY <1>15 DEF vars
  <1> QED
    BY <1>1, <1>2, <1>3, <1>4, <1>5, <1>6, <1>7, <1>8, <1>9, <1>10, <1>11, <1>12,
       <1>13, <1>14, <1>15 DEF Next, Step

\* The invariant holds from the beginning.
LEMMA InstallInvariant == Spec => []InstallInv
  <1>1. Init => InstallInv
    BY InstallerAssumption DEF Init, InstallInv, TypeOK, TempWhole, OneConf, Written,
                               SleepTime
  <1> QED
    BY <1>1, InstallInductive, PTL DEF Spec

\* Wherever the installer is stopped and whenever the node is rebooted, the
\* runtime finds no half plugin at its path: what installEgressGW renames is
\* whole and synced.
THEOREM NeverHalfAPlugin == Spec => []BinaryWhole
  <1>1. InstallInv => BinaryWhole
    BY DEF InstallInv, TempWhole, BinaryWhole
  <1> QED
    BY <1>1, InstallInvariant, PTL

-----------------------------------------------------------------------------
\* When the new configuration has been written, a scan finds no other.
LEMMA OnlyNew ==
    ASSUME InstallInv, pc \in Written
    PROVE  Whole = {"new"}
  <1>1. \A n \in Names : etc[n] \in {"absent", "dir", "new"}
    BY DEF InstallInv, OneConf
  <1>2. ConfName \in Names /\ etc[ConfName] = "new"
    BY InstallerAssumption DEF InstallInv, OneConf
  <1> QED
    BY <1>1, <1>2 DEF Whole

\* A sleep that is longer than the period does not end without a scan.
LEMMA ScanDueInductive ==
    ASSUME ScanPeriod < SleepTime, InstallInv, ScanDue, [Next]_vars
    PROVE  ScanDue'
  <1> USE DEF ScanDue, files, clock
  <1>0. ScanPeriod \in Nat /\ SleepTime = 6
    BY InstallerAssumption DEF SleepTime
  <1>1. CASE Start \/ Create \/ Write \/ Sync \/ CreateTemp \/ Copy \/ SyncTemp
    BY <1>1 DEF Start, Create, Write, Sync, CreateTemp, Copy, SyncTemp
  <1>2. ASSUME NEW n \in Names, Remove(n)
        PROVE  ScanDue'
    BY <1>2 DEF Remove
  <1>3. CASE Rename
    BY <1>3 DEF Rename, InstallInv, TypeOK, TempWhole
  <1>4. CASE Finish
    BY <1>0, <1>4 DEF Finish, InstallInv, TypeOK
  <1>5. CASE Crash \/ Reboot
    BY <1>5 DEF Crash, Reboot, Stop
  <1>6. CASE Scan
    BY <1>6, OnlyNew DEF Scan, Written
  <1>7. CASE Tick
    BY <1>0, <1>7 DEF Tick, InstallInv, TypeOK
  <1>8. CASE UNCHANGED vars
    BY <1>8 DEF vars
  <1> QED
    BY <1>1, <1>2, <1>3, <1>4, <1>5, <1>6, <1>7, <1>8 DEF Next, Step

\* If the installer sleeps longer than the runtime's period, the runtime uses
\* the new configuration and finds the new plugin when the agent starts.
THEOREM FinishesLoaded ==
    ASSUME ScanPeriod < SleepTime
    PROVE  Spec => []FinishedLoaded
  <1>1. Init => ScanDue
    BY DEF Init, ScanDue
  <1>2. ScanDue => FinishedLoaded
    BY DEF ScanDue, FinishedLoaded
  <1> QED
    BY <1>1, <1>2, InstallInvariant, ScanDueInductive, PTL DEF Spec
=============================================================================
