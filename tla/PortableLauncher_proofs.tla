----------------------- MODULE PortableLauncher_proofs -----------------------
(***************************************************************************)
(* What the portable launcher runs, and what it leaves on the disk, for     *)
(* every set of executables.  An invariant says at each call of wWinMain    *)
(* what is held open, which files are whole, and how the destination looks. *)
(***************************************************************************)
EXTENDS PortableLauncher, TLAPS, WellFoundedInduction

Extracting == {"payload", "writePayload", "lockPayload", "script", "lockScript", "run",
               "expand", "app", "clean"}
Locations == {"createTemp", "protectTemp", "target", "removeTemp", "exit", "terminated"}
             \cup Extracting

\* What has to have been found before it is run, and is held from then on.
Checked ==
    /\ pc \in Extracting \ {"payload", "clean"} => CarriesPayload(exe)
    /\ pc \in {"script", "lockScript", "run", "expand", "app"} =>
           payload = "whole" /\ "payload" \in handles
    /\ pc \in {"run", "expand", "app"} => script = "whole" /\ "script" \in handles
    /\ pc \in Extracting \ {"clean"} => "target" \in handles

\* The temporary folder may be removed when nothing in it is held, and at the end it was,
\* or the system kept this or the removal of the destination from it.
Temporary ==
    /\ pc \in {"createTemp", "protectTemp", "removeTemp"} => handles = {}
    /\ pc = "target" => handles = {"temp"}
    /\ pc = "exit" => temp = "none" \/ "temp" \in obstacle
    /\ pc = "terminated" => "temp" \in obstacle \/ "dest" \in obstacle

\* The destination is only touched from the moment at which this run has made it.
Destination ==
    /\ before \in {"none", Kept}
    /\ ~extract \/ pc \in {"createTemp", "protectTemp", "target"} => ~created /\ dest = before
    /\ extract /\ result = 0 => pc \in {"clean", "removeTemp", "exit", "terminated"} /\ dest = "whole"
    /\ extract => pc # "app"
    /\ extract /\ pc \in Extracting => created /\ before = "none"
    /\ extract /\ pc \in {"removeTemp", "exit", "terminated"} /\ result # 0 =>
           dest = before \/ ("dest" \in obstacle /\ before = "none")

LauncherInv == TypeOK /\ pc \in Locations /\ Checked /\ Temporary /\ Destination

LEMMA InitInv == Init => LauncherInv
<1> SUFFICES ASSUME Init PROVE LauncherInv
  OBVIOUS
<1> USE DEF Init
<1>1. TypeOK
  <2>1. created \in BOOLEAN /\ failed \in BOOLEAN /\ extract \in BOOLEAN
    BY Zenon
  <2>2. exe \in Executables
    OBVIOUS
  <2>3. temp \in {"none", "empty"} /\ app \in Contents /\ dest \in Contents /\ before \in Contents
    BY DEF Contents, Kept
  <2>4. payload \in Files /\ script \in Files
    BY DEF Files
  <2>5. handles \subseteq {"temp", "target", "payload", "script"} /\ result \in {0, 1}
    OBVIOUS
  <2>6. obstacle \subseteq Roots
    OBVIOUS
  <2> QED BY <2>1, <2>2, <2>3, <2>4, <2>5, <2>6 DEF TypeOK
<1>2. pc \in Locations
  BY DEF Locations
<1>3. Checked
  BY DEF Checked, Extracting
<1>4. Temporary
  BY DEF Temporary
<1>5. Destination
  BY DEF Destination, Extracting, Kept
<1> QED
  BY <1>1, <1>2, <1>3, <1>4, <1>5 DEF LauncherInv

\* Every action keeps the invariant, conjunct by conjunct.
LEMMA StepInv == LauncherInv /\ [Next]_vars => LauncherInv'
<1> SUFFICES ASSUME LauncherInv, [Next]_vars PROVE LauncherInv'
  OBVIOUS
<1> USE DEF LauncherInv
<1>1. CASE CreateTempDirectory
  <2> USE <1>1 DEF CreateTempDirectory, Go, Fails, given, disk
  <2>1. (created \in BOOLEAN /\ failed \in BOOLEAN /\ extract \in BOOLEAN)'
    BY Zenon DEF TypeOK
  <2>2. (exe \in Executables)' /\ (temp \in {"none", "empty"})'
    BY DEF TypeOK
  <2>3. (app \in Contents)' /\ (dest \in Contents)' /\ (before \in Contents)'
    BY DEF TypeOK, Contents
  <2>4. (payload \in Files)' /\ (script \in Files)'
    BY DEF TypeOK, Files
  <2>5. (handles \subseteq {"temp", "target", "payload", "script"})' /\ (result \in {0, 1})'
    BY DEF TypeOK
  <2>6. (obstacle \subseteq Roots)'
    BY DEF TypeOK, Roots
  <2>7. (pc \in Locations)'
    BY DEF Locations, Extracting
  <2>8. Checked'
    BY DEF Checked, Extracting
  <2>9. Temporary'
    BY DEF Temporary
  <2>10. Destination'
    BY DEF Destination, Extracting, TypeOK
  <2> QED
    BY <2>1, <2>2, <2>3, <2>4, <2>5, <2>6, <2>7, <2>8, <2>9, <2>10 DEF TypeOK
<1>2. CASE ProtectTempDirectory
  <2> USE <1>2 DEF ProtectTempDirectory, Go, Fails, given, disk, RemoveTree, Emptied, Inside
  <2>1. (created \in BOOLEAN /\ failed \in BOOLEAN /\ extract \in BOOLEAN)'
    BY Zenon DEF TypeOK
  <2>2. (exe \in Executables)' /\ (temp \in {"none", "empty"})'
    BY DEF TypeOK
  <2>3. (app \in Contents)' /\ (dest \in Contents)' /\ (before \in Contents)'
    BY DEF TypeOK, Contents
  <2>4. (payload \in Files)' /\ (script \in Files)'
    BY DEF TypeOK, Files
  <2>5. (handles \subseteq {"temp", "target", "payload", "script"})' /\ (result \in {0, 1})'
    BY DEF TypeOK
  <2>6. (obstacle \subseteq Roots)'
    BY DEF TypeOK, Roots
  <2>7. (pc \in Locations)'
    BY DEF Locations, Extracting
  <2>8. Checked'
    BY DEF Checked, Extracting
  <2>9. Temporary'
    BY DEF Temporary
  <2>10. Destination'
    BY DEF Destination, Extracting, TypeOK
  <2> QED
    BY <2>1, <2>2, <2>3, <2>4, <2>5, <2>6, <2>7, <2>8, <2>9, <2>10 DEF TypeOK
<1>3. CASE CreateFreshExtractionDirectory
  <2> USE <1>3 DEF CreateFreshExtractionDirectory, Go, Fails, given, disk
  <2>1. (created \in BOOLEAN /\ failed \in BOOLEAN /\ extract \in BOOLEAN)'
    BY Zenon DEF TypeOK
  <2>2. (exe \in Executables)' /\ (temp \in {"none", "empty"})'
    BY DEF TypeOK
  <2>3. (app \in Contents)' /\ (dest \in Contents)' /\ (before \in Contents)'
    BY DEF TypeOK, Contents
  <2>4. (payload \in Files)' /\ (script \in Files)'
    BY DEF TypeOK, Files
  <2>5. (handles \subseteq {"temp", "target", "payload", "script"})' /\ (result \in {0, 1})'
    BY DEF TypeOK
  <2>6. (obstacle \subseteq Roots)'
    BY DEF TypeOK, Roots
  <2>7. (pc \in Locations)'
    BY DEF Locations, Extracting
  <2>8. Checked'
    BY DEF Checked, Extracting
  <2>9. Temporary'
    BY DEF Temporary
  <2>10. Destination'
    BY DEF Destination, Extracting, TypeOK
  <2> QED
    BY <2>1, <2>2, <2>3, <2>4, <2>5, <2>6, <2>7, <2>8, <2>9, <2>10 DEF TypeOK
<1>4. CASE CreateAppDirectory
  <2> USE <1>4 DEF CreateAppDirectory, Go, Fails, given, disk
  <2>1. (created \in BOOLEAN /\ failed \in BOOLEAN /\ extract \in BOOLEAN)'
    BY Zenon DEF TypeOK
  <2>2. (exe \in Executables)' /\ (temp \in {"none", "empty"})'
    BY DEF TypeOK
  <2>3. (app \in Contents)' /\ (dest \in Contents)' /\ (before \in Contents)'
    BY DEF TypeOK, Contents
  <2>4. (payload \in Files)' /\ (script \in Files)'
    BY DEF TypeOK, Files
  <2>5. (handles \subseteq {"temp", "target", "payload", "script"})' /\ (result \in {0, 1})'
    BY DEF TypeOK
  <2>6. (obstacle \subseteq Roots)'
    BY DEF TypeOK, Roots
  <2>7. (pc \in Locations)'
    BY DEF Locations, Extracting
  <2>8. Checked'
    BY DEF Checked, Extracting
  <2>9. Temporary'
    BY DEF Temporary
  <2>10. Destination'
    BY DEF Destination, Extracting, TypeOK
  <2> QED
    BY <2>1, <2>2, <2>3, <2>4, <2>5, <2>6, <2>7, <2>8, <2>9, <2>10 DEF TypeOK
<1>5. CASE FindPayload
  <2> USE <1>5 DEF FindPayload, Go, Fails, given, disk
  <2>1. (created \in BOOLEAN /\ failed \in BOOLEAN /\ extract \in BOOLEAN)'
    BY Zenon DEF TypeOK
  <2>2. (exe \in Executables)' /\ (temp \in {"none", "empty"})'
    BY DEF TypeOK
  <2>3. (app \in Contents)' /\ (dest \in Contents)' /\ (before \in Contents)'
    BY DEF TypeOK, Contents
  <2>4. (payload \in Files)' /\ (script \in Files)'
    BY DEF TypeOK, Files
  <2>5. (handles \subseteq {"temp", "target", "payload", "script"})' /\ (result \in {0, 1})'
    BY DEF TypeOK
  <2>6. (obstacle \subseteq Roots)'
    BY DEF TypeOK, Roots
  <2>7. (pc \in Locations)'
    BY DEF Locations, Extracting
  <2>8. Checked'
    BY DEF Checked, Extracting
  <2>9. Temporary'
    BY DEF Temporary
  <2>10. Destination'
    BY DEF Destination, Extracting, TypeOK
  <2> QED
    BY <2>1, <2>2, <2>3, <2>4, <2>5, <2>6, <2>7, <2>8, <2>9, <2>10 DEF TypeOK
<1>6. CASE WritePayload
  <2> USE <1>6 DEF WritePayload, Go, Fails, given, disk, WriteFile
  <2>1. (created \in BOOLEAN /\ failed \in BOOLEAN /\ extract \in BOOLEAN)'
    BY Zenon DEF TypeOK
  <2>2. (exe \in Executables)' /\ (temp \in {"none", "empty"})'
    BY DEF TypeOK
  <2>3. (app \in Contents)' /\ (dest \in Contents)' /\ (before \in Contents)'
    BY DEF TypeOK, Contents
  <2>4. (payload \in Files)' /\ (script \in Files)'
    BY DEF TypeOK, Files
  <2>5. (handles \subseteq {"temp", "target", "payload", "script"})' /\ (result \in {0, 1})'
    BY DEF TypeOK
  <2>6. (obstacle \subseteq Roots)'
    BY DEF TypeOK, Roots
  <2>7. (pc \in Locations)'
    BY DEF Locations, Extracting
  <2>8. Checked'
    BY DEF Checked, Extracting
  <2>9. Temporary'
    BY DEF Temporary
  <2>10. Destination'
    BY DEF Destination, Extracting, TypeOK
  <2> QED
    BY <2>1, <2>2, <2>3, <2>4, <2>5, <2>6, <2>7, <2>8, <2>9, <2>10 DEF TypeOK
<1>7. CASE WriteScript
  <2> USE <1>7 DEF WriteScript, Go, Fails, given, disk, WriteFile
  <2>1. (created \in BOOLEAN /\ failed \in BOOLEAN /\ extract \in BOOLEAN)'
    BY Zenon DEF TypeOK
  <2>2. (exe \in Executables)' /\ (temp \in {"none", "empty"})'
    BY DEF TypeOK
  <2>3. (app \in Contents)' /\ (dest \in Contents)' /\ (before \in Contents)'
    BY DEF TypeOK, Contents
  <2>4. (payload \in Files)' /\ (script \in Files)'
    BY DEF TypeOK, Files
  <2>5. (handles \subseteq {"temp", "target", "payload", "script"})' /\ (result \in {0, 1})'
    BY DEF TypeOK
  <2>6. (obstacle \subseteq Roots)'
    BY DEF TypeOK, Roots
  <2>7. (pc \in Locations)'
    BY DEF Locations, Extracting
  <2>8. Checked'
    BY DEF Checked, Extracting
  <2>9. Temporary'
    BY DEF Temporary
  <2>10. Destination'
    BY DEF Destination, Extracting, TypeOK
  <2> QED
    BY <2>1, <2>2, <2>3, <2>4, <2>5, <2>6, <2>7, <2>8, <2>9, <2>10 DEF TypeOK
<1>8. CASE LockPayload
  <2> USE <1>8 DEF LockPayload, Go, Fails, given, disk, LockFile
  <2>1. (created \in BOOLEAN /\ failed \in BOOLEAN /\ extract \in BOOLEAN)'
    BY Zenon DEF TypeOK
  <2>2. (exe \in Executables)' /\ (temp \in {"none", "empty"})'
    BY DEF TypeOK
  <2>3. (app \in Contents)' /\ (dest \in Contents)' /\ (before \in Contents)'
    BY DEF TypeOK, Contents
  <2>4. (payload \in Files)' /\ (script \in Files)'
    BY DEF TypeOK, Files
  <2>5. (handles \subseteq {"temp", "target", "payload", "script"})' /\ (result \in {0, 1})'
    BY DEF TypeOK
  <2>6. (obstacle \subseteq Roots)'
    BY DEF TypeOK, Roots
  <2>7. (pc \in Locations)'
    BY DEF Locations, Extracting
  <2>8. Checked'
    BY DEF Checked, Extracting
  <2>9. Temporary'
    BY DEF Temporary
  <2>10. Destination'
    BY DEF Destination, Extracting, TypeOK
  <2> QED
    BY <2>1, <2>2, <2>3, <2>4, <2>5, <2>6, <2>7, <2>8, <2>9, <2>10 DEF TypeOK
<1>9. CASE LockScript
  <2> USE <1>9 DEF LockScript, Go, Fails, given, disk, LockFile
  <2>1. (created \in BOOLEAN /\ failed \in BOOLEAN /\ extract \in BOOLEAN)'
    BY Zenon DEF TypeOK
  <2>2. (exe \in Executables)' /\ (temp \in {"none", "empty"})'
    BY DEF TypeOK
  <2>3. (app \in Contents)' /\ (dest \in Contents)' /\ (before \in Contents)'
    BY DEF TypeOK, Contents
  <2>4. (payload \in Files)' /\ (script \in Files)'
    BY DEF TypeOK, Files
  <2>5. (handles \subseteq {"temp", "target", "payload", "script"})' /\ (result \in {0, 1})'
    BY DEF TypeOK
  <2>6. (obstacle \subseteq Roots)'
    BY DEF TypeOK, Roots
  <2>7. (pc \in Locations)'
    BY DEF Locations, Extracting
  <2>8. Checked'
    BY DEF Checked, Extracting
  <2>9. Temporary'
    BY DEF Temporary
  <2>10. Destination'
    BY DEF Destination, Extracting, TypeOK
  <2> QED
    BY <2>1, <2>2, <2>3, <2>4, <2>5, <2>6, <2>7, <2>8, <2>9, <2>10 DEF TypeOK
<1>10. CASE Change
  <2> USE <1>10 DEF Change, Go, Fails, given, disk
  <2>1. (created \in BOOLEAN /\ failed \in BOOLEAN /\ extract \in BOOLEAN)'
    BY Zenon DEF TypeOK
  <2>2. (exe \in Executables)' /\ (temp \in {"none", "empty"})'
    BY DEF TypeOK
  <2>3. (app \in Contents)' /\ (dest \in Contents)' /\ (before \in Contents)'
    BY DEF TypeOK, Contents
  <2>4. (payload \in Files)' /\ (script \in Files)'
    BY DEF TypeOK, Files
  <2>5. (handles \subseteq {"temp", "target", "payload", "script"})' /\ (result \in {0, 1})'
    BY DEF TypeOK
  <2>6. (obstacle \subseteq Roots)'
    BY DEF TypeOK, Roots
  <2>7. (pc \in Locations)'
    BY DEF Locations, Extracting
  <2>8. Checked'
    BY DEF Checked, Extracting
  <2>9. Temporary'
    BY DEF Temporary
  <2>10. Destination'
    BY DEF Destination, Extracting, TypeOK
  <2> QED
    BY <2>1, <2>2, <2>3, <2>4, <2>5, <2>6, <2>7, <2>8, <2>9, <2>10 DEF TypeOK
<1>11. CASE StartScript
  <2> USE <1>11 DEF StartScript, Go, Fails, given, disk
  <2>1. (created \in BOOLEAN /\ failed \in BOOLEAN /\ extract \in BOOLEAN)'
    BY Zenon DEF TypeOK
  <2>2. (exe \in Executables)' /\ (temp \in {"none", "empty"})'
    BY DEF TypeOK
  <2>3. (app \in Contents)' /\ (dest \in Contents)' /\ (before \in Contents)'
    BY DEF TypeOK, Contents
  <2>4. (payload \in Files)' /\ (script \in Files)'
    BY DEF TypeOK, Files
  <2>5. (handles \subseteq {"temp", "target", "payload", "script"})' /\ (result \in {0, 1})'
    BY DEF TypeOK
  <2>6. (obstacle \subseteq Roots)'
    BY DEF TypeOK, Roots
  <2>7. (pc \in Locations)'
    BY DEF Locations, Extracting
  <2>8. Checked'
    BY DEF Checked, Extracting
  <2>9. Temporary'
    BY DEF Temporary
  <2>10. Destination'
    BY DEF Destination, Extracting, TypeOK
  <2> QED
    BY <2>1, <2>2, <2>3, <2>4, <2>5, <2>6, <2>7, <2>8, <2>9, <2>10 DEF TypeOK
<1>12. CASE ExpandArchive
  <2> USE <1>12 DEF ExpandArchive, Go, Fails, given, disk, Target, FillTarget
  <2>1. (created \in BOOLEAN /\ failed \in BOOLEAN /\ extract \in BOOLEAN)'
    BY Zenon DEF TypeOK
  <2>2. (exe \in Executables)' /\ (temp \in {"none", "empty"})'
    BY DEF TypeOK
  <2>3. (app \in Contents)' /\ (dest \in Contents)' /\ (before \in Contents)'
    BY DEF TypeOK, Contents
  <2>4. (payload \in Files)' /\ (script \in Files)'
    BY DEF TypeOK, Files
  <2>5. (handles \subseteq {"temp", "target", "payload", "script"})' /\ (result \in {0, 1})'
    BY DEF TypeOK
  <2>6. (obstacle \subseteq Roots)'
    BY DEF TypeOK, Roots
  <2>7. (pc \in Locations)'
    BY DEF Locations, Extracting
  <2>8. Checked'
    BY DEF Checked, Extracting
  <2>9. Temporary'
    BY DEF Temporary
  <2>10. Destination'
    BY DEF Destination, Extracting, TypeOK
  <2> QED
    BY <2>1, <2>2, <2>3, <2>4, <2>5, <2>6, <2>7, <2>8, <2>9, <2>10 DEF TypeOK
<1>13. CASE AppEnds
  <2> USE <1>13 DEF AppEnds, Go, Fails, given, disk
  <2>1. (created \in BOOLEAN /\ failed \in BOOLEAN /\ extract \in BOOLEAN)'
    BY Zenon DEF TypeOK
  <2>2. (exe \in Executables)' /\ (temp \in {"none", "empty"})'
    BY DEF TypeOK
  <2>3. (app \in Contents)' /\ (dest \in Contents)' /\ (before \in Contents)'
    BY DEF TypeOK, Contents
  <2>4. (payload \in Files)' /\ (script \in Files)'
    BY DEF TypeOK, Files
  <2>5. (handles \subseteq {"temp", "target", "payload", "script"})' /\ (result \in {0, 1})'
    BY DEF TypeOK
  <2>6. (obstacle \subseteq Roots)'
    BY DEF TypeOK, Roots
  <2>7. (pc \in Locations)'
    BY DEF Locations, Extracting
  <2>8. Checked'
    BY DEF Checked, Extracting
  <2>9. Temporary'
    BY DEF Temporary
  <2>10. Destination'
    BY DEF Destination, Extracting, TypeOK
  <2> QED
    BY <2>1, <2>2, <2>3, <2>4, <2>5, <2>6, <2>7, <2>8, <2>9, <2>10 DEF TypeOK
<1>14. CASE Clean
  <2> USE <1>14 DEF Clean, Go, Fails, given, disk, RemoveTree, Emptied, Inside
  <2>1. (created \in BOOLEAN /\ failed \in BOOLEAN /\ extract \in BOOLEAN)'
    BY Zenon DEF TypeOK
  <2>2. (exe \in Executables)' /\ (temp \in {"none", "empty"})'
    BY DEF TypeOK
  <2>3. (app \in Contents)' /\ (dest \in Contents)' /\ (before \in Contents)'
    BY DEF TypeOK, Contents
  <2>4. (payload \in Files)' /\ (script \in Files)'
    BY DEF TypeOK, Files
  <2>5. (handles \subseteq {"temp", "target", "payload", "script"})' /\ (result \in {0, 1})'
    BY DEF TypeOK
  <2>6. (obstacle \subseteq Roots)'
    BY DEF TypeOK, Roots
  <2>7. (pc \in Locations)'
    BY DEF Locations, Extracting
  <2>8. Checked'
    BY DEF Checked, Extracting
  <2>9. Temporary'
    BY DEF Temporary
  <2>10. Destination'
    BY DEF Destination, Extracting, TypeOK
  <2> QED
    BY <2>1, <2>2, <2>3, <2>4, <2>5, <2>6, <2>7, <2>8, <2>9, <2>10 DEF TypeOK
<1>15. CASE RemoveTemp
  <2> USE <1>15 DEF RemoveTemp, Go, Fails, given, disk, RemoveTree, Emptied, Inside
  <2>1. (created \in BOOLEAN /\ failed \in BOOLEAN /\ extract \in BOOLEAN)'
    BY Zenon DEF TypeOK
  <2>2. (exe \in Executables)' /\ (temp \in {"none", "empty"})'
    BY DEF TypeOK
  <2>3. (app \in Contents)' /\ (dest \in Contents)' /\ (before \in Contents)'
    BY DEF TypeOK, Contents
  <2>4. (payload \in Files)' /\ (script \in Files)'
    BY DEF TypeOK, Files
  <2>5. (handles \subseteq {"temp", "target", "payload", "script"})' /\ (result \in {0, 1})'
    BY DEF TypeOK
  <2>6. (obstacle \subseteq Roots)'
    BY DEF TypeOK, Roots
  <2>7. (pc \in Locations)'
    BY DEF Locations, Extracting
  <2>8. Checked'
    BY DEF Checked, Extracting
  <2>9. Temporary'
    BY DEF Temporary
  <2>10. Destination'
    BY DEF Destination, Extracting, TypeOK
  <2> QED
    BY <2>1, <2>2, <2>3, <2>4, <2>5, <2>6, <2>7, <2>8, <2>9, <2>10 DEF TypeOK
<1>16. ASSUME NEW root \in Roots, ListingThrows(root)
       PROVE  LauncherInv'
  <2> USE <1>16 DEF ListingThrows, Removing, Roots, Fails, given, disk
  <2>1. (created \in BOOLEAN /\ failed \in BOOLEAN /\ extract \in BOOLEAN)'
    BY Zenon DEF TypeOK
  <2>2. (exe \in Executables)' /\ (temp \in {"none", "empty"})'
    BY DEF TypeOK
  <2>3. (app \in Contents)' /\ (dest \in Contents)' /\ (before \in Contents)'
    BY DEF TypeOK, Contents
  <2>4. (payload \in Files)' /\ (script \in Files)'
    BY DEF TypeOK, Files
  <2>5. (handles \subseteq {"temp", "target", "payload", "script"})' /\ (result \in {0, 1})'
    BY DEF TypeOK
  <2>6. (obstacle \subseteq Roots)'
    BY DEF TypeOK, Roots
  <2>7. (pc \in Locations)'
    BY DEF Locations, Extracting
  <2>8. Checked'
    BY DEF Checked, Extracting
  <2>9. Temporary'
    BY DEF Temporary
  <2>10. Destination'
    BY DEF Destination, Extracting, TypeOK
  <2> QED
    BY <2>1, <2>2, <2>3, <2>4, <2>5, <2>6, <2>7, <2>8, <2>9, <2>10 DEF TypeOK
<1>17. CASE Ended \/ UNCHANGED vars
  <2> USE <1>17 DEF Ended, vars, Go, Fails, given, disk
  <2>1. (created \in BOOLEAN /\ failed \in BOOLEAN /\ extract \in BOOLEAN)'
    BY Zenon DEF TypeOK
  <2>2. (exe \in Executables)' /\ (temp \in {"none", "empty"})'
    BY DEF TypeOK
  <2>3. (app \in Contents)' /\ (dest \in Contents)' /\ (before \in Contents)'
    BY DEF TypeOK, Contents
  <2>4. (payload \in Files)' /\ (script \in Files)'
    BY DEF TypeOK, Files
  <2>5. (handles \subseteq {"temp", "target", "payload", "script"})' /\ (result \in {0, 1})'
    BY DEF TypeOK
  <2>6. (obstacle \subseteq Roots)'
    BY DEF TypeOK, Roots
  <2>7. (pc \in Locations)'
    BY DEF Locations, Extracting
  <2>8. Checked'
    BY DEF Checked, Extracting
  <2>9. Temporary'
    BY DEF Temporary
  <2>10. Destination'
    BY DEF Destination, Extracting, TypeOK
  <2> QED
    BY <2>1, <2>2, <2>3, <2>4, <2>5, <2>6, <2>7, <2>8, <2>9, <2>10 DEF TypeOK
<1> QED
  BY <1>1, <1>2, <1>3, <1>4, <1>5, <1>6, <1>7, <1>8, <1>9, <1>10, <1>11, <1>12, <1>13,
     <1>14, <1>15, <1>16, <1>17 DEF Next

LEMMA InvHolds == Spec => []LauncherInv
BY InitInv, StepInv, PTL DEF Spec

\* A payload is only found in an executable that is not damaged, and it is the ZIP.
LEMMA FoundIsBuilt ==
  ASSUME NEW e \in Executables, CarriesPayload(e)
  PROVE  ~e.damaged /\ \E f \in Footers(e) : PayloadRange(f) = e.zip
<1>1. PICK f \in Footers(e) : Sha256(e, PayloadRange(f)) \in ExpectedDigests(e, PayloadRange(f)[1])
  BY DEF CarriesPayload
<1>2. PICK d \in e.digests : d.of[2] # 0 /\ d.of = Sha256(e, PayloadRange(f))
  BY <1>1 DEF ExpectedDigests
<1>3. d.of = e.zip
  BY <1>2, PackedAssumption
<1>4. ~e.damaged
  <2> SUFFICES ASSUME e.damaged PROVE FALSE
    OBVIOUS
  <2>1. Sha256(e, PayloadRange(f)) = <<PayloadRange(f)[1], 0>>
    BY Zenon DEF Sha256
  <2>2. d.of[2] = 0
    BY <1>2, <2>1
  <2> QED
    BY <1>2, <2>2
<1> QED
  BY <1>2, <1>3, <1>4 DEF Sha256

\* The types, for every set of executables. (portable_launcher.cpp)
THEOREM TypeCorrect == Spec => []TypeOK
BY InvHolds, PTL DEF LauncherInv

\* Nothing but the ZIP and the script that were built is ever run, and both are held so
\* that they stay so. (extractEmbeddedZip, writeLauncherScript, runPayload)
THEOREM OnlyTheBuiltRuns == Spec => []RunsOnlyTheBuilt
<1>1. LauncherInv => RunsOnlyTheBuilt
  <2> SUFFICES ASSUME LauncherInv, pc \in {"expand", "app"} PROVE RunsOnlyTheBuilt
    BY DEF RunsOnlyTheBuilt
  <2>1. CarriesPayload(exe) /\ exe \in Executables
    BY DEF LauncherInv, Checked, TypeOK, Extracting
  <2>2. ~exe.damaged /\ \E f \in Footers(exe) : PayloadRange(f) = exe.zip
    BY <2>1, FoundIsBuilt
  <2> QED
    BY <2>2 DEF RunsOnlyTheBuilt, LauncherInv, Checked, Extracting
<1> QED
  BY <1>1, InvHolds, PTL

\* At the end there is no temporary folder, and the destination is whole or as it was,
\* unless the system prevented it; but when listing the destination throws, the process ends
\* and the temporary folder stays. (wWinMain, removeTreeIfSafe)
THEOREM LaunchLeavesNothing == Spec => []LeavesNothing
<1>1. LauncherInv => LeavesNothing
  BY DEF LauncherInv, LeavesNothing, TypeOK, Temporary, Destination
<1> QED
  BY <1>1, InvHolds, PTL

\* A set of numbers has a least element, since < is well founded.
LEMMA LeastNumber ==
  ASSUME NEW T, T \subseteq Nat, T # {}
  PROVE  \E n \in T : \A m \in T : n <= m
<1> DEFINE R == OpToRel(<, Nat)
<1>1. IsWellFoundedOn(R, Nat)
  BY NatLessThanWellFounded
<1>2. PICK n \in T : \A m \in T : ~(<<m, n>> \in R)
  BY <1>1, WFMin
<1>3. \A m \in T : ~(m < n)
  BY <1>2 DEF OpToRel
<1> QED
  BY <1>3

\* Of an executable that was packed right, the footer of the packaging is the last one
\* before the signature. (locatePayloadFooter)
LEMMA PackedFooter ==
  ASSUME NEW e \in Executables, PackedRight(e)
  PROVE  LET f == [at |-> e.zip[1] + e.zip[2], length |-> e.zip[2]]
         IN  f \in Footers(e) /\ PayloadRange(f) = e.zip
<1> DEFINE at == e.zip[1] + e.zip[2]
           f == [at |-> at, length |-> e.zip[2]]
           signature == IF e.certificate = 0 THEN e.size ELSE e.certificate
<1>1. e.zip \in Nat \X Nat /\ e.zip[2] > 0 /\ e.certificate <= e.size
  BY LauncherAssumption DEF PackedRight
<1>2. e.size \in Nat /\ e.certificate \in Nat /\ FooterSize \in Nat /\ SearchWindow \in Nat
  BY LauncherAssumption
<1>3. f \in e.footers /\ signature \in at + FooterSize .. at + SearchWindow
  BY DEF PackedRight
<1>4. \A g \in e.footers \ {f} : g.at < at \/ g.at >= signature
  BY DEF PackedRight
<1>5. LogicalEnd(e) = signature
  BY <1>1, <1>2 DEF LogicalEnd
<1>6. at \in Nat /\ signature \in Nat /\ e.zip[2] \in Nat /\ e.zip[1] \in Nat
  BY <1>1, <1>2
<1>7. f.at = at /\ f.length = e.zip[2]
  OBVIOUS
<1>8. Plausible(e, f)
  BY <1>1, <1>2, <1>3, <1>5, <1>6, <1>7 DEF Plausible
<1>9. \A g \in e.footers : Plausible(e, g) => g.at <= f.at
  <2> SUFFICES ASSUME NEW g \in e.footers, Plausible(e, g), g # f
               PROVE  g.at <= f.at
    BY <1>6, <1>7
  <2>1. g.at \in Nat /\ FooterSize \in Nat \ {0}
    BY LauncherAssumption
  <2>2. g.at + FooterSize <= signature
    BY <1>5 DEF Plausible
  <2>3. g.at < at
    BY <1>4, <1>6, <2>1, <2>2
  <2> QED
    BY <1>6, <1>7, <2>1, <2>3
<1>10. PayloadRange(f) = e.zip
  BY <1>1, <1>6, <1>7 DEF PayloadRange
<1> QED
  BY <1>3, <1>8, <1>9, <1>10 DEF Footers

\* The launcher finds in an executable that was packed right the ZIP and its checksum,
\* whatever else looks like a footer or like the prefix. (extractEmbeddedZip)
LEMMA PackedIsFound ==
  ASSUME NEW e \in Executables, PackedRight(e)
  PROVE  CarriesPayload(e)
<1> DEFINE valid == {d \in e.digests : d.of[2] # 0 /\ d.at < e.zip[1]}
           places == {d.at : d \in valid}
<1>1. PICK f \in Footers(e) : PayloadRange(f) = e.zip
  BY PackedFooter
<1>2. PICK d \in valid : TRUE
  BY DEF PackedRight
<1>3. places \subseteq Nat /\ places # {}
  BY <1>2, LauncherAssumption
<1>4. PICK n \in places : \A m \in places : n <= m
  BY <1>3, LeastNumber
<1>5. PICK v \in valid : v.at = n
  BY <1>4
<1>6. \A w \in valid : v.at <= w.at
  BY <1>4, <1>5
<1>7. v.of \in ExpectedDigests(e, e.zip[1])
  BY <1>6, Zenon DEF ExpectedDigests
<1>8. v.of = e.zip
  BY PackedAssumption
<1>9. Sha256(e, e.zip) = e.zip
  BY DEF Sha256, PackedRight
<1> QED
  BY <1>1, <1>7, <1>8, <1>9 DEF CarriesPayload

\* While nothing has failed, the launcher of an executable that was packed right has not
\* come to its cleanup without an answer of the app.
Answering == PackedRight(exe) /\ ~failed /\ pc \in {"clean", "removeTemp", "exit"} => result = 0

LEMMA AnsweringStep == LauncherInv /\ Answering /\ [Next]_vars => Answering'
<1> SUFFICES ASSUME LauncherInv, Answering, [Next]_vars, PackedRight(exe)', ~failed',
                    pc' \in {"clean", "removeTemp", "exit"}
             PROVE  result' = 0
  BY DEF Answering
<1>1. exe' = exe
  BY Zenon DEF Next, vars, given, Go, CreateTempDirectory, ProtectTempDirectory,
     CreateFreshExtractionDirectory, CreateAppDirectory, FindPayload, WritePayload, WriteScript,
     WriteFile, LockPayload, LockScript, LockFile, Change, StartScript, ExpandArchive, AppEnds,
     Clean, RemoveTemp, ListingThrows, Ended
<1>2. PackedRight(exe) /\ CarriesPayload(exe)
  BY <1>1, PackedIsFound DEF LauncherInv, TypeOK
<1>3. CASE CreateTempDirectory
  BY <1>2, <1>3 DEF CreateTempDirectory, Answering, Go, Fails
<1>4. CASE ProtectTempDirectory
  BY <1>2, <1>4 DEF ProtectTempDirectory, Answering, Go, Fails
<1>5. CASE CreateFreshExtractionDirectory
  BY <1>2, <1>5 DEF CreateFreshExtractionDirectory, Answering, Go, Fails
<1>6. CASE CreateAppDirectory
  BY <1>2, <1>6 DEF CreateAppDirectory, Answering, Go, Fails
<1>7. CASE FindPayload
  BY <1>2, <1>7 DEF FindPayload, Answering, Go, Fails
<1>8. CASE WritePayload
  BY <1>2, <1>8 DEF WritePayload, WriteFile, Answering, Go, Fails
<1>9. CASE WriteScript
  BY <1>2, <1>9 DEF WriteScript, WriteFile, Answering, Go, Fails
<1>10. CASE LockPayload
  BY <1>2, <1>10 DEF LockPayload, LockFile, Answering, Go, Fails
<1>11. CASE LockScript
  BY <1>2, <1>11 DEF LockScript, LockFile, Answering, Go, Fails
<1>12. CASE Change
  BY <1>2, <1>12 DEF Change, Answering, Go, Fails
<1>13. CASE StartScript
  BY <1>2, <1>13 DEF StartScript, Answering, Go, Fails
<1>14. CASE ExpandArchive
  BY <1>2, <1>14 DEF ExpandArchive, Answering, Go, Fails
<1>15. CASE AppEnds
  BY <1>2, <1>15 DEF AppEnds, Answering, Go, Fails
<1>16. CASE Clean
  BY <1>2, <1>16 DEF Clean, Answering, Go, Fails
<1>17. CASE RemoveTemp
  BY <1>2, <1>17 DEF RemoveTemp, Answering, Go, Fails
<1>18. ASSUME NEW root \in Roots, ListingThrows(root)
       PROVE  FALSE
  BY <1>18 DEF ListingThrows
<1>19. CASE Ended \/ UNCHANGED vars
  BY <1>2, <1>19 DEF Ended, vars, Answering
<1> QED
  BY Zenon, <1>3, <1>4, <1>5, <1>6, <1>7, <1>8, <1>9, <1>10, <1>11, <1>12,
     <1>13, <1>14, <1>15, <1>16, <1>17, <1>18, <1>19 DEF Next

\* An executable that the packaging wrote, signed or not, starts the app: what keeps it from
\* that is a call of the system that fails, the app itself, or a destination that exists.
\* (portable_payload.cpp, portable_launcher.cpp, package_gui_single_exe.ps1)
THEOREM SoundOneAnswers == Spec => []SoundOneStarts
<1>1. Init => Answering
  BY DEF Init, Answering
<1>2. LauncherInv /\ Answering /\ [Next]_vars => Answering'
  BY AnsweringStep
<1>3. LauncherInv /\ Answering => SoundOneStarts
  BY DEF LauncherInv, Answering, SoundOneStarts
<1> QED
  BY <1>1, <1>2, <1>3, InvHolds, PTL DEF Spec
=============================================================================
