--------------------------- MODULE PortableLauncher ---------------------------
(***************************************************************************)
(* The portable Windows app: an executable that carries a ZIP and its       *)
(* checksum, unpacks it into a new folder, and runs the app from there or   *)
(* leaves the folder to the user (--extract).  Every call of the system may *)
(* fail; what it leaves then is what the cleanup has to deal with.          *)
(*                                                                         *)
(* Positions in the executable are small numbers, a checksum is the range   *)
(* that it was taken of, and a file is none, a part, whole, or changed by   *)
(* the disk or another program while nothing holds it open.  Left out: the  *)
(* names, texts and the --test switch, which only silences the texts.       *)
(***************************************************************************)
EXTENDS Integers

CONSTANTS
    Executables,    \* see Executable
    FooterSize,     \* of the marker and the length that follow the ZIP
    SearchWindow    \* how far before the end the footer is looked for

Kept == "kept"                     \* a folder of the user with the name of the destination
Contents == {"none", "empty", "part", "whole", Kept}
Files == {"none", "part", "whole", "changed"}
Roots == {"temp", "dest"}

\* certificate: where the signature starts, 0 for none.  footers: where the marker of a
\* footer stands and the length after it.  digests: where the prefix of a checksum stands
\* and what follows, 0 if that is no checksum.  zip: where the packaging put the ZIP.
\* damaged: the bytes of the ZIP were changed afterwards.
Executable ==
    [size : Nat, certificate : Nat, footers : SUBSET [at : Nat, length : Nat],
     digests : SUBSET [at : Nat, of : Nat \X Nat], zip : Nat \X Nat, damaged : BOOLEAN]

ASSUME LauncherAssumption ==
    /\ FooterSize \in Nat \ {0} /\ SearchWindow \in Nat
    /\ \A exe \in Executables :
        /\ {exe.size, exe.certificate} \subseteq Nat /\ exe.damaged \in BOOLEAN
        /\ \A f \in exe.footers : {f.at, f.length} \subseteq Nat
        /\ \A d \in exe.digests : d.at \in Nat /\ d.of \in Nat \X Nat

\* The packaging writes one checksum into an executable, that of the ZIP it carries
\* (packaging/windows/package_gui_single_exe.ps1:193-218); the bare prefix may stand in it
\* elsewhere.
ASSUME PackedAssumption ==
    \A e \in Executables : \A d \in e.digests : d.of[2] # 0 => d.of = e.zip

VARIABLES
    exe,            \* the executable that was started
    extract,        \* --extract was given
    pc,             \* the next call of wWinMain
    temp,           \* the temporary folder: "none" or "empty" (but for what follows)
    app,            \* the folder "app" in it
    dest,           \* the folder that --extract names
    payload,        \* payload.zip in the temporary folder
    script,         \* launch.ps1 in the temporary folder
    handles,        \* what is held open
    created,        \* extract_directory_created
    result,         \* what wWinMain returns at its end: 0 or 1
    failed,         \* to observe: a call of the system failed, or the app did
    obstacle,       \* to observe: the folders that the system kept it from removing
    before          \* to observe: the destination when it was started

disk == <<temp, app, dest, payload, script>>
vars == <<exe, extract, pc, disk, handles, created, result, failed, obstacle, before>>
given == <<exe, extract, before>>

Init ==
    /\ exe \in Executables /\ extract \in BOOLEAN
    /\ dest \in {"none", Kept} /\ before = dest
    /\ pc = "createTemp" /\ temp = "none" /\ app = "none" /\ payload = "none"
    /\ script = "none" /\ handles = {} /\ created = FALSE /\ result = 1
    /\ failed = FALSE /\ obstacle = {}

(***************************************************************************)
(* What the executable carries.                                             *)
(***************************************************************************)
\* logicalFileEnd: where the signature starts, if the header names one in the file.
LogicalEnd(e) == IF e.certificate \in 1..e.size THEN e.certificate ELSE e.size

Plausible(e, f) ==
    /\ f.at + FooterSize <= LogicalEnd(e) /\ f.at + SearchWindow >= LogicalEnd(e)
    /\ f.length \in 1..f.at

\* Mutant: the footer is expected right before the signature.
FootersAtEnd(e) == {f \in e.footers : Plausible(e, f) /\ f.at + FooterSize = LogicalEnd(e)}

\* locatePayloadFooter: the last one, since signing may put padding after it.
Footers(e) ==
    {f \in e.footers : Plausible(e, f) /\
                       \A g \in e.footers : Plausible(e, g) => g.at <= f.at}

PayloadRange(f) == <<f.at - f.length, f.length>>

\* readExpectedPayloadDigest: the first checksum before the ZIP.
ExpectedDigests(e, start) ==
    LET valid == {d \in e.digests : d.of[2] # 0 /\ d.at < start}
    IN {d.of : d \in {v \in valid : \A w \in valid : v.at <= w.at}}

\* A range of a damaged ZIP has no checksum that was ever written.
Sha256(e, range) == IF e.damaged THEN <<range[1], 0>> ELSE range

CarriesPayload(e) ==
    \E f \in Footers(e) : Sha256(e, PayloadRange(f)) \in ExpectedDigests(e, PayloadRange(f)[1])

(***************************************************************************)
(* Folders.                                                                 *)
(***************************************************************************)
Inside(root) == IF root = "dest" THEN IF extract THEN {"target"} ELSE {}
                ELSE {"temp", "payload", "script"} \cup IF extract THEN {} ELSE {"target"}

Emptied(root) ==
    IF root = "temp"
    THEN temp' = "none" /\ app' = "none" /\ payload' = "none" /\ script' = "none" /\ UNCHANGED dest
    ELSE dest' = "none" /\ UNCHANGED <<temp, app, payload, script>>

\* removeTreeIfSafe, when it returns: the folder is gone or, if something in it is held open,
\* or the path leads through a link, or a call fails, it is left.
RemoveTree(root, held) ==
    \/ /\ Inside(root) \cap held = {}
       /\ Emptied(root)
       /\ UNCHANGED obstacle
    \/ /\ UNCHANGED disk
       /\ obstacle' = IF Inside(root) \cap held = {} THEN obstacle \cup {root} ELSE obstacle

Fails == failed' = TRUE

(***************************************************************************)
(* wWinMain up to the payload.                                              *)
(***************************************************************************)
Go(from, to) == pc = from /\ pc' = to /\ UNCHANGED given

\* A folder that turns out to lie behind a link after its creation is left there.
CreateTempDirectory ==
    \/ /\ Go("createTemp", "protectTemp")
       /\ temp' = "empty"
       /\ UNCHANGED <<app, dest, payload, script, handles, created, result, failed, obstacle>>
    \/ /\ Go("createTemp", "exit") /\ Fails
       /\ temp' \in {"none", "empty"}
       /\ obstacle' = IF temp' = "empty" THEN {"temp"} ELSE {}
       /\ UNCHANGED <<app, dest, payload, script, handles, created, result>>

ProtectTempDirectory ==
    \/ /\ Go("protectTemp", "target")
       /\ handles' = {"temp"}
       /\ UNCHANGED <<disk, created, result, failed, obstacle>>
    \/ /\ Go("protectTemp", "exit") /\ Fails
       /\ RemoveTree("temp", handles)
       /\ UNCHANGED <<handles, created, result>>

\* createFreshExtractionDirectory: the destination must not exist.  After its creation it
\* may turn out to lie behind a link, or not to open: then it is left empty.
CreateFreshExtractionDirectory ==
    /\ extract
    /\ \/ /\ dest = "none"
          /\ Go("target", "payload")
          /\ dest' = "empty" /\ handles' = handles \cup {"target"} /\ created' = TRUE
          /\ UNCHANGED <<temp, app, payload, script, result, failed, obstacle>>
       \/ /\ Go("target", "removeTemp") /\ Fails
          /\ dest' \in {dest} \cup IF dest = "none" THEN {"empty"} ELSE {}
          /\ obstacle' = IF dest' # dest THEN obstacle \cup {"dest"} ELSE obstacle
          /\ handles' = handles \ {"temp"}
          /\ UNCHANGED <<temp, app, payload, script, created, result>>

\* Without --extract, "app" in the temporary folder; what fails is thrown.
CreateAppDirectory ==
    /\ ~extract
    /\ \/ /\ Go("target", "payload")
          /\ app' = "empty" /\ handles' = handles \cup {"target"}
          /\ UNCHANGED failed
       \/ /\ Go("target", "clean") /\ Fails
          /\ app' \in {"none", "empty"} /\ UNCHANGED handles
    /\ UNCHANGED <<temp, dest, payload, script, created, result, obstacle>>

(***************************************************************************)
(* extractEmbeddedZip and writeLauncherScript: write a new file, close it,  *)
(* open it again so that nobody can write to it, and compare.               *)
(***************************************************************************)
FindPayload ==
    /\ \/ Go("payload", "writePayload") /\ CarriesPayload(exe) /\ UNCHANGED failed
       \/ Go("payload", "clean") /\ ~CarriesPayload(exe) /\ UNCHANGED failed
       \/ Go("payload", "clean") /\ Fails
    /\ UNCHANGED <<disk, handles, created, result, obstacle>>

WriteFile(from, to, file) ==
    /\ \/ Go(from, to) /\ file' = "whole" /\ UNCHANGED failed
       \/ Go(from, "clean") /\ Fails /\ file' \in {"none", "part"}
    /\ UNCHANGED <<temp, app, dest, handles, created, result, obstacle>>

WritePayload == WriteFile("writePayload", "lockPayload", payload) /\ UNCHANGED script
WriteScript == WriteFile("script", "lockScript", script) /\ UNCHANGED payload

\* Mutant: what is on the disk is not compared again.
LockFileUnread(from, to, name, file) ==
    /\ \/ Go(from, to) /\ handles' = handles \cup {name} /\ UNCHANGED failed
       \/ Go(from, "clean") /\ Fails /\ handles' \in {handles, handles \cup {name}}
    /\ UNCHANGED <<disk, created, result, obstacle>>

LockFile(from, to, name, file) ==
    /\ \/ /\ Go(from, to) /\ file = "whole"
          /\ handles' = handles \cup {name} /\ UNCHANGED failed
       \/ Go(from, "clean") /\ Fails /\ handles' \in {handles, handles \cup {name}}
    /\ UNCHANGED <<disk, created, result, obstacle>>

LockPayload == LockFile("lockPayload", "script", "payload", payload)
LockScript == LockFile("lockScript", "run", "script", script)

\* Between closing and opening again, what lies on the disk may change.
Change ==
    /\ \/ /\ payload = "whole" /\ "payload" \notin handles
          /\ payload' = "changed" /\ UNCHANGED script
       \/ /\ script = "whole" /\ "script" \notin handles
          /\ script' = "changed" /\ UNCHANGED payload
    /\ UNCHANGED <<given, pc, temp, app, dest, handles, created, result, failed, obstacle>>

(***************************************************************************)
(* runPayload: the script expands the ZIP and, without --extract, runs the  *)
(* app to its end.                                                          *)
(***************************************************************************)
Target == IF extract THEN dest ELSE app
FillTarget(contents) ==
    IF extract THEN dest' = contents /\ UNCHANGED app ELSE app' = contents /\ UNCHANGED dest

StartScript ==
    /\ \/ Go("run", "expand") /\ UNCHANGED failed
       \/ Go("run", "clean") /\ Fails
    /\ UNCHANGED <<disk, handles, created, result, obstacle>>

ExpandArchive ==
    /\ \/ /\ pc = "expand" /\ Target = "empty" /\ FillTarget("part")
          /\ UNCHANGED <<given, pc, result, failed>>
       \/ /\ Go("expand", IF extract THEN "clean" ELSE "app")
          /\ FillTarget("whole")
          /\ result' = IF extract THEN 0 ELSE result
          /\ UNCHANGED failed
       \/ Go("expand", "clean") /\ Fails /\ UNCHANGED <<app, dest, result>>
    /\ UNCHANGED <<temp, payload, script, handles, created, obstacle>>

\* The app ends, and its exit code is that of the launcher.
AppEnds ==
    /\ Go("app", "clean")
    /\ result' \in {0, 1}
    /\ failed' = (failed \/ result' = 1)
    /\ UNCHANGED <<disk, handles, created, obstacle>>

(***************************************************************************)
(* The cleanup at the end of wWinMain.                                      *)
(***************************************************************************)
\* Mutant: the destination is removed while its handle is still open.
CleanHeld ==
    /\ Go("clean", "removeTemp")
    /\ handles' = {}
    /\ IF created /\ result # 0 THEN RemoveTree("dest", handles)
       ELSE UNCHANGED <<disk, obstacle>>
    /\ UNCHANGED <<created, result, failed>>

\* The destination is removed only if this run made it, and did not succeed.
Clean ==
    /\ Go("clean", "removeTemp")
    /\ handles' = {}
    /\ IF created /\ result # 0 THEN RemoveTree("dest", handles \ {"target"})
       ELSE UNCHANGED <<disk, obstacle>>
    /\ UNCHANGED <<created, result, failed>>

RemoveTemp ==
    /\ Go("removeTemp", "exit")
    /\ RemoveTree("temp", handles)
    /\ UNCHANGED <<handles, created, result, failed>>

Removing(root) ==
    \/ root = "temp" /\ pc \in {"protectTemp", "removeTemp"}
    \/ root = "dest" /\ pc = "clean" /\ created /\ result # 0

\* removeTreeIfSafe may also not return: its range-for takes the next entry of a folder with
\* the operator++ that throws when the listing fails.  No caller catches that, so the process
\* ends there, without the rest of the cleanup.
ListingThrows(root) ==
    /\ Removing(root)
    /\ pc' = "terminated" /\ handles' = {} /\ Fails
    /\ obstacle' = obstacle \cup {root}
    /\ UNCHANGED <<given, disk, created, result>>

Ended == pc \in {"exit", "terminated"} /\ UNCHANGED vars

Next ==
    \/ CreateTempDirectory \/ ProtectTempDirectory
    \/ CreateFreshExtractionDirectory \/ CreateAppDirectory
    \/ FindPayload \/ WritePayload \/ LockPayload \/ WriteScript \/ LockScript \/ Change
    \/ StartScript \/ ExpandArchive \/ AppEnds
    \/ Clean \/ RemoveTemp \/ (\E root \in Roots : ListingThrows(root)) \/ Ended

Spec == Init /\ [][Next]_vars

(***************************************************************************)
(* Properties.                                                              *)
(***************************************************************************)
\* The types.
TypeOK ==
    /\ exe \in Executables /\ extract \in BOOLEAN /\ created \in BOOLEAN /\ failed \in BOOLEAN
    /\ temp \in {"none", "empty"} /\ app \in Contents /\ dest \in Contents /\ before \in Contents
    /\ payload \in Files /\ script \in Files
    /\ handles \subseteq {"temp", "target", "payload", "script"}
    /\ result \in {0, 1} /\ obstacle \subseteq Roots

\* The ZIP is unpacked, and the app run, only from the bytes that the packaging put into
\* this executable and from the launcher's own script, both held so that they stay so
\* (the files unpacked into the target are not compared again):
\* "If the ZIP was changed or damaged, it won't run." (packaging/windows/README.md)
RunsOnlyTheBuilt ==
    pc \in {"expand", "app"} =>
        /\ ~exe.damaged /\ \E f \in Footers(exe) : PayloadRange(f) = exe.zip
        /\ payload = "whole" /\ script = "whole"
        /\ {"payload", "script", "target"} \subseteq handles

\* At the end the temporary folder is gone, and the destination holds the whole app, or is
\* as it was before: what cannot be removed is only what the system keeps it from removing
\* (removeTreeIfSafe), and a folder that this run did not make is never touched.  One case
\* leaves more: when the destination cannot be listed, the exception ends the process before
\* the temporary folder is removed, which nothing kept from being removed.
LeavesNothing ==
    pc \in {"exit", "terminated"} =>
        /\ \/ temp = "none" \/ "temp" \in obstacle
           \/ pc = "terminated" /\ "dest" \in obstacle
        /\ IF extract /\ result = 0 THEN dest = "whole"
           ELSE dest = before \/ ("dest" \in obstacle /\ before = "none")

\* As the packaging writes it (package_gui_single_exe.ps1): the checksum into the launcher,
\* then the ZIP and its footer at the end; signing adds padding and the signature.  The
\* marker may stand in the launcher, the ZIP and the signature as well.
PackedRight(e) ==
    /\ ~e.damaged /\ e.certificate <= e.size /\ e.zip[2] > 0
    /\ \E d \in e.digests : d.of = e.zip /\ d.at < e.zip[1]
    /\ LET at == e.zip[1] + e.zip[2]
           packed == [at |-> at, length |-> e.zip[2]]
           signature == IF e.certificate = 0 THEN e.size ELSE e.certificate
       IN /\ packed \in e.footers /\ signature \in at + FooterSize .. at + SearchWindow
          /\ \A f \in e.footers \ {packed} : f.at < at \/ f.at >= signature

\* An executable that was packed right, signed or not, starts: only a call of the system
\* that fails, the app's own error, or a destination that exists can prevent it.
SoundOneStarts ==
    pc = "exit" /\ PackedRight(exe) /\ result # 0 => failed
=============================================================================
