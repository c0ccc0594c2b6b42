-------------------------- MODULE PreviewCalibration --------------------------
(***************************************************************************)
(* The alignment of gaze with the stairs: collecting target poses, the      *)
(* alignment in use, and the saved calibrations (PreviewPanel,              *)
(* CalibrationProfileStore and PreviewCalibration.cpp).  Everything runs in *)
(* the window's thread; the live worker sends poses, and draws gaze with    *)
(* the transform it was given last.                                         *)
(*                                                                         *)
(* A pose is its position on a line.  An alignment is the pair of the stair *)
(* position it was solved for and the pose that the samples agree with, or  *)
(* Identity.  Of a saved calibration remain its id, the stair position, the *)
(* alignment, whether it has a measured quality, and whether it is hidden.  *)
(* Left out: texts, names and notes (an incomplete entry is refused), and   *)
(* the coordinate details, so that whether they match, and what the user    *)
(* answers when they do not, are inputs of a step.                          *)
(***************************************************************************)
EXTENDS Integers, Sequences

CONSTANTS
    Positions,          \* of the target
    Stairs,             \* stair positions: the measured one, its former estimate, others
    Tolerance,          \* translation_tolerance_m
    RequiredSamples,    \* required_samples
    Imports,            \* calibrations in files that the user may import
    EarlierStores,      \* what an earlier version may have stored
    Foreign,            \* stored entries that this version cannot read
    MaxProfiles         \* bound: no more calibrations are created than this

ASSUME CalibrationAssumption ==
    /\ Positions \subseteq Int /\ Tolerance \in Nat
    /\ RequiredSamples \in Nat \ {0} /\ MaxProfiles \in Nat
    /\ {"measured", "estimate"} \subseteq Stairs

VARIABLES
    state,          \* calibration_state_
    samples,        \* calibration_samples_
    transform,      \* automatic_gaze_transform_
    sourceId,       \* calibration_source_id_
    hasQuality,     \* calibration_quality_ has samples
    live,           \* the transform of the live worker, or NoWorker
    profiles,       \* calibration_profiles_
    selected,       \* the id of the entry shown
    stored,         \* settings: what was saved last, and the unreadable entries
    label           \* what the quality text describes

session == <<state, samples, transform, sourceId, hasQuality>>
store == <<profiles, selected, stored>>
calibrationVars == <<session, live, store, label>>

Identity == [stair |-> "none", pose |-> 0]
NoWorker == [stair |-> "no worker", pose |-> 0]
NoId == 0 - 1
BuiltInId == 0

Alignments == [stair : Stairs \cup {"none"}, pose : Int]
Profiles == [id : Nat, stair : Stairs, gaze : Alignments, hasQuality : BOOLEAN, retired : BOOLEAN]

HasGazeCalibration(p) == p.hasQuality \/ p.gaze # Identity

\* Files and stores were written by the app.  An alignment is kept with the stair
\* position it was solved for, no two entries have the same id (newProfileId), and the
\* built-in setup has an alignment only if it was measured: load() would move another
\* one away from the stair position it was made for.
AlignedToStair(p) == HasGazeCalibration(p) => p.gaze.stair = p.stair
ASSUME StoresAssumption ==
    /\ \A p \in Imports : p \in Profiles /\ AlignedToStair(p)
    /\ \A ps \in EarlierStores :
         /\ ps \in Seq(Profiles)
         /\ \A i, j \in 1..Len(ps) : ps[i].id = ps[j].id => i = j
         /\ \A i \in 1..Len(ps) :
              /\ AlignedToStair(ps[i])
              /\ ps[i].id = BuiltInId /\ ~ps[i].hasQuality => ps[i].gaze = Identity

\* CalibrationProfileStore::defaultProfile: a measured stair, and no gaze.
DefaultProfile ==
    [id |-> BuiltInId, stair |-> "measured", gaze |-> Identity,
     hasQuality |-> FALSE, retired |-> FALSE]

InUse == state \in {"automatic", "saved"}                 \* calibrationInUse
GazeTransform == IF InUse THEN transform ELSE Identity

(***************************************************************************)
(* CalibrationProfileStore.                                                 *)
(***************************************************************************)
Ids(ps) == {ps[i].id : i \in DOMAIN ps}
Find(ps, id) == ps[CHOOSE i \in DOMAIN ps : ps[i].id = id /\ \A j \in 1..i-1 : ps[j].id # id]
Replace(ps, id, p) == [i \in DOMAIN ps |-> IF ps[i] = Find(ps, id) THEN p ELSE ps[i]]

\* The built-in entry comes first when none is stored; one with the estimated stair
\* position moves to the measured one if no calibration was made with it.
Load(ps) ==
    IF BuiltInId \notin Ids(ps) THEN <<DefaultProfile>> \o ps
    ELSE LET p == Find(ps, BuiltInId)
         IN IF ~p.hasQuality /\ p.stair = "estimate"
            THEN Replace(ps, BuiltInId, [p EXCEPT !.stair = "measured"])
            ELSE ps

\* Entries that load() could not read are written back.
Save(ps) == stored' = [profiles |-> ps, foreign |-> stored.foreign]

\* newProfileId: the name with the first suffix that no entry has.
NewProfileId(ps) == CHOOSE id \in 1..Len(ps)+1 : id \notin Ids(ps) /\
                        \A j \in 1..id-1 : j \in Ids(ps)

(***************************************************************************)
(* The list of saved calibrations: hidden ones are shown while selected.    *)
(***************************************************************************)
Listed(ps, desired) == {i \in DOMAIN ps : ~ps[i].retired \/ ps[i].id = desired}

Shown(ps, desired) ==
    LET listed == Listed(ps, desired)
    IN IF \E i \in listed : ps[i].id = desired THEN desired
       ELSE IF listed = {} THEN NoId
       ELSE ps[CHOOSE i \in listed : \A j \in listed : i <= j].id

\* refreshCalibrationProfileUi.  The text describes the entry shown only while no
\* calibration is in use.
RefreshUi(ps, desired) ==
    /\ selected' = Shown(ps, desired)
    /\ label' = IF InUse THEN label ELSE "selected"

HasSelected == selected \in Ids(profiles)
Selected == IF HasSelected THEN Find(profiles, selected) ELSE DefaultProfile

CalibrationInit ==
    /\ state = "uncalibrated" /\ samples = <<>> /\ transform = Identity
    /\ sourceId = NoId /\ hasQuality = FALSE /\ live = NoWorker
    /\ \E ps \in EarlierStores :
         stored = [profiles |-> ps, foreign |-> Foreign] /\ profiles = Load(ps)
    /\ selected = Shown(profiles, NoId) /\ label = "selected"

(***************************************************************************)
(* The live worker.                                                         *)
(***************************************************************************)
startPreview ==
    /\ live = NoWorker
    /\ live' = GazeTransform
    /\ samples' = <<>>
    /\ UNCHANGED <<state, transform, sourceId, hasQuality, store, label>>

PreviewFinished ==
    /\ live # NoWorker
    /\ live' = NoWorker
    /\ UNCHANGED <<session, store, label>>

\* setGazeTransform, for the worker if there is one.
Draw(t) == live' = IF live = NoWorker THEN NoWorker ELSE t

(***************************************************************************)
(* Collecting.                                                              *)
(***************************************************************************)
\* The button needs a live preview that does not collect.  When the user is asked and
\* declines, the text says so whatever is in use.
BeginCalibration(confirmed) ==
    /\ live # NoWorker /\ state # "collecting"
    /\ IF confirmed
       THEN state' = "collecting" /\ samples' = <<>> /\ label' = "progress"
       ELSE label' = "declined" /\ UNCHANGED <<state, samples>>
    /\ UNCHANGED <<transform, sourceId, hasQuality, live, store>>

WithinTolerance(a, b) == a - b <= Tolerance /\ b - a <= Tolerance

\* Mutant: the worker is not told that the poses were rejected.
SolvedOrLeft(poses, anglesAgree) ==
    /\ samples' = <<>>
    /\ IF anglesAgree
       THEN /\ state' = "automatic"
            /\ transform' = [stair |-> Selected.stair, pose |-> Head(poses)]
            /\ sourceId' = IF HasSelected THEN selected ELSE NoId
            /\ hasQuality' = TRUE /\ Draw(transform') /\ label' = "in use"
       ELSE /\ state' = "uncalibrated" /\ hasQuality' = FALSE /\ label' = "rejected"
            /\ UNCHANGED <<transform, sourceId, live>>

\* The last sample came: positions and angles are averaged for the stair position of
\* the entry shown.  Angles are left out of a pose, so whether they agree is an input.
Solved(poses, anglesAgree) ==
    /\ samples' = <<>>
    /\ IF anglesAgree
       THEN /\ state' = "automatic"
            /\ transform' = [stair |-> Selected.stair, pose |-> Head(poses)]
            /\ sourceId' = IF HasSelected THEN selected ELSE NoId
            /\ hasQuality' = TRUE
            /\ Draw(transform')
            /\ label' = "in use"
       ELSE /\ state' = "uncalibrated"
            /\ hasQuality' = FALSE
            /\ Draw(Identity)
            /\ label' = "rejected"
            /\ UNCHANGED <<transform, sourceId>>

\* handleTargetPose: a target that is lost, or has moved from the first sample, starts
\* the collection again.
HandleTargetPose(tracked, pose, anglesAgree) ==
    /\ live # NoWorker /\ state = "collecting"
    /\ LET moved == samples # <<>> /\ ~WithinTolerance(samples[1], pose)
           poses == IF moved THEN <<pose>> ELSE Append(samples, pose)
       IN IF ~tracked
          THEN samples' = <<>> /\ UNCHANGED <<state, transform, sourceId, hasQuality, live, label>>
          ELSE IF moved \/ Len(poses) < RequiredSamples
          THEN /\ samples' = poses
               /\ label' \in IF moved THEN {label} ELSE {label, "progress"}   \* at most every 100 ms
               /\ UNCHANGED <<state, transform, sourceId, hasQuality, live>>
          ELSE Solved(poses, anglesAgree)
    /\ UNCHANGED <<store>>

ClearCalibration ==
    /\ InUse
    /\ state' = "uncalibrated" /\ samples' = <<>> /\ transform' = Identity
    /\ sourceId' = NoId /\ hasQuality' = FALSE
    /\ Draw(Identity)
    /\ label' = "none"
    /\ UNCHANGED <<store>>

(***************************************************************************)
(* Saved calibrations.                                                      *)
(***************************************************************************)
\* Selecting only shows an entry.
SelectProfile(i) ==
    /\ i \in Listed(profiles, selected)
    /\ RefreshUi(profiles, profiles[i].id)
    /\ UNCHANGED <<session, live, profiles, stored>>

\* One without a measured alignment is refused.  With details that do not match the
\* user is asked once, and the entry remembers (which saves all of them).
ApplySelectedProfile(asked) ==
    /\ HasSelected /\ HasGazeCalibration(Selected)
    /\ IF asked THEN Save(profiles) ELSE UNCHANGED stored
    /\ state' = "saved" /\ transform' = Selected.gaze /\ sourceId' = selected
    /\ hasQuality' = Selected.hasQuality
    /\ Draw(transform')
    /\ label' = "in use"
    /\ UNCHANGED <<samples, profiles, selected>>

\* Mutant: whatever measured entry is shown is overwritten.
CreateNewUnlessMeasured == ~HasSelected \/ ~Selected.hasQuality \/ Selected.retired

\* saveSessionCalibrationProfile.  Only the entry that the calibration in use came from
\* is changed, and not if it is hidden or was never measured.
CreateNew ==
    ~HasSelected \/ selected # sourceId \/ ~Selected.hasQuality \/ Selected.retired

\* Mutant: the stair position is that of the entry shown.
SavedProfileAsShown ==
    [Selected EXCEPT
        !.id = IF CreateNew THEN NewProfileId(profiles) ELSE @,
        !.retired = IF CreateNew THEN FALSE ELSE @,
        !.gaze = GazeTransform, !.hasQuality = hasQuality]

SavedProfile ==
    [Selected EXCEPT
        !.id = IF CreateNew THEN NewProfileId(profiles) ELSE @,
        !.retired = IF CreateNew THEN FALSE ELSE @,
        !.stair = IF sourceId \in Ids(profiles) THEN Find(profiles, sourceId).stair ELSE "measured",
        !.gaze = GazeTransform,
        !.hasQuality = hasQuality]

SaveSessionProfile ==
    /\ InUse
    /\ CreateNew => Len(profiles) < MaxProfiles
    /\ profiles' = IF CreateNew THEN Append(profiles, SavedProfile)
                   ELSE Replace(profiles, selected, SavedProfile)
    /\ Save(profiles')
    /\ RefreshUi(profiles', SavedProfile.id)
    /\ state' = "saved" /\ sourceId' = SavedProfile.id
    /\ UNCHANGED <<samples, transform, hasQuality, live>>

AddProfile(p) ==
    /\ Len(profiles) < MaxProfiles
    /\ profiles' = Append(profiles, p)
    /\ Save(profiles')
    /\ RefreshUi(profiles', p.id)
    /\ UNCHANGED <<session, live>>

DuplicateProfile ==
    HasSelected /\ AddProfile([Selected EXCEPT !.id = NewProfileId(profiles), !.retired = FALSE])

\* An entry with an id in use gets another one.
ImportProfile(p) ==
    AddProfile([p EXCEPT !.id = IF @ \in Ids(profiles) THEN NewProfileId(profiles) ELSE @])

\* A hidden entry is kept, and stays in the list until another one is selected.
RetireProfile ==
    /\ HasSelected
    /\ profiles' = Replace(profiles, selected, [Selected EXCEPT !.retired = TRUE])
    /\ Save(profiles')
    /\ RefreshUi(profiles', selected)
    /\ UNCHANGED <<session, live>>

\* The app closes, which saves the entry shown, and starts again: an alignment that was
\* not saved is gone (loadSettings, loadCalibrationProfiles).
Restart ==
    /\ live = NoWorker
    /\ state' = "uncalibrated" /\ samples' = <<>> /\ transform' = Identity
    /\ sourceId' = NoId /\ hasQuality' = FALSE
    /\ profiles' = Load(stored.profiles)
    /\ selected' = Shown(profiles', selected)
    /\ label' = "selected"
    /\ UNCHANGED <<live, stored>>

CalibrationNext ==
    \/ startPreview \/ PreviewFinished
    \/ \E confirmed \in BOOLEAN : BeginCalibration(confirmed)
    \/ \E tracked, anglesAgree \in BOOLEAN, pose \in Positions :
          HandleTargetPose(tracked, pose, anglesAgree)
    \/ ClearCalibration
    \/ \E i \in DOMAIN profiles : SelectProfile(i)
    \/ \E asked \in BOOLEAN : ApplySelectedProfile(asked)
    \/ SaveSessionProfile \/ DuplicateProfile \/ RetireProfile \/ Restart
    \/ \E p \in Imports : ImportProfile(p)

CalibrationSpec == CalibrationInit /\ [][CalibrationNext]_calibrationVars

(***************************************************************************)
(* Properties.                                                              *)
(***************************************************************************)
\* The live worker draws gaze with the calibration in use, and without one as the
\* HoloLens sent it, whatever was measured, rejected, applied or cleared before and
\* since it started (setGazeTransform).  Only while a new calibration is collected the
\* former alignment stays on the screen of the worker that was drawing with it.
DrawnAsInUse == live \in {NoWorker, GazeTransform} \/ state = "collecting"

\* An alignment is kept with the stair position it was solved for: every measured entry,
\* and the calibration in use with the entry it came from, through selection, saving,
\* copying, hiding, import, restart and the move of the built-in setup.
StairIsTheMeasured ==
    /\ \A i \in DOMAIN profiles : profiles[i].hasQuality => profiles[i].gaze.stair = profiles[i].stair
    /\ InUse /\ sourceId \in Ids(profiles) => transform.stair = Find(profiles, sourceId).stair

\* What was stored is kept: an entry stays under its id, its alignment and stair position
\* change only by saving the calibration in use over the entry it came from, and entries
\* that this version cannot read stay (saveSessionCalibrationProfile, save).
StoredIsKept ==
    [][/\ stored.foreign \subseteq stored'.foreign
       /\ \A i \in DOMAIN stored.profiles :
            LET p == stored.profiles[i] IN
            /\ p.id \in Ids(stored'.profiles)
            /\ p.hasQuality /\ ~(InUse /\ p.id = sourceId)
               => LET q == Find(stored'.profiles, p.id)
                  IN q.hasQuality /\ q.stair = p.stair /\ q.gaze = p.gaze]_calibrationVars
=============================================================================
