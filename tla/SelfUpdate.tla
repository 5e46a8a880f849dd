------------------------------- MODULE SelfUpdate -------------------------------
(***************************************************************************)
(* Download and installation of a release of the desktop application       *)
(* (ui/update_downloader.go, ui/update_installer.go).  One download and    *)
(* one installation run at a time, each in a goroutine; what they do to    *)
(* the disk survives the application, which may end at any point.          *)
(*                                                                         *)
(* The bundle of the application and its backups hold a version, Nothing,  *)
(* or a copy that was cut short.  An asset of a release is a record of its *)
(* architecture, its extension and whether it is a universal build.        *)
(***************************************************************************)
EXTENDS Integers, Sequences, SequencesExt

CONSTANTS
  AssetLists,     \* the lists of assets a release may have
  Arch,           \* the architecture the application runs on
  Stamps,         \* seconds, 1 among them: the names of backups
  MaxUpdates,     \* bound: downloads and installations begun
  Nothing, CutShort

Versions == {"old", "new"}
Extensions == <<".dmg", ".zip", ".pkg">>
NoAsset == [arch |-> "none", ext |-> "none", universal |-> FALSE]

ASSUME SelfUpdateAssumption ==
  /\ 1 \in Stamps /\ Stamps \subseteq Nat /\ MaxUpdates \in Nat
  /\ AssetLists \subseteq Seq([arch : STRING, ext : STRING, universal : BOOLEAN])
  /\ {Nothing, CutShort} \cap Versions = {} /\ Nothing # CutShort

VARIABLES
  download, dlInFlight, dlStatus, asset, file,  \* the downloader
  install, inInFlight, inStatus, source, stamp, \* the installer
  volume,                \* the mounted image or the extracted archive
  bundle, backups,       \* on the disk
  cleaners,              \* scripts that will remove a backup
  clock, updates, alive, \* the application runs
  spoiled                \* ghost: a rollback failed, or the application ended in the middle

downloadVars == <<download, dlInFlight, dlStatus, asset, file>>
installVars == <<install, inInFlight, inStatus, source, stamp, volume>>
diskVars == <<bundle, backups, cleaners>>
suVars == <<downloadVars, installVars, diskVars, clock, updates, alive, spoiled>>

SUInit ==
  /\ download = "idle" /\ dlInFlight = FALSE /\ dlStatus = "idle" /\ asset = NoAsset /\ file = Nothing
  /\ install = "idle" /\ inInFlight = FALSE /\ inStatus = "idle" /\ source = NoAsset /\ stamp = 1
  /\ volume = Nothing /\ bundle = "old" /\ backups = [s \in Stamps |-> Nothing] /\ cleaners = {}
  /\ clock = 1 /\ updates = 0 /\ alive = TRUE /\ spoiled = FALSE

(***************************************************************************)
(* The choice of an asset.                                                 *)
(***************************************************************************)

IsSupported(a) == ~a.universal /\ a.ext \in ToSet(Extensions)

\* The first supported asset of those, .dmg before .zip before .pkg.
FirstByExtension(assets, those) ==
  LET OfExt(e) == {i \in those : IsSupported(assets[i]) /\ assets[i].ext = Extensions[e]}
      exts == {e \in DOMAIN Extensions : OfExt(e) # {}} IN
  IF exts = {} THEN NoAsset ELSE assets[Min(OfExt(Min(exts)))]

\* The asset that was asked for, else one of this architecture, else any.
SelectReleaseAsset(assets, preferred) ==
  LET ofArch == FirstByExtension(assets, {i \in DOMAIN assets : assets[i].arch = Arch}) IN
  IF preferred \in ToSet(assets) /\ IsSupported(preferred) THEN preferred
  ELSE IF ofArch # NoAsset THEN ofArch
  ELSE FirstByExtension(assets, DOMAIN assets)

(***************************************************************************)
(* The downloader.                                                         *)
(***************************************************************************)

StartDownload ==
  /\ alive /\ ~dlInFlight /\ updates < MaxUpdates
  /\ updates' = updates + 1
  /\ dlInFlight' = TRUE /\ dlStatus' = "resolving" /\ download' = "resolve"
  /\ asset' = NoAsset /\ file' = IF file = CutShort THEN CutShort ELSE Nothing
  /\ UNCHANGED <<installVars, diskVars, clock, alive, spoiled>>

\* A url of an asset is taken as it is; otherwise the release is asked for its list.
ResolveAsset ==
  /\ download = "resolve"
  /\ \E assets \in AssetLists, preferred \in {NoAsset} \cup UNION {ToSet(l) : l \in AssetLists} :
       LET chosen == SelectReleaseAsset(assets, preferred) IN
       /\ chosen # NoAsset
       /\ asset' = chosen
  /\ dlStatus' = "downloading" /\ download' = "create"
  /\ UNCHANGED <<dlInFlight, file, installVars, diskVars, clock, updates, alive, spoiled>>

CreateTempFile ==
  /\ download = "create"
  /\ file' = CutShort /\ download' = "copy"
  /\ UNCHANGED <<dlInFlight, dlStatus, asset, installVars, diskVars, clock, updates, alive, spoiled>>

\* Mutant: a download that fails leaves its file.
FailsKeepingFile ==
  /\ download \in {"resolve", "create", "copy"}
  /\ download' = "idle" /\ dlInFlight' = FALSE /\ dlStatus' = "failed"
  /\ UNCHANGED <<asset, file, installVars, diskVars, clock, updates, alive, spoiled>>

\* The release has no asset, a request or the copy fails, the half hour is over.
DownloadFails ==
  /\ download \in {"resolve", "create", "copy"}
  /\ file' = IF download = "copy" THEN Nothing ELSE file
  /\ download' = "idle" /\ dlInFlight' = FALSE /\ dlStatus' = "failed"
  /\ UNCHANGED <<asset, installVars, diskVars, clock, updates, alive, spoiled>>

DownloadCompletes ==
  /\ download = "copy"
  /\ file' = "new"
  /\ download' = "idle" /\ dlInFlight' = FALSE /\ dlStatus' = "completed"
  /\ UNCHANGED <<asset, installVars, diskVars, clock, updates, alive, spoiled>>

(***************************************************************************)
(* The installer.  Its deferred cleanup gives the volume back.             *)
(***************************************************************************)

StartInstall ==
  /\ alive /\ ~inInFlight /\ updates < MaxUpdates /\ dlStatus = "completed"
  /\ updates' = updates + 1
  /\ inInFlight' = TRUE /\ inStatus' = "preparing" /\ install' = "open" /\ source' = asset
  /\ UNCHANGED <<downloadVars, stamp, volume, diskVars, clock, alive, spoiled>>

InstallTo(step, status) ==
  /\ install' = step /\ inStatus' = status
  /\ UNCHANGED <<downloadVars, inInFlight, source, clock, updates, alive, spoiled>>

\* Every return with an error.
InstallFails ==
  /\ install' = "idle" /\ inInFlight' = FALSE /\ inStatus' = "failed" /\ volume' = Nothing
  /\ UNCHANGED <<downloadVars, source, stamp, clock, updates, alive>>

\* Images are mounted and archives extracted; nothing else can be installed.
OpenSource ==
  /\ install = "open" /\ source.ext \in {".dmg", ".zip"}
  /\ volume' = "new"
  /\ InstallTo("validate", "validating")
  /\ UNCHANGED <<stamp, diskVars>>

OpenFails ==
  /\ install = "open"
  /\ InstallFails /\ UNCHANGED <<diskVars, spoiled>>

\* The new bundle is found, and the one the process was started from.
FindBundles ==
  /\ install = "validate" /\ bundle # Nothing
  /\ InstallTo("backup", "replacing")
  /\ UNCHANGED <<stamp, volume, diskVars>>

FindFails ==
  /\ install = "validate"
  /\ InstallFails /\ UNCHANGED <<diskVars, spoiled>>

\* The bundle is renamed, which fails if a backup has the name of this second.
BackUp ==
  /\ install = "backup" /\ backups[clock] = Nothing
  /\ stamp' = clock
  /\ backups' = [backups EXCEPT ![clock] = bundle] /\ bundle' = Nothing
  /\ InstallTo("copy", "replacing")
  /\ UNCHANGED <<volume, cleaners>>

BackUpFails ==
  /\ install = "backup"
  /\ InstallFails /\ UNCHANGED <<diskVars, spoiled>>

CopyBegins ==
  /\ install = "copy"
  /\ bundle' = CutShort
  /\ InstallTo("copying", "replacing")
  /\ UNCHANGED <<stamp, volume, backups, cleaners>>

CopyBundle ==
  /\ install = "copying"
  /\ bundle' = volume
  /\ InstallTo("cleaning", "cleaning")
  /\ UNCHANGED <<stamp, volume, backups, cleaners>>

\* Mutant: what was copied is not removed, so the backup cannot be renamed to it.
CopyFailsInPlace ==
  /\ install \in {"copy", "copying"}
  /\ UNCHANGED <<bundle, backups, spoiled, cleaners>>
  /\ InstallFails

\* What was copied is removed and the backup renamed back, unless that fails as well.
CopyFails ==
  /\ install \in {"copy", "copying"}
  /\ \/ bundle' = backups[stamp] /\ backups' = [backups EXCEPT ![stamp] = Nothing] /\ UNCHANGED spoiled
     \/ bundle' = Nothing /\ spoiled' = TRUE /\ UNCHANGED backups
  /\ InstallFails /\ UNCHANGED cleaners

\* A script that could not be started is only logged.
ScheduleCleanup ==
  /\ install = "cleaning"
  /\ cleaners' \in {cleaners, cleaners \cup {stamp}}
  /\ InstallTo("restart", "restarting")
  /\ UNCHANGED <<stamp, volume, bundle, backups>>

\* The new version is in place, but nobody starts it.
RestartFails ==
  /\ install = "restart"
  /\ InstallFails /\ UNCHANGED <<diskVars, spoiled>>

\* The helper opens the new bundle when this process has exited; os.Exit runs no deferred
\* function, so an image stays mounted.
Restart ==
  /\ install = "restart"
  /\ install' = "idle" /\ inInFlight' = FALSE /\ inStatus' = "idle"
  /\ download' = "idle" /\ dlInFlight' = FALSE /\ dlStatus' = "idle"
  /\ spoiled' = (spoiled \/ download = "copy")
  /\ UNCHANGED <<asset, file, source, stamp, volume, diskVars, clock, updates, alive>>

CleanBackup(s) ==
  /\ s \in cleaners
  /\ cleaners' = cleaners \ {s} /\ backups' = [backups EXCEPT ![s] = Nothing]
  /\ UNCHANGED <<downloadVars, installVars, bundle, clock, updates, alive, spoiled>>

\* The application ends anywhere; it can be started as long as its bundle is whole.
ApplicationDies ==
  /\ alive
  /\ alive' = FALSE
  /\ spoiled' = (spoiled \/ download = "copy" \/ install \in {"copy", "copying"})
  /\ download' = "idle" /\ dlInFlight' = FALSE /\ dlStatus' = "idle"
  /\ install' = "idle" /\ inInFlight' = FALSE /\ inStatus' = "idle"
  /\ UNCHANGED <<asset, file, source, stamp, volume, diskVars, clock, updates>>

ApplicationStarts ==
  /\ ~alive /\ bundle \in Versions
  /\ alive' = TRUE
  /\ UNCHANGED <<downloadVars, installVars, diskVars, clock, updates, spoiled>>

SecondPasses ==
  /\ clock + 1 \in Stamps
  /\ clock' = clock + 1
  /\ UNCHANGED <<downloadVars, installVars, diskVars, updates, alive, spoiled>>

SUNext ==
  \/ StartDownload \/ ResolveAsset \/ CreateTempFile \/ DownloadFails \/ DownloadCompletes
  \/ StartInstall \/ OpenSource \/ OpenFails \/ FindBundles \/ FindFails \/ BackUp \/ BackUpFails
  \/ CopyBegins \/ CopyBundle \/ CopyFails \/ ScheduleCleanup \/ RestartFails \/ Restart
  \/ \E s \in Stamps : CleanBackup(s)
  \/ ApplicationDies \/ ApplicationStarts \/ SecondPasses

SUSpec == SUInit /\ [][SUNext]_suVars

(***************************************************************************)
(* Properties.                                                             *)
(***************************************************************************)

\* The type invariant.
SUTypeOK ==
  /\ download \in {"idle", "resolve", "create", "copy"}
  /\ dlStatus \in {"idle", "resolving", "downloading", "completed", "failed"}
  /\ {dlInFlight, inInFlight, alive, spoiled} \subseteq BOOLEAN
  /\ install \in {"idle", "open", "validate", "backup", "copy", "copying", "cleaning", "restart"}
  /\ {bundle, volume, file} \cup {backups[s] : s \in Stamps} \subseteq Versions \cup {Nothing, CutShort}
  /\ cleaners \subseteq Stamps /\ {clock, stamp} \subseteq Stamps /\ updates \in 0..MaxUpdates

\* At every point, a crash included, the disk holds a whole copy of the application: the
\* bundle or a backup that no script is about to remove (update_installer.go:173-227).
WholeCopyExists ==
  bundle \in Versions \/ \E s \in Stamps \ cleaners : backups[s] \in Versions

\* An installation that has failed leaves an application that can be started, and a
\* download that has failed or was completed no half of a file, unless a rollback failed
\* too or the application ended between the steps.
FailureLeavesNoTrace ==
  ~spoiled =>
    /\ install = "idle" => bundle \in Versions
    /\ download # "copy" => file # CutShort
    /\ dlStatus = "completed" => file = "new"

\* What was downloaded is made for this machine whenever the release has such an asset
\* and nobody asked for another, and never a universal build.
AssetFits ==
  \A assets \in AssetLists :
    LET chosen == SelectReleaseAsset(assets, NoAsset)
        fitting == {a \in ToSet(assets) : IsSupported(a) /\ a.arch = Arch} IN
    /\ fitting # {} => chosen.arch = Arch
    /\ chosen # NoAsset => ~chosen.universal

\* The three, and the type invariant.
UpdateInv == SUTypeOK /\ WholeCopyExists /\ FailureLeavesNoTrace /\ AssetFits
================================================================================
