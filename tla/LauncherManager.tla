--------------------------- MODULE LauncherManager ---------------------------
(***************************************************************************)
(* The client's launcher: it asks the server for its version.json, removes *)
(* and downloads what differs from it, stores the server's version.json    *)
(* last and starts the program.  A failed download is logged and passed    *)
(* over.  Every request is a callback of the event loop, so the server may *)
(* change between any two of them.                                         *)
(***************************************************************************)
EXTENDS ResourceServer

VARIABLES
  local,      (* The files beside the launcher.                              *)
  localJson,  (* The version.json beside it.                                 *)
  launcher,   (* Where its run is.                                           *)
  downloads,  (* m_downloadQueue, without version.json at its end.           *)
  smooth      (* History: this run compared the files with a release, and no
                 download has failed nor the server changed since.           *)

launcherVars == <<local, localJson, launcher, downloads, smooth>>

LauncherInit ==
  /\ local = NoFiles
  /\ localJson = NoJson
  /\ launcher = "off"
  /\ downloads = {}
  /\ smooth = FALSE

LauncherTypeOK ==
  /\ local \in [Files -> Content \union {Absent, Torn}]
  /\ localJson \in VersionInfo \union {TornJson}
  /\ launcher \in {"off", "checking", "downloading", "loaded", "quitting"}
  /\ downloads \subseteq Files
  /\ smooth \in BOOLEAN

(* A version.json that cannot be parsed leaves the default version. *)
m_currentVersion == IF localJson = TornJson THEN NoVersion ELSE localJson.version

(* A server without a version.json answers {}: no files, and a version that is
   no launcher's. *)
NewVersion == storedJson = NoJson \/ storedJson.version # m_currentVersion

Running == launcher \in {"checking", "downloading"}

-----------------------------------------------------------------------------
(* checkForUpdates: the request is sent. *)
StartLauncher ==
  /\ ~Running
  /\ launcher' = "checking"
  /\ smooth' = FALSE
  /\ UNCHANGED <<serverVars, local, localJson, downloads>>

(* loadPlugin, and with it the end of the run. *)
LoadPlugin == launcher' = "loaded"

(* The reply cannot be parsed, or there is none: the program quits. *)
CheckFails ==
  /\ launcher = "checking"
  /\ launcher' = "off"
  /\ UNCHANGED <<serverVars, local, localJson, downloads, smooth>>

(* Ten seconds went by.  abort() emits finished, whose handler takes the error
   branch and quits; then the timer's handler loads the plugin all the same. *)
CheckTimesOut ==
  /\ launcher = "checking"
  /\ launcher' = "quitting"
  /\ UNCHANGED <<serverVars, local, localJson, downloads, smooth>>

SameVersion ==
  /\ launcher = "checking"
  /\ storedJson # TornJson /\ ~NewVersion
  /\ LoadPlugin
  /\ UNCHANGED <<serverVars, local, localJson, downloads, smooth>>

(* Wrong variant: only files that the old version.json does not list are
   compared. *)
DownloadPlugin_NewOnly ==
  /\ launcher = "checking"
  /\ storedJson # TornJson /\ NewVersion
  /\ LET md5 == storedJson.md5 IN
     /\ local' = [f \in Files |-> IF localJson.md5[f] # Absent /\ md5[f] = Absent
                                  THEN Absent ELSE local[f]]
     /\ downloads' = {f \in Files : md5[f] # Absent /\ md5[f] # localJson.md5[f]}
     /\ IF downloads' = {} THEN LoadPlugin ELSE launcher' = "downloading"
  /\ smooth' = TRUE
  /\ UNCHANGED <<serverVars, localJson>>

(* downloadPlugin: files that only the old version.json lists are removed, and
   those whose MD5 differs are queued.  Nothing to download, nothing recorded. *)
DownloadPlugin ==
  /\ launcher = "checking"
  /\ storedJson # TornJson /\ NewVersion
  /\ LET md5 == storedJson.md5 IN
     /\ local' = [f \in Files |-> IF localJson.md5[f] # Absent /\ md5[f] = Absent
                                  THEN Absent ELSE local[f]]
     /\ downloads' = {f \in Files : md5[f] # Absent /\ md5[f] # local[f]}
     /\ IF downloads' = {} THEN LoadPlugin ELSE launcher' = "downloading"
  /\ smooth' = TRUE
  /\ UNCHANGED <<serverVars, localJson>>

(* downloadNextFile *)
DownloadFile(f) ==
  /\ launcher = "downloading"
  /\ f \in downloads /\ stored[f] # Absent
  /\ downloads' = downloads \ {f}
  /\ local' = [local EXCEPT ![f] = stored[f]]
  /\ UNCHANGED <<serverVars, localJson, launcher, smooth>>

(* Wrong variant: a failed download is tried again, for ever. *)
DownloadFails_Retried(f) ==
  /\ launcher = "downloading"
  /\ f \in downloads
  /\ smooth' = FALSE
  /\ UNCHANGED <<serverVars, local, localJson, launcher, downloads>>

DownloadFails(f) ==
  /\ launcher = "downloading"
  /\ f \in downloads
  /\ downloads' = downloads \ {f}
  /\ smooth' = FALSE
  /\ UNCHANGED <<serverVars, local, localJson, launcher>>

(* The last of the queue: the server's version.json as it is by then. *)
DownloadVersionJson ==
  /\ launcher = "downloading" /\ downloads = {}
  /\ \/ localJson' = storedJson /\ UNCHANGED smooth
     \/ localJson' = localJson /\ smooth' = FALSE
  /\ LoadPlugin
  /\ UNCHANGED <<serverVars, local, downloads>>

(* The launcher is closed before it is done, perhaps while it overwrites a file. *)
LauncherKilled ==
  /\ Running
  /\ \/ UNCHANGED <<local, localJson>>
     \/ /\ launcher = "downloading"
        /\ \E f \in downloads : stored[f] # Absent /\ local' = [local EXCEPT ![f] = Torn]
        /\ UNCHANGED localJson
     \/ /\ launcher = "downloading" /\ downloads = {}
        /\ localJson' = TornJson
        /\ UNCHANGED local
  /\ launcher' = "off"
  /\ downloads' = {}
  /\ smooth' = FALSE
  /\ UNCHANGED serverVars

LauncherStep ==
  \/ CheckFails \/ CheckTimesOut \/ SameVersion \/ DownloadPlugin
  \/ \E f \in Files : DownloadFile(f) \/ DownloadFails(f)
  \/ DownloadVersionJson

LauncherNext == StartLauncher \/ LauncherStep \/ LauncherKilled

=============================================================================
