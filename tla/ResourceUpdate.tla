--------------------------- MODULE ResourceUpdate ---------------------------
(***************************************************************************)
(* The tool, the server and a launcher together: how a release gets from   *)
(* the resource folder to a client.  They share nothing but the server's   *)
(* files; the steps of the tool and of the launcher interleave freely.     *)
(***************************************************************************)
EXTENDS ResourceVersionControlTool, LauncherManager

vars == <<serverVars, toolVars, launcherVars>>

Init == ServerInit /\ ToolInit /\ LauncherInit

(* History: the launcher's run no longer is smooth if the server changes. *)
ToolStep ==
  /\ ToolNext
  /\ smooth' = (smooth /\ serverVars' = serverVars)
  /\ UNCHANGED <<local, localJson, launcher, downloads>>

Next ==
  \/ ToolStep
  \/ LauncherNext /\ UNCHANGED toolVars

(* The network answers every request of the launcher or reports an error. *)
Spec == Init /\ [][Next]_vars /\ WF_vars(LauncherStep /\ UNCHANGED toolVars)

-----------------------------------------------------------------------------
(* Properties. *)

(* Every variable is of its type. *)
TypeOK == ServerTypeOK /\ ToolTypeOK /\ LauncherTypeOK

Uploaded(f) == stored[f] # Torn /\ stored[f] >= storedJson.md5[f]

(* Version.json is uploaded last, so whoever reads it finds every listed file
   at the server at least as new as it is listed, whatever the author edits
   during the run and however many runs fail or are killed.  Only files whose
   upload failed, and the one being overwritten, are excepted. *)
NeverPublishedBeforeItsFiles ==
  \A f \in Files :
    (storedJson.md5[f] # Absent /\ f \notin unsent /\ f # sending.file) => Uploaded(f)

(* What the launcher relies on when it skips an equal version: the version
   numbers of two different releases differ, on the same day and across days,
   although runs may fail after the number was raised. *)
EqualVersionsSameRelease ==
  (localJson # TornJson /\ storedJson # TornJson /\ localJson.version = storedJson.version)
    => localJson.md5 = storedJson.md5

(* A launcher run that compares its files with a release and in which no
   download fails and no release comes along ends with every listed file at
   least as new as listed, whatever earlier runs that failed, were killed or
   overlapped with a release had left behind.  Files that the server never got
   or is just being sent are excepted. *)
UndisturbedUpdateInstalls ==
  (launcher = "loaded" /\ smooth) =>
    \A f \in Files \ unsent :
      (storedJson.md5[f] # Absent /\ f # sending.file) =>
        local[f] # Torn /\ local[f] >= storedJson.md5[f]

(* The launcher never hangs: every run ends. *)
LauncherEnds == (launcher = "checking") ~> ~Running

(* The tool's documentation: the changed files are uploaded to the server.  A
   rejected upload is logged, version.json is published all the same and the
   next run finds nothing to upload (see the README). *)
ReleasedFilesUploaded ==
  \A f \in Files : (tool = "idle" /\ storedJson = json /\ json.md5[f] # Absent) => Uploaded(f)

(* The launcher's message when its check times out: the old version is started.
   But the program was told to quit before (see the README). *)
OldVersionStarts == launcher # "quitting"

=============================================================================
