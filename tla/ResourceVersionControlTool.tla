--------------------- MODULE ResourceVersionControlTool ---------------------
(***************************************************************************)
(* The tool that releases the resource folder.  A run compares the MD5 of  *)
(* every file with the folder's version.json, raises the version, saves    *)
(* version.json and uploads what changed, version.json last.  The author   *)
(* may edit the folder at any time.                                        *)
(***************************************************************************)
EXTENDS ResourceServer

VARIABLES
  folder,     (* The resource folder.                                        *)
  json,       (* Its version.json.                                           *)
  edits,      (* Edits so far.                                               *)
  today,      (* The date.                                                   *)
  tool,       (* Where the tool's run is.                                    *)
  info,       (* versionInfo, updated and not yet saved.                     *)
  pending,    (* changedFiles that are still to be uploaded.                 *)
  sending,    (* The file and content on the way, or the file None.          *)
  unsent      (* History: files recorded in json that the server never got.  *)

toolVars == <<folder, json, edits, today, tool, info, pending, sending, unsent>>
runVars  == <<tool, info, pending, sending, unsent>>

None == "none"
ASSUME NoneAssumption == None \notin Files

NotSending == [file |-> None, content |-> Absent]

ToolInit ==
  /\ folder = [f \in Files |-> 1]
  /\ json = NoJson
  /\ edits = 0
  /\ today = 1
  /\ tool = "idle"
  /\ info = NoJson
  /\ pending = {}
  /\ sending = NotSending
  /\ unsent = {}

ToolTypeOK ==
  /\ folder \in [Files -> Content \union {Absent}]
  /\ json \in VersionInfo \union {TornJson} /\ info \in VersionInfo
  /\ edits \in 0 .. MaxEdits
  /\ today \in 1 .. MaxDay
  /\ tool \in {"idle", "save", "upload", "publish"}
  /\ pending \subseteq Files
  /\ sending \in [file : Files \union {None}, content : Content \union {Absent}]
  /\ unsent \subseteq Files

-----------------------------------------------------------------------------
(* The author and the calendar. *)

EditFile(f) ==
  /\ edits < MaxEdits
  /\ edits' = edits + 1
  /\ folder' = [folder EXCEPT ![f] = edits + 2]
  /\ UNCHANGED <<serverVars, json, today, runVars>>

DeleteFile(f) ==
  /\ edits < MaxEdits /\ folder[f] # Absent
  /\ edits' = edits + 1
  /\ folder' = [folder EXCEPT ![f] = Absent]
  /\ UNCHANGED <<serverVars, json, today, runVars>>

(* The date is only read when a run begins, so it need only change between
   runs. *)
NextDay ==
  /\ tool = "idle" /\ today < MaxDay
  /\ today' = today + 1
  /\ UNCHANGED <<serverVars, folder, json, edits, runVars>>

-----------------------------------------------------------------------------
(* A run of the tool. *)

(* GetChangedFiles: new, modified and deleted ones. *)
ChangedFiles(old, new) == {f \in Files : old[f] # new[f]}

(* Wrong variant: the number starts again although the day is the same. *)
UpdateVersion_AlwaysOne(version, day) == [day |-> day, number |-> 1]

UpdateVersion(version, day) ==
  [day |-> day, number |-> IF version.day = day THEN version.number + 1 ELSE 1]

(* Wrong variant: what cannot be read is taken for a file that is not there. *)
Readable_Always(j) == TRUE

(* LoadOrInitializeVersionJson: a version.json that is cut off or empty ends the
   run with an exception, there or in GetChangedFiles. *)
Readable(j) == j # TornJson

(* version.json is loaded, the folder hashed and compared; without a change
   the run is over.  The entries of changed files are replaced. *)
CalculateFolderHashes ==
  /\ tool = "idle" /\ Readable(json)
  /\ LET changed == ChangedFiles(json.md5, folder) IN
     /\ changed # {}
     /\ pending' = changed
     /\ info' = [version |-> UpdateVersion(json.version, today),
                 md5 |-> [f \in Files |-> IF f \in changed THEN folder[f] ELSE json.md5[f]]]
  /\ tool' = "save"
  /\ UNCHANGED <<serverVars, folder, json, edits, today, sending, unsent>>

(* The run stops; what it has recorded and not uploaded stays where it is. *)
EndRun == tool' = "idle" /\ pending' = {} /\ sending' = NotSending /\ info' = NoJson

SaveVersionJson ==
  /\ tool = "save"
  /\ json' = info
  /\ info' = NoJson
  /\ tool' = "upload"
  /\ UNCHANGED <<serverVars, folder, edits, today, pending, sending, unsent>>

(* Wrong variant: the run does not end. *)
SaveVersionJsonFails_Hangs ==
  /\ tool = "save"
  /\ tool' = "failed"
  /\ UNCHANGED <<serverVars, folder, json, edits, today, info, pending, sending, unsent>>

SaveVersionJsonFails ==
  /\ tool = "save"
  /\ EndRun
  /\ UNCHANGED <<serverVars, folder, json, edits, today, unsent>>

(* The tool is killed while it writes: what is left of version.json cannot be
   parsed. *)
KilledWhileSaving ==
  /\ tool = "save"
  /\ json' = TornJson
  /\ EndRun
  /\ UNCHANGED <<serverVars, folder, edits, today, unsent>>

(* A file that is gone is skipped. *)
SkipDeleted(f) ==
  /\ tool = "upload" /\ sending = NotSending
  /\ f \in pending /\ folder[f] = Absent
  /\ pending' = pending \ {f}
  /\ unsent' = unsent \union {f}
  /\ UNCHANGED <<serverVars, folder, json, edits, today, tool, info, sending>>

BeginUpload(f) ==
  /\ tool = "upload" /\ sending = NotSending
  /\ f \in pending /\ folder[f] # Absent
  /\ sending' = [file |-> f, content |-> folder[f]]
  /\ Store(f, Torn)
  /\ UNCHANGED <<folder, json, edits, today, tool, info, pending, unsent>>

EndUpload ==
  /\ tool = "upload" /\ sending # NotSending
  /\ Store(sending.file, sending.content)
  /\ pending' = pending \ {sending.file}
  /\ unsent' = unsent \ {sending.file}
  /\ sending' = NotSending
  /\ UNCHANGED <<folder, json, edits, today, tool, info>>

(* A status other than success is logged, and the loop goes on. *)
UploadRejected(f) ==
  /\ tool = "upload" /\ sending = NotSending
  /\ f \in pending /\ folder[f] # Absent
  /\ \E content \in {stored[f], Torn} : Store(f, content)
  /\ pending' = pending \ {f}
  /\ unsent' = unsent \union {f}
  /\ UNCHANGED <<folder, json, edits, today, tool, info, sending>>

(* An exception, or the tool is killed: everything that is left is lost. *)
UploadAborts ==
  /\ tool \in {"upload", "publish"}
  /\ unsent' = unsent \union pending
  /\ EndRun
  /\ UNCHANGED <<serverVars, folder, json, edits, today>>

(* Wrong variant: version.json does not wait for the other files. *)
BeginPublish_First ==
  /\ tool = "upload" /\ sending = NotSending
  /\ tool' = "publish"
  /\ StoreJson(TornJson)
  /\ UNCHANGED <<folder, json, edits, today, info, pending, sending, unsent>>

(* version.json is the last of the list. *)
BeginPublish ==
  /\ tool = "upload" /\ sending = NotSending
  /\ pending = {}
  /\ tool' = "publish"
  /\ StoreJson(TornJson)
  /\ UNCHANGED <<folder, json, edits, today, info, pending, sending, unsent>>

EndPublish ==
  /\ tool = "publish"
  /\ StoreJson(json)
  /\ EndRun
  /\ UNCHANGED <<folder, json, edits, today, unsent>>

PublishRejected ==
  /\ tool = "upload" /\ sending = NotSending
  /\ pending = {}
  /\ \E j \in {storedJson, TornJson} : StoreJson(j)
  /\ EndRun
  /\ UNCHANGED <<folder, json, edits, today, unsent>>

ToolNext ==
  \/ \E f \in Files :
       EditFile(f) \/ DeleteFile(f) \/ SkipDeleted(f) \/ BeginUpload(f) \/ UploadRejected(f)
  \/ NextDay
  \/ CalculateFolderHashes
  \/ SaveVersionJson \/ SaveVersionJsonFails \/ KilledWhileSaving
  \/ EndUpload \/ UploadAborts
  \/ BeginPublish \/ EndPublish \/ PublishRejected

=============================================================================
