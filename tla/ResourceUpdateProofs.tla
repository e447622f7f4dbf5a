------------------------ MODULE ResourceUpdateProofs ------------------------
(***************************************************************************)
(* Type correctness of the release system, that equal version numbers mean *)
(* the same release, and that no file is published before it is there: for *)
(* any files, any number of edits and days, and any failures.              *)
(***************************************************************************)
EXTENDS ResourceUpdate, TLAPS

-----------------------------------------------------------------------------
(* Types.  That the version number is bounded needs an argument: a release is
   only made when something was edited since the last one. *)

NumberOK(info_) ==
  /\ info_.version.number <= edits + 1
  /\ folder # info_.md5 => info_.version.number <= edits

NumbersOK == NumberOK(json) /\ (tool = "save" => NumberOK(info))

SendingOK == sending # NotSending => tool = "upload" /\ sending.file \in pending

(* A run only begins with a version.json that can be read, and a kill that tears
   it ends the run. *)
RunReadable == tool # "idle" => Readable(json)

TypeInv == TypeOK /\ NumbersOK /\ SendingOK /\ RunReadable

USE DEF Content, Absent, Torn, Readable

(* What the program starts without is of the right types. *)
LEMMA SpecialJson ==
  /\ NoFiles \in [Files -> Content \union {Absent}]
  /\ NoVersion \in Version
  /\ NoJson \in VersionInfo
  /\ TornJson.md5 = NoFiles /\ TornJson.version.number = 0
  /\ NoJson # TornJson
<1> QED
  BY ResourceBoundsAssumption DEF NoFiles, NoVersion, NoJson, TornJson, Version, VersionInfo

(* The types hold at the start. *)
LEMMA InitTypeInv == Init => TypeInv
<1> SUFFICES ASSUME Init PROVE TypeInv
  OBVIOUS
<1> USE ResourceBoundsAssumption, SpecialJson
<1>1. ServerTypeOK
  BY DEF Init, ServerInit, ServerTypeOK, NoFiles
<1>2. ToolTypeOK
  BY DEF Init, ToolInit, ToolTypeOK, NotSending
<1>3. LauncherTypeOK
  BY DEF Init, LauncherInit, LauncherTypeOK, NoFiles
<1>4. NumbersOK
  BY DEF Init, ToolInit, NumbersOK, NumberOK, NoJson, NoVersion
<1> QED
  BY <1>1, <1>2, <1>3, <1>4 DEF TypeInv, TypeOK, SendingOK, RunReadable, Init, ToolInit

(* What a new release is: a later version of the folder's files. *)
LEMMA NewRelease ==
  ASSUME TypeInv, CalculateFolderHashes
  PROVE  /\ info' \in VersionInfo
         /\ info'.md5 = folder
         /\ info'.version = UpdateVersion(json.version, today)
         /\ info'.version.number <= edits + 1
<1> DEFINE changed == ChangedFiles(json.md5, folder)
<1>1. /\ folder \in [Files -> Content \union {Absent}]
      /\ json.md5 \in [Files -> Content \union {Absent}]
      /\ json.version \in Version /\ json.version.number \in Nat
      /\ edits \in 0 .. MaxEdits /\ today \in 1 .. MaxDay
  BY ResourceBoundsAssumption DEF CalculateFolderHashes, TypeInv, TypeOK, ToolTypeOK,
     VersionInfo, Version
<1>2. /\ changed # {}
      /\ info' = [version |-> UpdateVersion(json.version, today),
                  md5 |-> [f \in Files |-> IF f \in changed THEN folder[f] ELSE json.md5[f]]]
  BY DEF CalculateFolderHashes
<1>3. [f \in Files |-> IF f \in changed THEN folder[f] ELSE json.md5[f]] = folder
  BY <1>1 DEF ChangedFiles
<1>4. json.version.number <= edits
  BY <1>1, <1>2 DEF ChangedFiles, TypeInv, NumbersOK, NumberOK, SendingOK
<1>5. UpdateVersion(json.version, today) \in Version
  BY <1>1, <1>4, ResourceBoundsAssumption DEF UpdateVersion, Version
<1>6. UpdateVersion(json.version, today).number <= edits + 1
  BY <1>1, <1>4, ResourceBoundsAssumption DEF UpdateVersion
<1> QED
  BY <1>1, <1>2, <1>3, <1>5, <1>6 DEF VersionInfo

(* The steps of the tool keep the types. *)
LEMMA ToolTypeStep ==
  ASSUME TypeInv, ToolNext
  PROVE  ServerTypeOK' /\ ToolTypeOK' /\ NumbersOK' /\ SendingOK'
<1> USE ResourceBoundsAssumption, SpecialJson DEF TypeInv, TypeOK, serverVars, runVars
<1>1. ASSUME NEW f \in Files, EditFile(f) PROVE ServerTypeOK' /\ ToolTypeOK' /\ NumbersOK' /\ SendingOK'
  BY <1>1 DEF EditFile, ServerTypeOK, ToolTypeOK, NumbersOK, NumberOK, SendingOK, VersionInfo, Version
<1>2. ASSUME NEW f \in Files, DeleteFile(f) PROVE ServerTypeOK' /\ ToolTypeOK' /\ NumbersOK' /\ SendingOK'
  BY <1>2 DEF DeleteFile, ServerTypeOK, ToolTypeOK, NumbersOK, NumberOK, SendingOK, VersionInfo, Version
<1>3. ASSUME NEW f \in Files, SkipDeleted(f) \/ BeginUpload(f) \/ UploadRejected(f)
      PROVE  ServerTypeOK' /\ ToolTypeOK' /\ NumbersOK' /\ SendingOK'
  BY <1>3 DEF SkipDeleted, BeginUpload, UploadRejected, Store, NotSending,
              ServerTypeOK, ToolTypeOK, NumbersOK, NumberOK, SendingOK
<1>4. CASE NextDay
  BY <1>4 DEF NextDay, ServerTypeOK, ToolTypeOK, NumbersOK, NumberOK, SendingOK
<1>5. CASE CalculateFolderHashes
  <2>1. info' \in VersionInfo /\ info'.md5 = folder /\ info'.version.number <= edits + 1
    BY <1>5, NewRelease
  <2> QED
    BY <1>5, <2>1 DEF CalculateFolderHashes, ChangedFiles, ServerTypeOK, ToolTypeOK,
                      NumbersOK, NumberOK, SendingOK
<1>6. CASE SaveVersionJson
  BY <1>6 DEF SaveVersionJson, ServerTypeOK, ToolTypeOK, NumbersOK, NumberOK, SendingOK
<1>7. CASE SaveVersionJsonFails \/ UploadAborts
  BY <1>7 DEF SaveVersionJsonFails, UploadAborts, EndRun, NotSending, ServerTypeOK, ToolTypeOK,
              NumbersOK, NumberOK, SendingOK
<1>8. CASE EndUpload
  <2>1. sending.file \in Files /\ sending.content \in Content \union {Absent}
    BY <1>8 DEF EndUpload, ToolTypeOK, SendingOK
  <2> QED
    BY <1>8, <2>1 DEF EndUpload, Store, NotSending, ServerTypeOK, ToolTypeOK, NumbersOK, NumberOK, SendingOK
<1>9. CASE BeginPublish \/ EndPublish \/ PublishRejected
  BY <1>9 DEF BeginPublish, EndPublish, PublishRejected, StoreJson, EndRun, NotSending,
              ServerTypeOK, ToolTypeOK, NumbersOK, NumberOK, SendingOK
<1>10. CASE KilledWhileSaving
  BY <1>10 DEF KilledWhileSaving, EndRun, NotSending, NoFiles, ServerTypeOK, ToolTypeOK, NumbersOK,
               NumberOK, SendingOK
<1> QED
  BY <1>1, <1>2, <1>3, <1>4, <1>5, <1>6, <1>7, <1>8, <1>9, <1>10 DEF ToolNext

(* Only a file that can be read begins a run. *)
LEMMA ToolRunStep ==
  ASSUME TypeInv, ToolNext
  PROVE  RunReadable'
<1> USE SpecialJson DEF RunReadable, TypeInv, TypeOK, ToolTypeOK, serverVars, runVars
<1>1. CASE SaveVersionJson
  <2>1. info # TornJson
    BY ResourceBoundsAssumption DEF TornJson, VersionInfo, Version
  <2> QED
    BY <1>1, <2>1 DEF SaveVersionJson
<1>2. CASE KilledWhileSaving \/ CalculateFolderHashes
  BY <1>2 DEF KilledWhileSaving, CalculateFolderHashes, EndRun
<1>3. CASE ~SaveVersionJson /\ ~KilledWhileSaving /\ ~CalculateFolderHashes
  BY <1>3 DEF ToolNext, EditFile, DeleteFile, SkipDeleted, BeginUpload, UploadRejected, NextDay,
       SaveVersionJsonFails, EndUpload, UploadAborts, BeginPublish, EndPublish, PublishRejected,
       EndRun
<1> QED
  BY <1>1, <1>2, <1>3

(* The steps of the launcher keep the types of its variables. *)
LEMMA LauncherTypeStep ==
  ASSUME TypeInv, LauncherNext
  PROVE  ServerTypeOK' /\ LauncherTypeOK'
<1> USE DEF TypeInv, TypeOK, serverVars
<1>1. ServerTypeOK'
  BY DEF LauncherNext, LauncherStep, StartLauncher, LauncherKilled, CheckFails, CheckTimesOut,
         SameVersion, DownloadPlugin, DownloadFile, DownloadFails, DownloadVersionJson,
         ServerTypeOK
<1>2. CASE StartLauncher \/ CheckFails \/ CheckTimesOut \/ SameVersion
  BY <1>1, <1>2 DEF StartLauncher, CheckFails, CheckTimesOut, SameVersion, LoadPlugin, LauncherTypeOK
<1>6. CASE LauncherKilled
  BY <1>1, <1>6 DEF LauncherKilled, LauncherTypeOK
<1>3. CASE DownloadPlugin
  BY <1>1, <1>3 DEF DownloadPlugin, LoadPlugin, LauncherTypeOK
<1>4. ASSUME NEW f \in Files, DownloadFile(f) \/ DownloadFails(f)
      PROVE  LauncherTypeOK'
  BY <1>4 DEF DownloadFile, DownloadFails, LauncherTypeOK, ServerTypeOK
<1>5. CASE DownloadVersionJson
  BY <1>1, <1>5 DEF DownloadVersionJson, LoadPlugin, LauncherTypeOK, ServerTypeOK
<1> QED
  BY <1>1, <1>2, <1>3, <1>4, <1>5, <1>6 DEF LauncherNext, LauncherStep

(* Every step keeps the types. *)
LEMMA NextTypeInv ==
  ASSUME TypeInv, [Next]_vars
  PROVE  TypeInv'
<1>1. CASE ToolStep
  <2>1. LauncherTypeOK'
    BY <1>1 DEF ToolStep, LauncherTypeOK, TypeInv, TypeOK
  <2> QED
    BY <1>1, <2>1, ToolTypeStep, ToolRunStep DEF ToolStep, TypeInv, TypeOK
<1>2. CASE LauncherNext /\ UNCHANGED toolVars
  <2>1. ToolTypeOK' /\ NumbersOK' /\ SendingOK' /\ RunReadable'
    BY <1>2 DEF toolVars, ToolTypeOK, NumbersOK, NumberOK, SendingOK, RunReadable, TypeInv, TypeOK
  <2> QED
    BY <1>2, <2>1, LauncherTypeStep DEF TypeInv, TypeOK
<1>3. CASE UNCHANGED vars
  BY <1>3 DEF vars, serverVars, toolVars, launcherVars, TypeInv, TypeOK, ServerTypeOK, ToolTypeOK,
              LauncherTypeOK, NumbersOK, NumberOK, SendingOK, RunReadable
<1> QED
  BY <1>1, <1>2, <1>3 DEF Next

(* Every variable is of its type in every reachable state. *)
THEOREM TypeCorrect == Spec => []TypeOK
<1>1. TypeInv => TypeOK
  BY DEF TypeInv
<1> QED
  BY <1>1, InitTypeInv, NextTypeInv, PTL DEF Spec

-----------------------------------------------------------------------------
(* Versions.  What is at the server or at the client is the tool's last release
   or an older one, so that the next release differs from both in its number. *)

Older(v, w) == v.day < w.day \/ (v.day = w.day /\ v.number < w.number)

ReleasedBefore(json1) == json1 = TornJson \/ json1 = json \/ Older(json1.version, json.version)

VersionsOK ==
  /\ Readable(json) =>
       json.version.day <= today /\ ReleasedBefore(storedJson) /\ ReleasedBefore(localJson)
  /\ EqualVersionsSameRelease
  /\ tool = "save" => Older(json.version, info.version) /\ info.version.day <= today

(* Before the first release every version is the same. *)
LEMMA InitVersionsOK == Init => VersionsOK
  BY DEF Init, ServerInit, ToolInit, LauncherInit, VersionsOK, ReleasedBefore,
         EqualVersionsSameRelease, NoJson, NoVersion

(* Days and numbers are numbers; the version of an unreadable version.json is
   not looked at. *)
LEMMA VersionNumbers ==
  ASSUME TypeInv
  PROVE  /\ today \in Nat
         /\ Readable(json) => json.version.day \in Nat /\ json.version.number \in Nat
         /\ info.version.day \in Nat /\ info.version.number \in Nat
         /\ storedJson # TornJson =>
              storedJson.version.day \in Nat /\ storedJson.version.number \in Nat
         /\ localJson # TornJson =>
              localJson.version.day \in Nat /\ localJson.version.number \in Nat
  BY ResourceBoundsAssumption DEF TypeInv, TypeOK, ServerTypeOK, ToolTypeOK, LauncherTypeOK,
     VersionInfo, Version

(* The steps of the tool never release an older version. *)
LEMMA ToolVersionsStep ==
  ASSUME TypeInv, VersionsOK, ToolNext, localJson' = localJson
  PROVE  VersionsOK'
<1> USE DEF serverVars, runVars, VersionsOK, ReleasedBefore, EqualVersionsSameRelease
<1>1. ASSUME NEW f \in Files,
             EditFile(f) \/ DeleteFile(f) \/ SkipDeleted(f) \/ BeginUpload(f) \/ UploadRejected(f)
      PROVE  VersionsOK'
  BY <1>1 DEF EditFile, DeleteFile, SkipDeleted, BeginUpload, UploadRejected, Store
<1>2. CASE NextDay
  BY <1>2, VersionNumbers DEF NextDay
<1>3. CASE CalculateFolderHashes
  <2>1. info'.version = UpdateVersion(json.version, today) /\ Readable(json)
    BY <1>3, NewRelease DEF CalculateFolderHashes
  <2>2. Older(json.version, info'.version) /\ info'.version.day <= today
    BY <2>1, VersionNumbers DEF UpdateVersion, Older
  <2> QED
    BY <1>3, <2>2 DEF CalculateFolderHashes
<1>4. CASE SaveVersionJson
  <2>1. Older(json.version, info.version) /\ json' = info /\ Readable(json)
    BY <1>4 DEF SaveVersionJson, TypeInv, RunReadable
  <2>2. storedJson # TornJson => Older(storedJson.version, info.version)
    BY <2>1, VersionNumbers DEF Older
  <2>3. localJson # TornJson => Older(localJson.version, info.version)
    BY <2>1, VersionNumbers DEF Older
  <2> QED
    BY <1>4, <2>1, <2>2, <2>3 DEF SaveVersionJson
<1>5. CASE SaveVersionJsonFails \/ KilledWhileSaving \/ UploadAborts \/ EndUpload
  BY <1>5 DEF SaveVersionJsonFails, KilledWhileSaving, UploadAborts, EndUpload, EndRun, Store
<1>6. CASE BeginPublish \/ EndPublish \/ PublishRejected
  <2>1. /\ storedJson' \in {TornJson, json, storedJson}
        /\ tool' # "save"
        /\ UNCHANGED <<json, today, localJson>>
        /\ Readable(json)
    BY <1>6 DEF BeginPublish, EndPublish, PublishRejected, StoreJson, EndRun, TypeInv, RunReadable
  <2>2. localJson # TornJson /\ localJson.version = json.version => localJson = json
    BY <2>1, VersionNumbers DEF Older
  <2> QED
    BY <2>1, <2>2
<1> QED
  BY <1>1, <1>2, <1>3, <1>4, <1>5, <1>6 DEF ToolNext

(* The launcher only copies a version that was released. *)
LEMMA LauncherVersionsStep ==
  ASSUME VersionsOK, LauncherNext, UNCHANGED toolVars
  PROVE  VersionsOK'
<1>1. UNCHANGED <<storedJson, json, info, today, tool>>
  BY DEF LauncherNext, LauncherStep, StartLauncher, LauncherKilled, CheckFails, CheckTimesOut,
         SameVersion, DownloadPlugin, DownloadFile, DownloadFails, DownloadVersionJson,
         serverVars, toolVars
<1>2. localJson' \in {localJson, storedJson, TornJson}
  BY DEF LauncherNext, LauncherStep, StartLauncher, LauncherKilled, CheckFails, CheckTimesOut,
         SameVersion, DownloadPlugin, DownloadFile, DownloadFails, DownloadVersionJson
<1> QED
  BY <1>1, <1>2 DEF VersionsOK, ReleasedBefore, EqualVersionsSameRelease

(* Whatever fails and whenever, two releases never share a version number: a
   launcher that skips an equal version misses nothing. *)
THEOREM EqualVersionsAreEqual == Spec => []EqualVersionsSameRelease
<1>1. TypeInv /\ VersionsOK /\ [Next]_vars => VersionsOK'
  <2> SUFFICES ASSUME TypeInv, VersionsOK, [Next]_vars PROVE VersionsOK'
    OBVIOUS
  <2>1. CASE ToolStep
    BY <2>1, ToolVersionsStep DEF ToolStep
  <2>2. CASE LauncherNext /\ UNCHANGED toolVars
    BY <2>2, LauncherVersionsStep
  <2>3. CASE UNCHANGED vars
    BY <2>3 DEF vars, serverVars, toolVars, launcherVars, VersionsOK, ReleasedBefore,
                EqualVersionsSameRelease
  <2> QED
    BY <2>1, <2>2, <2>3 DEF Next
<1>2. VersionsOK => EqualVersionsSameRelease
  BY DEF VersionsOK
<1> QED
  BY <1>1, <1>2, InitTypeInv, NextTypeInv, InitVersionsOK, PTL DEF Spec

-----------------------------------------------------------------------------
(* Contents.  They only get newer, so that a file uploaded after version.json
   was saved is at least as new as any version.json lists it; and of the last
   release everything has been sent but what is pending, under way or unsent. *)

Recorded(info_, f) ==
  info_.md5[f] <= edits + 1 /\ (folder[f] # Absent => folder[f] >= info_.md5[f])

Sent(f) == stored[f] # Torn /\ stored[f] >= json.md5[f]

FileOK(f) ==
  /\ folder[f] <= edits + 1
  /\ Recorded(json, f) /\ Recorded(storedJson, f)
  /\ tool = "save" => Recorded(info, f) /\ (f \notin pending => info.md5[f] = json.md5[f])
  /\ f = sending.file =>
       sending.content >= json.md5[f] /\ sending.content >= storedJson.md5[f]
  /\ (/\ json.md5[f] # Absent /\ f \notin unsent /\ f # sending.file
      /\ tool = "upload" => f \notin pending) => Sent(f)
  /\ (storedJson.md5[f] # Absent /\ f \notin unsent /\ f # sending.file) => Uploaded(f)

ContentsOK == \A f \in Files : FileOK(f)

(* At the start nothing is listed. *)
LEMMA InitContentsOK == Init => ContentsOK
  BY NoneAssumption DEF Init, ServerInit, ToolInit, ContentsOK, FileOK, Recorded, NoJson, NoFiles,
     NotSending

(* Contents are compared as numbers. *)
LEMMA ContentTypes ==
  ASSUME TypeInv, NEW f \in Files
  PROVE  /\ folder[f] \in Nat /\ json.md5[f] \in Nat /\ info.md5[f] \in Nat
         /\ storedJson.md5[f] \in Nat
         /\ stored[f] \in Int /\ sending.content \in Nat /\ edits \in Nat
         /\ sending # NotSending => tool = "upload" /\ sending.file \in pending
  BY ResourceBoundsAssumption DEF TypeInv, TypeOK, ServerTypeOK, ToolTypeOK, SendingOK, VersionInfo,
     TornJson, NoFiles

(* The steps of the tool keep the listed files where they are listed. *)
LEMMA ContentsStep ==
  ASSUME TypeInv, ContentsOK, ToolNext, NEW f \in Files
  PROVE  FileOK(f)'
<1> USE ContentTypes, NoneAssumption DEF serverVars, runVars, Recorded, Sent, Uploaded
<1>1. FileOK(f)
  BY DEF ContentsOK
<1>2. ASSUME NEW g \in Files, EditFile(g) \/ DeleteFile(g) PROVE FileOK(f)'
  <2>1. /\ edits' = edits + 1
        /\ folder'[f] \in {folder[f], edits + 2, Absent}
        /\ UNCHANGED <<serverVars, json, tool, info, pending, sending, unsent>>
    BY <1>2 DEF EditFile, DeleteFile, TypeInv, TypeOK, ToolTypeOK
  <2> QED
    BY <1>1, <2>1 DEF FileOK
<1>3. CASE NextDay
  BY <1>1, <1>3 DEF NextDay, FileOK
<1>4. CASE CalculateFolderHashes
  <2>1. info'.md5 = folder /\ pending' = ChangedFiles(json.md5, folder)
    BY <1>4, NewRelease DEF CalculateFolderHashes
  <2> QED
    BY <1>1, <1>4, <2>1 DEF CalculateFolderHashes, ChangedFiles, FileOK
<1>5. CASE SaveVersionJson
  <2>1. sending = NotSending
    BY <1>5 DEF SaveVersionJson
  <2> QED
    BY <1>1, <1>5, <2>1 DEF SaveVersionJson, FileOK, NotSending
<1>6. CASE SaveVersionJsonFails \/ UploadAborts
  BY <1>1, <1>6 DEF SaveVersionJsonFails, UploadAborts, EndRun, FileOK, NotSending
<1>12. CASE KilledWhileSaving
  <2>1. json'.md5[f] = Absent /\ sending' = NotSending /\ tool' = "idle"
        /\ UNCHANGED <<serverVars, folder, edits, unsent, sending>>
    BY <1>12 DEF KilledWhileSaving, EndRun, TornJson, NoFiles, TypeInv, SendingOK
  <2> QED
    BY <1>1, <2>1 DEF FileOK, NotSending
<1>7. ASSUME NEW g \in Files, SkipDeleted(g) PROVE FileOK(f)'
  BY <1>1, <1>7 DEF SkipDeleted, FileOK
<1>8. ASSUME NEW g \in Files, BeginUpload(g) PROVE FileOK(f)'
  <2>1. stored'[f] = IF f = g THEN Torn ELSE stored[f]
    BY <1>8 DEF BeginUpload, Store, TypeInv, TypeOK, ServerTypeOK
  <2> QED
    BY <1>1, <1>8, <2>1 DEF BeginUpload, Store, FileOK, NotSending
<1>9. ASSUME NEW g \in Files, UploadRejected(g) PROVE FileOK(f)'
  <2>1. f # g => stored'[f] = stored[f]
    BY <1>9 DEF UploadRejected, Store, TypeInv, TypeOK, ServerTypeOK
  <2> QED
    BY <1>1, <1>9, <2>1 DEF UploadRejected, Store, FileOK
<1>10. CASE EndUpload
  <2>1. stored'[f] = IF f = sending.file THEN sending.content ELSE stored[f]
    BY <1>10 DEF EndUpload, Store, TypeInv, TypeOK, ServerTypeOK
  <2> QED
    BY <1>1, <1>10, <2>1 DEF EndUpload, Store, FileOK, NotSending
<1>11. CASE BeginPublish \/ EndPublish \/ PublishRejected
  <2>1. /\ storedJson' \in {TornJson, storedJson} \/ (tool = "publish" /\ storedJson' = json)
        /\ UNCHANGED <<stored, folder, json, edits, unsent>>
        /\ sending = NotSending /\ sending' = NotSending
        /\ tool' # "upload" /\ tool' # "save"
        /\ tool = "upload" => pending = {}
    BY <1>11 DEF BeginPublish, EndPublish, PublishRejected, StoreJson, EndRun
  <2>2. TornJson.md5[f] = Absent
    BY DEF TornJson, NoFiles
  <2> QED
    BY <1>1, <2>1, <2>2 DEF FileOK, NotSending
<1> QED
  BY <1>2, <1>3, <1>4, <1>5, <1>6, <1>7, <1>8, <1>9, <1>10, <1>11, <1>12 DEF ToolNext

(* The other steps leave the server alone. *)
LEMMA NextContentsOK ==
  ASSUME TypeInv, ContentsOK, [Next]_vars
  PROVE  ContentsOK'
<1>1. CASE ToolStep
  BY <1>1, ContentsStep DEF ToolStep, ContentsOK
<1>2. CASE UNCHANGED toolVars /\ UNCHANGED serverVars
  BY <1>2 DEF serverVars, toolVars, ContentsOK, FileOK, Recorded, Sent, Uploaded
<1>3. CASE LauncherNext /\ UNCHANGED toolVars
  BY <1>2, <1>3 DEF LauncherNext, LauncherStep, StartLauncher, LauncherKilled, CheckFails,
       CheckTimesOut, SameVersion, DownloadPlugin, DownloadFile, DownloadFails,
       DownloadVersionJson
<1> QED
  BY <1>1, <1>2, <1>3 DEF Next, vars

(* Version.json never lists a file that is not at the server, at least as new,
   except those whose upload failed and the one being sent. *)
THEOREM PublishedFilesAreThere == Spec => []NeverPublishedBeforeItsFiles
<1>1. ContentsOK => NeverPublishedBeforeItsFiles
  BY DEF ContentsOK, FileOK, NeverPublishedBeforeItsFiles
<1> QED
  BY <1>1, InitTypeInv, NextTypeInv, InitContentsOK, NextContentsOK, PTL DEF Spec

-----------------------------------------------------------------------------
(* Installation.  While a run is smooth, every file it is to install is either
   still queued or here, at least as new as listed; and what the launcher is
   given for a queued one is new enough, because the server has it. *)

(* The file being sent is torn at the server, so ending its upload is a change
   the launcher's run does not survive as smooth. *)
SendingTorn == sending # NotSending => stored[sending.file] = Torn

Installed(f) == local[f] # Torn /\ local[f] >= storedJson.md5[f]

Queued(f) == launcher = "downloading" /\ f \in downloads

ToInstall(f) == f \notin unsent /\ storedJson.md5[f] # Absent /\ f # sending.file

InstallOK ==
  /\ launcher = "checking" => ~smooth
  /\ (launcher \in {"downloading", "loaded"} /\ smooth) =>
       \A f \in Files : ToInstall(f) => Queued(f) \/ Installed(f)

(* Nothing runs at first. *)
LEMMA InitInstallOK == Init => SendingTorn /\ InstallOK
  BY DEF Init, ToolInit, LauncherInit, SendingTorn, InstallOK

(* Only BeginUpload makes a file one that is being sent. *)
LEMMA SendingTornStep ==
  ASSUME TypeInv, SendingTorn, ToolNext
  PROVE  SendingTorn'
<1> USE DEF SendingTorn, serverVars, runVars
<1>1. ASSUME NEW f \in Files,
             EditFile(f) \/ DeleteFile(f) \/ SkipDeleted(f) \/ UploadRejected(f)
      PROVE  SendingTorn'
  BY <1>1 DEF EditFile, DeleteFile, SkipDeleted, UploadRejected
<1>2. ASSUME NEW f \in Files, BeginUpload(f) PROVE SendingTorn'
  BY <1>2 DEF BeginUpload, Store, TypeInv, TypeOK, ServerTypeOK
<1>3. CASE NextDay \/ CalculateFolderHashes \/ SaveVersionJson
  BY <1>3 DEF NextDay, CalculateFolderHashes, SaveVersionJson
<1>4. CASE SaveVersionJsonFails \/ KilledWhileSaving \/ EndUpload \/ UploadAborts \/ EndPublish
           \/ PublishRejected
  BY <1>4 DEF SaveVersionJsonFails, KilledWhileSaving, EndUpload, UploadAborts, EndPublish, PublishRejected, EndRun
<1>5. CASE BeginPublish
  BY <1>5 DEF BeginPublish
<1> QED
  BY <1>1, <1>2, <1>3, <1>4, <1>5 DEF ToolNext

(* A step of the tool that changes nothing at the server gives the launcher no
   more to install. *)
LEMMA ToolLeavesInstall ==
  ASSUME TypeInv, SendingTorn, ToolNext, UNCHANGED serverVars, NEW f \in Files, ToInstall(f)'
  PROVE  ToInstall(f)
<1> USE NoneAssumption DEF ToInstall, serverVars, runVars, NotSending
<1>1. ASSUME NEW g \in Files, EditFile(g) \/ DeleteFile(g) \/ SkipDeleted(g) \/ BeginUpload(g)
                              \/ UploadRejected(g)
      PROVE  ToInstall(f)
  BY <1>1 DEF EditFile, DeleteFile, SkipDeleted, BeginUpload, UploadRejected
<1>2. CASE NextDay \/ CalculateFolderHashes \/ SaveVersionJson \/ BeginPublish
  BY <1>2 DEF NextDay, CalculateFolderHashes, SaveVersionJson, BeginPublish
<1>3. CASE SaveVersionJsonFails \/ KilledWhileSaving \/ EndPublish \/ PublishRejected
  <2>1. sending = NotSending
    BY <1>3 DEF SaveVersionJsonFails, KilledWhileSaving, EndPublish, PublishRejected, TypeInv, SendingOK
  <2> QED
    BY <1>3, <2>1 DEF SaveVersionJsonFails, KilledWhileSaving, EndPublish, PublishRejected, EndRun
<1>4. CASE UploadAborts
  BY <1>4 DEF UploadAborts, EndRun, TypeInv, SendingOK
<1>5. CASE EndUpload
  <2>1. stored' = [stored EXCEPT ![sending.file] = sending.content] /\ sending.file \in Files
    BY <1>5 DEF EndUpload, Store, TypeInv, TypeOK, ToolTypeOK, SendingOK
  <2>2. stored[sending.file] = sending.content /\ sending.content \in Content \union {Absent}
    BY <2>1 DEF TypeInv, TypeOK, ServerTypeOK, ToolTypeOK
  <2>3. stored[sending.file] = Torn
    BY <1>5 DEF EndUpload, SendingTorn
  <2> QED
    BY <2>2, <2>3, ResourceBoundsAssumption
<1> QED
  BY <1>1, <1>2, <1>3, <1>4, <1>5 DEF ToolNext

(* A step of the launcher: what it queues differs from what is listed, what it
   does not queue is here, and what it gets for a queued file is good. *)
LEMMA LauncherInstallStep ==
  ASSUME TypeInv, ContentsOK, InstallOK, LauncherNext, UNCHANGED toolVars
  PROVE  InstallOK'
<1> USE DEF InstallOK, ToInstall, Queued, Installed, serverVars, toolVars
<1>1. CASE StartLauncher \/ CheckFails \/ CheckTimesOut \/ SameVersion \/ LauncherKilled
  BY <1>1 DEF StartLauncher, CheckFails, CheckTimesOut, SameVersion, LoadPlugin, LauncherKilled
<1>2. CASE DownloadPlugin
  <2>1. UNCHANGED <<stored, storedJson>>
    BY <1>2 DEF DownloadPlugin
  <2>2. ASSUME NEW f \in Files, storedJson.md5[f] # Absent
        PROVE  /\ local'[f] = local[f]
               /\ f \in downloads' <=> storedJson.md5[f] # local[f]
    BY <1>2, <2>2 DEF DownloadPlugin
  <2>3. launcher' = IF downloads' = {} THEN "loaded" ELSE "downloading"
    BY <1>2 DEF DownloadPlugin, LoadPlugin
  <2>4. ASSUME NEW f \in Files, ToInstall(f)
        PROVE  Queued(f)' \/ Installed(f)'
    BY <2>1, <2>2, <2>3, <2>4, ContentTypes
  <2> QED
    BY <2>1, <2>3, <2>4
<1>3. ASSUME NEW g \in Files, DownloadFile(g) PROVE InstallOK'
  <2>1. /\ launcher = "downloading" /\ downloads' = downloads \ {g}
        /\ UNCHANGED <<stored, storedJson, launcher, smooth>>
        /\ \A f \in Files : local'[f] = IF f = g THEN stored[f] ELSE local[f]
    BY <1>3 DEF DownloadFile, TypeInv, TypeOK, LauncherTypeOK
  <2>2. ToInstall(g) => Uploaded(g)
    BY DEF ContentsOK, FileOK
  <2> QED
    BY <2>1, <2>2 DEF Uploaded
<1>4. ASSUME NEW g \in Files, DownloadFails(g) PROVE InstallOK'
  BY <1>4 DEF DownloadFails
<1>5. CASE DownloadVersionJson
  BY <1>5 DEF DownloadVersionJson, LoadPlugin
<1> QED
  BY <1>1, <1>2, <1>3, <1>4, <1>5 DEF LauncherNext, LauncherStep

(* A launcher run that nothing disturbs installs the release, whatever earlier
   runs of either program had left behind: downloadPlugin compares contents. *)
THEOREM UndisturbedUpdatesInstall == Spec => []UndisturbedUpdateInstalls
<1> DEFINE Inv == TypeInv /\ ContentsOK /\ SendingTorn /\ InstallOK
<1>1. Inv /\ [Next]_vars => SendingTorn' /\ InstallOK'
  <2> SUFFICES ASSUME Inv, [Next]_vars PROVE SendingTorn' /\ InstallOK'
    OBVIOUS
  <2>1. CASE ToolStep
    <3>1. ToolNext /\ UNCHANGED <<local, launcher, downloads>>
          /\ (smooth' => smooth /\ UNCHANGED serverVars)
      BY <2>1 DEF ToolStep
    <3>2. SendingTorn'
      BY <3>1, SendingTornStep
    <3>3. ASSUME NEW f \in Files, UNCHANGED serverVars, ToInstall(f)'
          PROVE  ToInstall(f)
      BY <3>1, <3>3, ToolLeavesInstall
    <3> QED
      BY <3>1, <3>2, <3>3 DEF InstallOK, Queued, Installed, serverVars
  <2>2. CASE LauncherNext /\ UNCHANGED toolVars
    <3>1. UNCHANGED serverVars
      BY <2>2 DEF LauncherNext, LauncherStep, StartLauncher, LauncherKilled, CheckFails,
         CheckTimesOut, SameVersion, DownloadPlugin, DownloadFile, DownloadFails,
         DownloadVersionJson
    <3> QED
      BY <2>2, <3>1, LauncherInstallStep DEF SendingTorn, serverVars, toolVars
  <2>3. CASE UNCHANGED vars
    BY <2>3 DEF vars, serverVars, toolVars, launcherVars, SendingTorn, InstallOK, ToInstall,
         Queued, Installed
  <2> QED
    BY <2>1, <2>2, <2>3 DEF Next
<1>2. Inv => UndisturbedUpdateInstalls
  BY DEF InstallOK, ToInstall, Queued, Installed, UndisturbedUpdateInstalls
<1> QED
  BY <1>1, <1>2, InitTypeInv, NextTypeInv, InitContentsOK, NextContentsOK, InitInstallOK,
     PTL DEF Spec

=============================================================================
