--------------------------- MODULE ResourceServer ---------------------------
(***************************************************************************)
(* The resource server: one directory of files and a version.json that     *)
(* lists them.  It answers /version, /download and /upload, and keeps no   *)
(* state but the files.  An upload overwrites its file in place, so that   *)
(* whoever asks meanwhile is given a part of it.                           *)
(*                                                                         *)
(* A file's content is a number, and its MD5 is that number: every edit    *)
(* makes a new one, so that a greater number is a newer content.           *)
(***************************************************************************)
EXTENDS Integers, FiniteSets

CONSTANTS
  Files,     (* The names of the resource files.                            *)
  MaxEdits,  (* Bound: edits of the resource folder.                        *)
  MaxDay     (* Bound: days.                                                *)

ASSUME FilesAssumption == IsFiniteSet(Files) /\ Files # {}
ASSUME ResourceBoundsAssumption == MaxEdits \in Nat /\ MaxDay \in Nat \ {0}

VARIABLES
  stored,      (* The files in the server's directory.                      *)
  storedJson   (* The version.json in the server's directory.               *)

serverVars == <<stored, storedJson>>

Absent == 0         (* The content of a file that is not there.              *)
Torn   == -1        (* The content of a file that is partly written.         *)
Content == 1 .. MaxEdits + 1

Version == [day : 0 .. MaxDay, number : 0 .. MaxEdits + 1]

(* VersionInfo: a version and the MD5 of every listed file. *)
VersionInfo == [version : Version, md5 : [Files -> Content \union {Absent}]]

NoFiles == [f \in Files |-> Absent]

(* "0.0", the launcher's version without a readable version.json, and
   "19700101.0", the tool's without one. *)
NoVersion == [day |-> 0, number |-> 0]
NoJson    == [version |-> NoVersion, md5 |-> NoFiles]
TornJson  == [version |-> [day |-> Torn, number |-> 0], md5 |-> NoFiles]

ServerInit ==
  /\ stored = NoFiles
  /\ storedJson = NoJson

ServerTypeOK ==
  /\ stored \in [Files -> Content \union {Absent, Torn}]
  /\ storedJson \in VersionInfo \union {TornJson}

(* /upload of a file and of version.json. *)
Store(f, content) == stored' = [stored EXCEPT ![f] = content] /\ UNCHANGED storedJson

StoreJson(json) == storedJson' = json /\ UNCHANGED stored

=============================================================================
