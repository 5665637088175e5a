---------------------------- MODULE ScormPackages -----------------------------
(***************************************************************************)
(* SCORM packages and their files: the documents of                        *)
(* model/Scorm/ScormPackage.ts and the files kept under each packageId, as *)
(* upload, clone and delete of scormPackageCtrl.ts and                     *)
(* utils/scorm/scormZipExtractor.ts make and remove them, with the entries *)
(* an upload or a clone adds to its course (CourseContent; one course).    *)
(* What becomes of a document in between is in ScormPublication.           *)
(*                                                                         *)
(* An upload starts the saves of all files at once; the first that fails   *)
(* ends it, and the others are still under way while it cleans up.  A      *)
(* failure after the document exists deletes the files and leaves the      *)
(* document.  Deleting removes the files first.                            *)
(***************************************************************************)
EXTENDS Naturals, FiniteSets

CONSTANTS
  Package,    \* the packageIds that may be drawn (uuid v4)
  NoPackage,  \* the package of an editor at rest
  Editor,     \* the requests in flight at once
  File        \* the files of a package

ASSUME PackageAssumption == NoPackage \notin Package /\ IsFiniteSet(Package)

VARIABLES
  package,    \* package[p]: the ScormPackage document with packageId p
  files,      \* files[p]: the files stored under p
  saving,     \* the saves of files that have been started and not ended
  order,      \* order[p]: the place of p in the course, 0 for none
  promise,    \* promise[p]: what p's users were told (no variable of the code)
  editor      \* editor[e]: where request e is and what it holds

packages == <<package, files, saving, order, promise, editor>>

-------------------------------------------------------------------------------

(* `void` is an id drawn by an upload that has no document yet.  `path` is *)
(* filePath and storagePath: the id whose files the document describes.    *)
Document ==
  [at : {"new", "void", "live", "gone"}, path : Package \cup {NoPackage},
   isGlobal : BOOLEAN]

Undrawn == [at |-> "new", path |-> NoPackage, isGlobal |-> FALSE]

Made(path, isGlobal) == [at |-> "live", path |-> path, isGlobal |-> isGlobal]

Live == {p \in Package : package[p].at = "live"}

(* A request's package, the place in the course it counted, and whether    *)
(* the package is a clone.                                                 *)
Edit ==
  [at : {"idle", "extract", "tidy", "create", "count", "link", "answer", "clean",
         "wipe", "drop"},
   of : Package \cup {NoPackage}, place : Nat, clone : BOOLEAN]

Editing(at, p, clone) == [at |-> at, of |-> p, place |-> 0, clone |-> clone]
AtRest == Editing("idle", NoPackage, FALSE)

PackagesInit ==
  /\ package = [p \in Package |-> Undrawn]
  /\ files = [p \in Package |-> {}]
  /\ saving = {}
  /\ order = [p \in Package |-> 0]
  /\ promise = [p \in Package |-> "none"]
  /\ editor = [e \in Editor |-> AtRest]

Go(e, at) == editor' = [editor EXCEPT ![e].at = at]
End(e) == editor' = [editor EXCEPT ![e] = AtRest]
Put(p, doc) == package' = [package EXCEPT ![p] = doc]

-------------------------------------------------------------------------------

(* uploadPackage draws the id and extractPackage starts every save. *)
StartUpload(e, p) ==
  /\ editor[e].at = "idle"
  /\ package[p].at = "new"
  /\ Put(p, [Undrawn EXCEPT !.at = "void"])
  /\ saving' = saving \cup ({p} \X File)
  /\ editor' = [editor EXCEPT ![e] = Editing("extract", p, FALSE)]
  /\ UNCHANGED <<files, order, promise>>

SaveFile(p, f) ==
  /\ <<p, f>> \in saving
  /\ saving' = saving \ {<<p, f>>}
  /\ files' = [files EXCEPT ![p] = @ \cup {f}]
  /\ UNCHANGED <<package, order, promise, editor>>

(* Promise.all settles when all saves have ended, or at the first failure. *)
Extracted(e) ==
  /\ editor[e].at = "extract"
  /\ files[editor[e].of] = File
  /\ Go(e, "create")
  /\ UNCHANGED <<package, files, saving, order, promise>>

ExtractFails(e) ==
  /\ editor[e].at = "extract"
  /\ \E s \in saving : s[1] = editor[e].of /\ saving' = saving \ {s}
  /\ Go(e, "tidy")
  /\ UNCHANGED <<package, files, order, promise>>

(* The clean-up of the extractor, then that of the controller.  An error   *)
(* of the storage, which may leave files, is swallowed by both.            *)
CleanUp(e) ==
  /\ editor[e].at \in {"tidy", "clean"}
  /\ \E left \in SUBSET files[editor[e].of] :
       files' = [files EXCEPT ![editor[e].of] = left]
  /\ IF editor[e].at = "tidy" THEN Go(e, "clean") ELSE End(e)
  /\ UNCHANGED <<package, saving, order, promise>>

(* The manifest is parsed and the document created, a draft.  Only a       *)
(* global admin makes it global.                                           *)
CreateDocument(e) ==
  /\ editor[e].at = "create"
  /\ \E isGlobal \in BOOLEAN, at \in {"count", "answer"} :
       /\ Put(editor[e].of, Made(editor[e].of, isGlobal))
       /\ Go(e, at)
  /\ UNCHANGED <<files, saving, order, promise>>

(* With a course, the entry gets the number of its entries plus one, which *)
(* the unique index on course and order may refuse.                        *)
CountContents(e) ==
  /\ editor[e].at = "count"
  /\ editor' = [editor EXCEPT ![e].at = "link",
       ![e].place = Cardinality({p \in Package : order[p] # 0}) + 1]
  /\ UNCHANGED <<package, files, saving, order, promise>>

PlaceTaken(e) == \E p \in Package : order[p] = editor[e].place

CreateContent(e) ==
  /\ editor[e].at = "link"
  /\ ~PlaceTaken(e)
  /\ order' = [order EXCEPT ![editor[e].of] = editor[e].place]
  /\ Go(e, "answer")
  /\ UNCHANGED <<package, files, saving, promise>>

(* Any failure of an upload leads to its clean-up, a clone has none. *)
Fails(e) ==
  /\ editor[e].at \in {"create", "count", "link"}
  /\ IF editor[e].clone THEN End(e) ELSE Go(e, "clean")
  /\ UNCHANGED <<package, files, saving, order, promise>>

(* 201: an upload's users may count on its files from now on. *)
Answer(e) ==
  /\ editor[e].at = "answer"
  /\ promise' = [promise EXCEPT ![editor[e].of] =
                   IF editor[e].clone \/ @ # "none" THEN @ ELSE "kept"]
  /\ End(e)
  /\ UNCHANGED <<package, files, saving, order>>

(* courseContentCtrl takes an entry out; the others keep their order. *)
DeleteContent(p) ==
  /\ order[p] # 0
  /\ order' = [order EXCEPT ![p] = 0]
  /\ UNCHANGED <<package, files, saving, promise, editor>>

-------------------------------------------------------------------------------

(* clonePackage makes a document with an id of its own that describes the  *)
(* files of its source; no file is copied.                                 *)
ClonePackage(e, p, q) ==
  /\ editor[e].at = "idle"
  /\ p \in Live
  /\ package[p].isGlobal
  /\ package[q].at = "new"
  /\ Put(q, Made(package[p].path, FALSE))
  /\ \E at \in {"count", "answer"} :
       editor' = [editor EXCEPT ![e] =
         Editing(at, q, TRUE)]
  /\ UNCHANGED <<files, saving, order, promise>>

(* Mutant: deletePackage names the directory by storagePath. *)
PathOf(p) == package[p].path

(* The directory deletePackage removes: the packageId of the document. *)
Directory(p) == p

StartDelete(e, p) ==
  /\ editor[e].at = "idle"
  /\ p \in Live
  /\ promise' = [promise EXCEPT ![p] = "taken back"]
  /\ editor' = [editor EXCEPT ![e] = Editing("wipe", p, FALSE)]
  /\ UNCHANGED <<package, files, saving, order>>

(* An error of the storage, which may leave files, is swallowed. *)
DeleteFiles(e) ==
  /\ editor[e].at = "wipe"
  /\ LET d == Directory(editor[e].of) IN
       \E left \in SUBSET files[d] : files' = [files EXCEPT ![d] = left]
  /\ Go(e, "drop")
  /\ UNCHANGED <<package, saving, order, promise>>

DeleteDocument(e) ==
  /\ editor[e].at = "drop"
  /\ Put(editor[e].of, [package[editor[e].of] EXCEPT !.at = "gone"])
  /\ End(e)
  /\ UNCHANGED <<files, saving, order, promise>>

(* A restart cuts the request off, and the saves of files it started.      *)
CutOff(e) ==
  /\ editor[e].at # "idle"
  /\ End(e)
  /\ saving' = {s \in saving : s[1] # editor[e].of}
  /\ UNCHANGED <<package, files, order, promise>>

(* Package not found: answered 404. *)
Refuse ==
  /\ Live # Package
  /\ UNCHANGED packages

PackagesNext ==
  \/ Refuse
  \/ \E e \in Editor :
       \/ \E p \in Package :
            \/ StartUpload(e, p) \/ StartDelete(e, p)
            \/ \E q \in Package : ClonePackage(e, p, q)
       \/ Extracted(e) \/ ExtractFails(e) \/ CleanUp(e) \/ CreateDocument(e)
       \/ CountContents(e) \/ CreateContent(e) \/ Fails(e) \/ Answer(e)
       \/ DeleteFiles(e) \/ DeleteDocument(e) \/ CutOff(e)
  \/ \E p \in Package, f \in File : SaveFile(p, f)
  \/ \E p \in Package : DeleteContent(p)

PackagesSpec == PackagesInit /\ [][PackagesNext]_packages

-------------------------------------------------------------------------------

(* Every variable has its type. *)
PackagesTypeOK ==
  /\ package \in [Package -> Document]
  /\ files \in [Package -> SUBSET File]
  /\ saving \subseteq Package \X File
  /\ order \in [Package -> Nat]
  /\ promise \in [Package -> {"none", "kept", "taken back"}]
  /\ editor \in [Editor -> Edit]

(* A package whose upload was answered 201 and that nobody asked to delete *)
(* has its document and all of its files, whatever fails, is cut off, or   *)
(* is cleaned up or deleted elsewhere; deleting a clone, which describes   *)
(* the files of its source, leaves them alone                              *)
(* (scormPackageCtrl.ts:231-240, 458-467, 505-520).                        *)
UploadsServe ==
  \A p \in Package :
    promise[p] = "kept" => p \in Live /\ files[p] = File

===============================================================================
