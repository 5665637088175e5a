-------------------------- MODULE ScormPackages_proofs -------------------------
(***************************************************************************)
(* Proofs about SCORM packages, for any packages, files, users and         *)
(* requests: an answered upload keeps its document and its files, status   *)
(* and isPublished of a package agree, the attempts of a user are numbered *)
(* in a row while the statistics stay in range, and what is stored of a    *)
(* manifest is what it says.                                               *)
(***************************************************************************)
EXTENDS ScormPackages, ScormPublication, ScormLaunch, ScormManifest, FiniteSetTheorems, TLAPS

(* An upload from the start of its saves to its answer or its clean-up.    *)
Uploading(e) ==
  /\ editor[e].clone = FALSE
  /\ editor[e].at \in {"extract", "tidy", "create", "count", "link", "answer", "clean"}

(* What a request may count on, where it is.  An upload owns its id: the   *)
(* document is its own to make, and the files are its own to clean up, as  *)
(* nobody has been told of them.                                           *)
EditSound(e) ==
  /\ editor[e].at # "idle" => editor[e].of \in Package
  /\ editor[e].clone = TRUE => editor[e].at \in {"idle", "count", "link", "answer"}
  /\ editor[e].at \in {"extract", "create"} => package[editor[e].of].at = "void"
  /\ Uploading(e) => package[editor[e].of].at # "new" /\ promise[editor[e].of] # "kept"
  /\ editor[e].at = "create" => files[editor[e].of] = File
  /\ /\ editor[e].at \in {"count", "link", "answer"}
     /\ editor[e].clone = FALSE
     /\ promise[editor[e].of] = "none"
     => package[editor[e].of].at = "live" /\ files[editor[e].of] = File
  /\ editor[e].at \in {"wipe", "drop"} =>
       /\ promise[editor[e].of] = "taken back"
       /\ package[editor[e].of].at \in {"live", "gone"}

(* Nothing is promised of a package without a document yet. *)
Untold == \A p \in Package : package[p].at \in {"new", "void"} => promise[p] = "none"

(* No two uploads have drawn one id. *)
UploadsApart ==
  \A d \in Editor, e \in Editor :
    d # e /\ Uploading(d) /\ Uploading(e) => editor[d].of # editor[e].of

PackagesInv ==
  /\ PackagesTypeOK
  /\ UploadsServe
  /\ Untold
  /\ UploadsApart
  /\ \A e \in Editor : EditSound(e)

-------------------------------------------------------------------------------

LEMMA PackagesInvInit == PackagesInit => PackagesInv
<1> SUFFICES ASSUME PackagesInit PROVE PackagesInv
  OBVIOUS
<1> USE DEF PackagesInit, AtRest, Editing, Undrawn
<1>1. PackagesTypeOK
  BY DEF PackagesTypeOK, Document, Edit
<1>2. \A e \in Editor : editor[e].at = "idle" /\ editor[e].clone = FALSE
  OBVIOUS
<1>3. \A p \in Package : promise[p] = "none"
  OBVIOUS
<1>4. UploadsServe /\ Untold
  BY <1>3 DEF UploadsServe, Untold
<1>5. UploadsApart
  BY <1>2 DEF UploadsApart, Uploading
<1>6. \A e \in Editor : EditSound(e)
  BY <1>2 DEF EditSound, Uploading
<1> QED
  BY <1>1, <1>4, <1>5, <1>6 DEF PackagesInv

(* What a change of one entry of editor leaves. *)
LEMMA OneEditor ==
  ASSUME PackagesTypeOK, NEW e \in Editor, NEW r \in Edit,
         editor' = [editor EXCEPT ![e] = r]
  PROVE  /\ editor' \in [Editor -> Edit]
         /\ editor'[e] = r
         /\ \A d \in Editor : d # e => editor'[d] = editor[d]
BY DEF PackagesTypeOK

LEMMA Moved ==
  ASSUME PackagesTypeOK, NEW e \in Editor, NEW at, Go(e, at),
         at \in {"idle", "extract", "tidy", "create", "count", "link", "answer",
                 "clean", "wipe", "drop"}
  PROVE  /\ editor' \in [Editor -> Edit]
         /\ editor'[e].at = at
         /\ editor'[e].of = editor[e].of
         /\ editor'[e].clone = editor[e].clone
         /\ \A d \in Editor : d # e => editor'[d] = editor[d]
BY DEF PackagesTypeOK, Go, Edit

LEMMA Ended ==
  ASSUME PackagesTypeOK, NEW e \in Editor, End(e)
  PROVE  /\ editor' \in [Editor -> Edit]
         /\ editor'[e].at = "idle"
         /\ editor'[e].clone = FALSE
         /\ \A d \in Editor : d # e => editor'[d] = editor[d]
<1>1. AtRest \in Edit /\ AtRest.at = "idle" /\ AtRest.clone = FALSE
  BY DEF AtRest, Editing, Edit
<1> QED
  BY <1>1, OneEditor DEF End

(* A request is sound that stands still while its package does too; its    *)
(* package may be taken back, or get files.                                *)
LEMMA Undisturbed ==
  ASSUME NEW d \in Editor, EditSound(d), editor'[d] = editor[d],
         editor[d].at # "idle" =>
           /\ package'[editor[d].of].at = package[editor[d].of].at
           /\ promise'[editor[d].of] \in {promise[editor[d].of], "taken back"}
           /\ files[editor[d].of] = File => files'[editor[d].of] = File
  PROVE  EditSound(d)'
<1>1. CASE editor[d].at = "idle"
  BY <1>1 DEF EditSound, Uploading
<1>2. CASE editor[d].at # "idle"
  BY <1>2 DEF EditSound, Uploading
<1> QED
  BY <1>1, <1>2

LEMMA RestIsSound ==
  ASSUME NEW d \in Editor, editor'[d].at = "idle", editor'[d].clone = FALSE
  PROVE  EditSound(d)' /\ ~Uploading(d)'
BY DEF EditSound, Uploading

-------------------------------------------------------------------------------
(* Each request keeps the invariant.                                       *)

LEMMA StartUploadKeeps ==
  ASSUME PackagesInv, NEW e \in Editor, NEW p \in Package, StartUpload(e, p)
  PROVE  PackagesInv'
<1> USE DEF PackagesInv
<1>1. /\ package[p].at = "new" /\ promise[p] = "none"
      /\ files' = files /\ order' = order /\ promise' = promise
      /\ PackagesTypeOK
  BY DEF StartUpload, Untold
<1>2. /\ Editing("extract", p, FALSE) \in Edit
      /\ Editing("extract", p, FALSE).at = "extract"
      /\ Editing("extract", p, FALSE).of = p
      /\ Editing("extract", p, FALSE).clone = FALSE
  BY DEF Editing, Edit
<1>3. /\ editor' \in [Editor -> Edit]
      /\ editor'[e].at = "extract" /\ editor'[e].of = p /\ editor'[e].clone = FALSE
      /\ \A d \in Editor : d # e => editor'[d] = editor[d]
  BY <1>1, <1>2, OneEditor DEF StartUpload
<1>4. /\ package' \in [Package -> Document]
      /\ package'[p].at = "void"
      /\ \A q \in Package : q # p => package'[q] = package[q]
  BY <1>1 DEF StartUpload, Put, Undrawn, Document, PackagesTypeOK
<1>5. PackagesTypeOK'
  BY <1>1, <1>3, <1>4 DEF PackagesTypeOK, StartUpload
<1>6. UploadsServe'
  BY <1>1, <1>4 DEF UploadsServe, Live
<1>7. Untold'
  BY <1>1, <1>4 DEF Untold
<1>8. \A d \in Editor : d # e /\ Uploading(d) => editor[d].of # p
  BY <1>1 DEF EditSound
<1>9. UploadsApart'
  BY <1>3, <1>8 DEF UploadsApart, Uploading
<1>10. ASSUME NEW d \in Editor PROVE EditSound(d)'
  <2>1. CASE d = e
    BY <2>1, <1>1, <1>3, <1>4 DEF EditSound, Uploading
  <2>2. CASE d # e
    <3>1. EditSound(d) /\ editor'[d] = editor[d]
      BY <2>2, <1>3
    <3>2. CASE editor[d].of = p
      BY <3>1, <3>2, <1>1, <1>4 DEF EditSound, Uploading
    <3>3. CASE editor[d].of # p
      <4>1. editor[d].at # "idle" => editor[d].of \in Package
        BY <3>1 DEF EditSound
      <4>2. editor[d].at # "idle" => package'[editor[d].of] = package[editor[d].of]
        BY <4>1, <3>3, <1>4
      <4> QED
        BY <3>1, <4>2, <1>1, Undisturbed
    <3> QED
      BY <3>2, <3>3
  <2> QED
    BY <2>1, <2>2
<1> QED
  BY <1>5, <1>6, <1>7, <1>9, <1>10

LEMMA SaveFileKeeps ==
  ASSUME PackagesInv, NEW p \in Package, NEW f \in File, SaveFile(p, f)
  PROVE  PackagesInv'
<1> USE DEF PackagesInv, SaveFile
<1>1. /\ files' \in [Package -> SUBSET File]
      /\ \A q \in Package : files[q] \subseteq files'[q]
  BY DEF PackagesTypeOK
<1>2. \A q \in Package : files[q] = File => files'[q] = File
  BY <1>1
<1>3. PackagesTypeOK'
  BY <1>1 DEF PackagesTypeOK
<1>4. UploadsServe' /\ Untold' /\ UploadsApart'
  BY <1>2 DEF UploadsServe, Live, Untold, UploadsApart, Uploading
<1>5. ASSUME NEW d \in Editor PROVE EditSound(d)'
  BY <1>2 DEF EditSound, Uploading
<1> QED
  BY <1>3, <1>4, <1>5

(* A request that only goes on, none of whose fields changes but its place.*)
LEMMA GoingOnKeeps ==
  ASSUME PackagesInv, NEW e \in Editor,
         package' = package, files' = files, promise' = promise,
         saving' \subseteq saving, order' \in [Package -> Nat],
         editor' \in [Editor -> Edit],
         \A d \in Editor : d # e => editor'[d] = editor[d],
         \/ editor'[e].at = "idle" /\ editor'[e].clone = FALSE
         \/ /\ editor'[e].of = editor[e].of
            /\ editor'[e].clone = editor[e].clone
            /\ \/ /\ editor[e].at = "extract" /\ editor'[e].at = "create"
                  /\ files[editor[e].of] = File
               \/ editor[e].at = "extract" /\ editor'[e].at = "tidy"
               \/ editor[e].at = "count" /\ editor'[e].at = "link"
               \/ editor[e].at = "link" /\ editor'[e].at = "answer"
               \/ /\ editor[e].at \in {"create", "count", "link"}
                  /\ editor'[e].at = "clean" /\ editor[e].clone = FALSE
  PROVE  PackagesInv'
<1> USE DEF PackagesInv
<1>1. PackagesTypeOK'
  BY DEF PackagesTypeOK
<1>2. UploadsServe' /\ Untold'
  BY DEF UploadsServe, Live, Untold
<1>3. Uploading(e)' => Uploading(e) /\ editor'[e].of = editor[e].of
  BY DEF Uploading
<1>4. \A d \in Editor : Uploading(d)' => Uploading(d) /\ editor'[d].of = editor[d].of
  BY <1>3 DEF Uploading
<1>5. UploadsApart'
  BY <1>4 DEF UploadsApart
<1>6. EditSound(e)'
  <2>1. CASE editor'[e].at = "idle" /\ editor'[e].clone = FALSE
    BY <2>1, RestIsSound
  <2>2. CASE /\ editor'[e].of = editor[e].of
             /\ editor'[e].clone = editor[e].clone
             /\ editor[e].at = "extract" /\ editor'[e].at = "create"
             /\ files[editor[e].of] = File
    BY <2>2 DEF EditSound, Uploading
  <2>3. CASE /\ editor'[e].of = editor[e].of
             /\ editor'[e].clone = editor[e].clone
             /\ editor[e].at = "extract" /\ editor'[e].at = "tidy"
    BY <2>3 DEF EditSound, Uploading
  <2>4. CASE /\ editor'[e].of = editor[e].of
             /\ editor'[e].clone = editor[e].clone
             /\ \/ editor[e].at = "count" /\ editor'[e].at = "link"
                \/ editor[e].at = "link" /\ editor'[e].at = "answer"
    BY <2>4 DEF EditSound, Uploading
  <2>5. CASE /\ editor'[e].of = editor[e].of
             /\ editor'[e].clone = editor[e].clone
             /\ editor[e].at \in {"create", "count", "link"}
             /\ editor'[e].at = "clean" /\ editor[e].clone = FALSE
    BY <2>5 DEF EditSound, Uploading
  <2> QED
    BY <2>1, <2>2, <2>3, <2>4, <2>5
<1>7. ASSUME NEW d \in Editor, d # e PROVE EditSound(d)'
  BY <1>7, Undisturbed
<1> QED
  BY <1>1, <1>2, <1>5, <1>6, <1>7

LEMMA ExtractedKeeps ==
  ASSUME PackagesInv, NEW e \in Editor, Extracted(e) \/ ExtractFails(e)
  PROVE  PackagesInv'
<1>1. PackagesTypeOK
  BY DEF PackagesInv
<1>2. CASE Extracted(e)
  <2>1. Go(e, "create")
    BY <1>2 DEF Extracted
  <2> HIDE DEF Go
  <2>2. /\ editor' \in [Editor -> Edit] /\ editor'[e].at = "create"
        /\ editor'[e].of = editor[e].of /\ editor'[e].clone = editor[e].clone
        /\ \A d \in Editor : d # e => editor'[d] = editor[d]
    BY <1>1, <2>1, Moved
  <2> QED
    BY <1>1, <1>2, <2>2, GoingOnKeeps DEF Extracted, PackagesTypeOK
<1>3. CASE ExtractFails(e)
  <2>1. Go(e, "tidy")
    BY <1>3 DEF ExtractFails
  <2>2. /\ editor' \in [Editor -> Edit] /\ editor'[e].at = "tidy"
        /\ editor'[e].of = editor[e].of /\ editor'[e].clone = editor[e].clone
        /\ \A d \in Editor : d # e => editor'[d] = editor[d]
    BY <1>1, <2>1, Moved
  <2> QED
    BY <1>1, <1>3, <2>2, GoingOnKeeps DEF ExtractFails, PackagesTypeOK
<1> QED
  BY <1>2, <1>3

LEMMA CountContentsKeeps ==
  ASSUME PackagesInv, NEW e \in Editor, CountContents(e)
  PROVE  PackagesInv'
<1>1. PackagesTypeOK
  BY DEF PackagesInv
<1> DEFINE n == Cardinality({p \in Package : order[p] # 0})
<1>2. n \in Nat
  <2>1. IsFiniteSet(Package)
    BY PackageAssumption
  <2>2. IsFiniteSet({p \in Package : order[p] # 0})
    BY <2>1, FS_Subset
  <2> QED
    BY <2>2, FS_CardinalityType
<1> HIDE DEF n
<1>3. editor' = [editor EXCEPT ![e].at = "link", ![e].place = n + 1]
  BY DEF CountContents, n
<1> DEFINE m == [editor[e] EXCEPT !.at = "link"]
           r == [m EXCEPT !.place = n + 1]
<1>7. m \in Edit /\ m.at = "link" /\ m.of = editor[e].of /\ m.clone = editor[e].clone
  BY <1>1 DEF PackagesTypeOK, Edit
<1>6. editor' = [editor EXCEPT ![e] = r]
  BY <1>1, <1>3 DEF PackagesTypeOK
<1> HIDE DEF m
<1>5. r \in Edit /\ r.at = "link" /\ r.of = editor[e].of /\ r.clone = editor[e].clone
  BY <1>2, <1>7 DEF Edit
<1> HIDE DEF r
<1>4. /\ editor' \in [Editor -> Edit] /\ editor'[e].at = "link"
      /\ editor'[e].of = editor[e].of /\ editor'[e].clone = editor[e].clone
      /\ \A d \in Editor : d # e => editor'[d] = editor[d]
  BY <1>1, <1>5, <1>6, OneEditor
<1> QED
  BY <1>1, <1>4, GoingOnKeeps DEF CountContents, PackagesTypeOK

LEMMA CreateContentKeeps ==
  ASSUME PackagesInv, NEW e \in Editor, CreateContent(e)
  PROVE  PackagesInv'
<1>1. PackagesTypeOK /\ Go(e, "answer")
  BY DEF PackagesInv, CreateContent
<1>2. /\ editor' \in [Editor -> Edit] /\ editor'[e].at = "answer"
      /\ editor'[e].of = editor[e].of /\ editor'[e].clone = editor[e].clone
      /\ \A d \in Editor : d # e => editor'[d] = editor[d]
  BY <1>1, Moved
<1>3. order' \in [Package -> Nat]
  BY <1>1 DEF CreateContent, PackagesTypeOK, Edit
<1> QED
  BY <1>1, <1>2, <1>3, GoingOnKeeps DEF CreateContent, PackagesTypeOK

LEMMA FailsKeeps ==
  ASSUME PackagesInv, NEW e \in Editor, Fails(e)
  PROVE  PackagesInv'
<1>1. PackagesTypeOK
  BY DEF PackagesInv
<1>2. CASE editor[e].clone
  <2>1. End(e)
    BY <1>2 DEF Fails
  <2>2. /\ editor' \in [Editor -> Edit]
        /\ editor'[e].at = "idle" /\ editor'[e].clone = FALSE
        /\ \A d \in Editor : d # e => editor'[d] = editor[d]
    BY <1>1, <2>1, Ended
  <2> QED
    BY <1>1, <2>2, GoingOnKeeps DEF Fails, PackagesTypeOK
<1>3. CASE ~editor[e].clone
  <2>1. Go(e, "clean") /\ editor[e].clone = FALSE
    BY <1>1, <1>3 DEF Fails, PackagesTypeOK, Edit
  <2>2. /\ editor' \in [Editor -> Edit] /\ editor'[e].at = "clean"
        /\ editor'[e].of = editor[e].of /\ editor'[e].clone = editor[e].clone
        /\ \A d \in Editor : d # e => editor'[d] = editor[d]
    BY <1>1, <2>1, Moved
  <2> QED
    BY <1>1, <2>1, <2>2, GoingOnKeeps DEF Fails, PackagesTypeOK
<1> QED
  BY <1>2, <1>3

LEMMA CutOffKeeps ==
  ASSUME PackagesInv, NEW e \in Editor, CutOff(e)
  PROVE  PackagesInv'
<1>1. PackagesTypeOK /\ End(e)
  BY DEF PackagesInv, CutOff
<1>2. /\ editor' \in [Editor -> Edit]
      /\ editor'[e].at = "idle" /\ editor'[e].clone = FALSE
      /\ \A d \in Editor : d # e => editor'[d] = editor[d]
  BY <1>1, Ended
<1> QED
  BY <1>1, <1>2, GoingOnKeeps DEF CutOff, PackagesTypeOK

(* The clean-up is of files nobody has been told of, its own.              *)
LEMMA CleanUpKeeps ==
  ASSUME PackagesInv, NEW e \in Editor, CleanUp(e)
  PROVE  PackagesInv'
<1> DEFINE p == editor[e].of
<1>1. PackagesTypeOK /\ EditSound(e)
  BY DEF PackagesInv
<1>2. /\ package' = package /\ saving' = saving /\ order' = order /\ promise' = promise
      /\ editor[e].at \in {"tidy", "clean"}
  BY DEF CleanUp
<1>3. p \in Package /\ Uploading(e) /\ promise[p] # "kept"
  BY <1>1, <1>2 DEF EditSound, Uploading, PackagesTypeOK, Edit
<1>4. /\ files' \in [Package -> SUBSET File]
      /\ \A q \in Package : q # p => files'[q] = files[q]
  BY <1>1, <1>3 DEF CleanUp, PackagesTypeOK
<1>5. /\ editor' \in [Editor -> Edit]
      /\ \A d \in Editor : d # e => editor'[d] = editor[d]
      /\ \/ editor'[e].at = "idle" /\ editor'[e].clone = FALSE
         \/ /\ editor'[e].of = p /\ editor'[e].clone = editor[e].clone
            /\ editor'[e].at = "clean"
  <2>1. CASE editor[e].at = "tidy"
    <3>1. Go(e, "clean")
      BY <2>1 DEF CleanUp
    <3> QED
      BY <3>1, <1>1, Moved
  <2>2. CASE editor[e].at # "tidy"
    <3>1. End(e)
      BY <2>2 DEF CleanUp
    <3> QED
      BY <3>1, <1>1, Ended
  <2> QED
    BY <2>1, <2>2
<1>6. PackagesTypeOK'
  BY <1>1, <1>2, <1>4, <1>5 DEF PackagesTypeOK
<1>7. UploadsServe'
  BY <1>2, <1>3, <1>4 DEF PackagesInv, UploadsServe, Live
<1>8. Untold'
  BY <1>2 DEF PackagesInv, Untold
<1>9. Uploading(e)' => editor'[e].of = p
  BY <1>5 DEF Uploading
<1>10. \A d \in Editor : d # e /\ Uploading(d) => editor[d].of # p
  BY <1>3 DEF PackagesInv, UploadsApart
<1>11. UploadsApart'
  BY <1>3, <1>5, <1>9 DEF PackagesInv, UploadsApart, Uploading
<1>12. EditSound(e)'
  BY <1>1, <1>2, <1>3, <1>5 DEF EditSound, Uploading
<1>13. ASSUME NEW d \in Editor, d # e PROVE EditSound(d)'
  <2>1. EditSound(d) /\ editor'[d] = editor[d]
    BY <1>5, <1>13 DEF PackagesInv
  <2>2. CASE editor[d].of # p
    <3>1. editor[d].at # "idle" => editor[d].of \in Package
      BY <2>1 DEF EditSound
    <3>2. editor[d].at # "idle" => files'[editor[d].of] = files[editor[d].of]
      BY <3>1, <2>2, <1>4
    <3> QED
      BY <2>1, <3>2, <1>2, Undisturbed
  <2>3. CASE editor[d].of = p
    <3>1. ~Uploading(d)
      BY <2>3, <1>10, <1>13
    <3> QED
      BY <3>1, <2>1, <1>1, <1>2 DEF EditSound, Uploading, PackagesTypeOK, Edit
  <2> QED
    BY <2>2, <2>3
<1> QED
  BY <1>6, <1>7, <1>8, <1>11, <1>12, <1>13 DEF PackagesInv

LEMMA CreateDocumentKeeps ==
  ASSUME PackagesInv, NEW e \in Editor, CreateDocument(e)
  PROVE  PackagesInv'
<1> DEFINE p == editor[e].of
<1>1. PackagesTypeOK /\ EditSound(e)
  BY DEF PackagesInv
<1>2. /\ editor[e].at = "create" /\ editor[e].clone = FALSE
      /\ files' = files /\ saving' = saving /\ order' = order /\ promise' = promise
  BY <1>1 DEF CreateDocument, EditSound, PackagesTypeOK, Edit
<1>3. /\ p \in Package /\ package[p].at = "void" /\ files[p] = File
      /\ promise[p] = "none" /\ Uploading(e)
  BY <1>1, <1>2 DEF PackagesInv, EditSound, Untold, Uploading
<1>4. PICK isGlobal \in BOOLEAN, at \in {"count", "answer"} :
        Put(p, Made(p, isGlobal)) /\ Go(e, at)
  BY DEF CreateDocument
<1>5. /\ editor' \in [Editor -> Edit] /\ editor'[e].at = at
      /\ editor'[e].of = p /\ editor'[e].clone = editor[e].clone
      /\ \A d \in Editor : d # e => editor'[d] = editor[d]
  BY <1>1, <1>4, Moved
<1>6. Made(p, isGlobal) \in Document /\ Made(p, isGlobal).at = "live"
  BY <1>3 DEF Made, Document
<1>7. /\ package' \in [Package -> Document] /\ package'[p].at = "live"
      /\ \A q \in Package : q # p => package'[q] = package[q]
  BY <1>1, <1>3, <1>4, <1>6 DEF Put, PackagesTypeOK
<1>8. PackagesTypeOK'
  BY <1>1, <1>2, <1>5, <1>7 DEF PackagesTypeOK
<1>9. UploadsServe'
  BY <1>2, <1>7 DEF PackagesInv, UploadsServe, Live
<1>10. Untold'
  BY <1>2, <1>7 DEF PackagesInv, Untold
<1>11. UploadsApart'
  BY <1>3, <1>5 DEF PackagesInv, UploadsApart, Uploading
<1>12. EditSound(e)'
  BY <1>2, <1>3, <1>4, <1>5, <1>7 DEF EditSound, Uploading
<1>13. ASSUME NEW d \in Editor, d # e PROVE EditSound(d)'
  <2>1. EditSound(d) /\ editor'[d] = editor[d]
    BY <1>5, <1>13 DEF PackagesInv
  <2>2. CASE editor[d].of # p
    <3>1. editor[d].at # "idle" => editor[d].of \in Package
      BY <2>1 DEF EditSound
    <3>2. editor[d].at # "idle" => package'[editor[d].of] = package[editor[d].of]
      BY <3>1, <2>2, <1>7
    <3> QED
      BY <2>1, <3>2, <1>2, Undisturbed
  <2>3. CASE editor[d].of = p
    <3>1. ~Uploading(d)
      BY <2>3, <1>3, <1>13 DEF PackagesInv, UploadsApart
    <3>2. editor[d].at \notin {"wipe", "drop"}
      BY <2>1, <2>3, <1>3 DEF EditSound
    <3> QED
      BY <3>1, <3>2, <2>1, <1>1 DEF EditSound, Uploading, PackagesTypeOK, Edit
  <2> QED
    BY <2>2, <2>3
<1> QED
  BY <1>8, <1>9, <1>10, <1>11, <1>12, <1>13 DEF PackagesInv

LEMMA AnswerKeeps ==
  ASSUME PackagesInv, NEW e \in Editor, Answer(e)
  PROVE  PackagesInv'
<1> DEFINE p == editor[e].of
<1>1. PackagesTypeOK /\ EditSound(e)
  BY DEF PackagesInv
<1>2. /\ editor[e].at = "answer" /\ End(e)
      /\ package' = package /\ files' = files /\ saving' = saving /\ order' = order
  BY DEF Answer
<1>3. /\ editor' \in [Editor -> Edit]
      /\ editor'[e].at = "idle" /\ editor'[e].clone = FALSE
      /\ \A d \in Editor : d # e => editor'[d] = editor[d]
  BY <1>1, <1>2, Ended
<1>4. p \in Package
  BY <1>1, <1>2 DEF EditSound
<1>5. \A q \in Package : q # p => promise'[q] = promise[q]
  BY <1>1, <1>4 DEF Answer, PackagesTypeOK
<1>6. CASE editor[e].clone \/ promise[p] # "none"
  <2>1. promise' = promise
    BY <1>1, <1>4, <1>6 DEF Answer, PackagesTypeOK
  <2> QED
    BY <2>1, <1>1, <1>2, <1>3, GoingOnKeeps DEF PackagesTypeOK
<1>7. CASE ~(editor[e].clone \/ promise[p] # "none")
  <2>1. editor[e].clone = FALSE /\ promise[p] = "none"
    BY <1>7, <1>1 DEF PackagesTypeOK, Edit
  <2>2. promise' \in [Package -> {"none", "kept", "taken back"}] /\ promise'[p] = "kept"
    BY <2>1, <1>1, <1>4 DEF Answer, PackagesTypeOK
  <2>3. package[p].at = "live" /\ files[p] = File
    BY <2>1, <1>1, <1>2 DEF EditSound
  <2>4. PackagesTypeOK'
    BY <2>2, <1>1, <1>2, <1>3 DEF PackagesTypeOK
  <2>5. UploadsServe' /\ Untold'
    BY <2>3, <1>2, <1>4, <1>5 DEF PackagesInv, UploadsServe, Untold, Live
  <2>6. EditSound(e)' /\ ~Uploading(e)'
    BY <1>3, RestIsSound
  <2>7. UploadsApart'
    BY <2>6, <1>3 DEF PackagesInv, UploadsApart, Uploading
  <2>8. ASSUME NEW d \in Editor, d # e PROVE EditSound(d)'
    <3>1. EditSound(d) /\ editor'[d] = editor[d]
      BY <2>8, <1>3 DEF PackagesInv
    <3>2. CASE editor[d].of # p
      BY <3>1, <3>2, <1>2, <1>5, Undisturbed DEF EditSound
    <3>3. CASE editor[d].of = p
      <4>1. Uploading(e)
        BY <2>1, <1>2 DEF Uploading
      <4>2. ~Uploading(d)
        BY <4>1, <3>3, <2>8 DEF PackagesInv, UploadsApart
      <4>3. editor[d].at \notin {"wipe", "drop"}
        BY <3>1, <3>3, <2>1 DEF EditSound
      <4> QED
        BY <4>2, <4>3, <3>1, <1>1 DEF EditSound, Uploading, PackagesTypeOK, Edit
    <3> QED
      BY <3>2, <3>3
  <2> QED
    BY <2>4, <2>5, <2>6, <2>7, <2>8 DEF PackagesInv
<1> QED
  BY <1>6, <1>7

LEMMA DeleteContentKeeps ==
  ASSUME PackagesInv, NEW p \in Package, DeleteContent(p)
  PROVE  PackagesInv'
<1> USE DEF PackagesInv, DeleteContent
<1>1. PackagesTypeOK'
  BY DEF PackagesTypeOK
<1>2. UploadsServe' /\ Untold' /\ UploadsApart'
  BY DEF UploadsServe, Live, Untold, UploadsApart, Uploading
<1>3. ASSUME NEW d \in Editor PROVE EditSound(d)'
  BY Undisturbed
<1> QED
  BY <1>1, <1>2, <1>3

LEMMA ClonePackageKeeps ==
  ASSUME PackagesInv, NEW e \in Editor, NEW p \in Package, NEW q \in Package,
         ClonePackage(e, p, q)
  PROVE  PackagesInv'
<1>1. PackagesTypeOK
  BY DEF PackagesInv
<1>2. /\ package[q].at = "new" /\ promise[q] = "none"
      /\ files' = files /\ saving' = saving /\ order' = order /\ promise' = promise
  BY DEF PackagesInv, Untold, ClonePackage
<1>3. PICK at \in {"count", "answer"} :
        editor' = [editor EXCEPT ![e] = Editing(at, q, TRUE)]
  BY DEF ClonePackage
<1>4. /\ Editing(at, q, TRUE) \in Edit /\ Editing(at, q, TRUE).at = at
      /\ Editing(at, q, TRUE).of = q /\ Editing(at, q, TRUE).clone = TRUE
  BY DEF Editing, Edit
<1>5. /\ editor' \in [Editor -> Edit] /\ editor'[e].at = at
      /\ editor'[e].of = q /\ editor'[e].clone = TRUE
      /\ \A d \in Editor : d # e => editor'[d] = editor[d]
  BY <1>1, <1>3, <1>4, OneEditor
<1>6. /\ Made(package[p].path, FALSE) \in Document
      /\ Made(package[p].path, FALSE).at = "live"
  BY <1>1 DEF Made, Document, PackagesTypeOK
<1>7. /\ package' \in [Package -> Document] /\ package'[q].at = "live"
      /\ \A s \in Package : s # q => package'[s] = package[s]
  BY <1>1, <1>6 DEF ClonePackage, Put, PackagesTypeOK
<1>8. PackagesTypeOK'
  BY <1>1, <1>2, <1>5, <1>7 DEF PackagesTypeOK
<1>9. UploadsServe' /\ Untold'
  BY <1>2, <1>7 DEF PackagesInv, UploadsServe, Untold, Live
<1>10. UploadsApart'
  BY <1>5 DEF PackagesInv, UploadsApart, Uploading
<1>11. EditSound(e)'
  BY <1>5 DEF EditSound, Uploading
<1>12. ASSUME NEW d \in Editor, d # e PROVE EditSound(d)'
  <2>1. EditSound(d) /\ editor'[d] = editor[d]
    BY <1>5, <1>12 DEF PackagesInv
  <2>2. CASE editor[d].of # q
    <3>1. editor[d].at # "idle" => editor[d].of \in Package
      BY <2>1 DEF EditSound
    <3>2. editor[d].at # "idle" => package'[editor[d].of] = package[editor[d].of]
      BY <3>1, <2>2, <1>7
    <3> QED
      BY <2>1, <3>2, <1>2, Undisturbed
  <2>3. CASE editor[d].of = q
    <3>1. ~Uploading(d) /\ editor[d].at \notin {"wipe", "drop"}
      BY <2>1, <2>3, <1>2 DEF EditSound
    <3> QED
      BY <3>1, <2>1, <1>1 DEF EditSound, Uploading, PackagesTypeOK, Edit
  <2> QED
    BY <2>2, <2>3
<1> QED
  BY <1>8, <1>9, <1>10, <1>11, <1>12 DEF PackagesInv

LEMMA StartDeleteKeeps ==
  ASSUME PackagesInv, NEW e \in Editor, NEW p \in Package, StartDelete(e, p)
  PROVE  PackagesInv'
<1>1. PackagesTypeOK
  BY DEF PackagesInv
<1>2. /\ package[p].at = "live" /\ package' = package
      /\ files' = files /\ saving' = saving /\ order' = order
  BY DEF StartDelete, Live
<1>3. /\ Editing("wipe", p, FALSE) \in Edit /\ Editing("wipe", p, FALSE).at = "wipe"
      /\ Editing("wipe", p, FALSE).of = p /\ Editing("wipe", p, FALSE).clone = FALSE
  BY DEF Editing, Edit
<1>4. /\ editor' \in [Editor -> Edit] /\ editor'[e].at = "wipe"
      /\ editor'[e].of = p /\ editor'[e].clone = FALSE
      /\ \A d \in Editor : d # e => editor'[d] = editor[d]
  BY <1>1, <1>3, OneEditor DEF StartDelete
<1>5. /\ promise' \in [Package -> {"none", "kept", "taken back"}]
      /\ promise'[p] = "taken back"
      /\ \A q \in Package : q # p => promise'[q] = promise[q]
  BY <1>1 DEF StartDelete, PackagesTypeOK
<1>6. PackagesTypeOK'
  BY <1>1, <1>2, <1>4, <1>5 DEF PackagesTypeOK
<1>7. UploadsServe' /\ Untold'
  BY <1>2, <1>5 DEF PackagesInv, UploadsServe, Untold, Live
<1>8. UploadsApart'
  BY <1>4 DEF PackagesInv, UploadsApart, Uploading
<1>9. EditSound(e)'
  BY <1>2, <1>4, <1>5 DEF EditSound, Uploading
<1>10. ASSUME NEW d \in Editor, d # e PROVE EditSound(d)'
  <2>1. EditSound(d) /\ editor'[d] = editor[d]
    BY <1>4, <1>10 DEF PackagesInv
  <2>2. editor[d].at # "idle" => editor[d].of \in Package
    BY <2>1 DEF EditSound
  <2>3. editor[d].at # "idle" =>
          promise'[editor[d].of] \in {promise[editor[d].of], "taken back"}
    BY <2>2, <1>5
  <2> QED
    BY <2>1, <2>3, <1>2, Undisturbed
<1> QED
  BY <1>6, <1>7, <1>8, <1>9, <1>10 DEF PackagesInv

(* Deleting empties a directory that has been taken back. *)
LEMMA DeleteFilesKeeps ==
  ASSUME PackagesInv, NEW e \in Editor, DeleteFiles(e)
  PROVE  PackagesInv'
<1> DEFINE p == editor[e].of
<1>1. PackagesTypeOK /\ EditSound(e)
  BY DEF PackagesInv
<1>2. /\ editor[e].at = "wipe" /\ Go(e, "drop") /\ package' = package
      /\ saving' = saving /\ order' = order /\ promise' = promise
  BY DEF DeleteFiles
<1>3. p \in Package /\ promise[p] = "taken back" /\ package[p].at \in {"live", "gone"}
  BY <1>1, <1>2 DEF EditSound
<1>4. /\ files' \in [Package -> SUBSET File]
      /\ \A q \in Package : q # p => files'[q] = files[q]
  BY <1>1, <1>3 DEF DeleteFiles, Directory, PackagesTypeOK
<1>5. /\ editor' \in [Editor -> Edit] /\ editor'[e].at = "drop"
      /\ editor'[e].of = p /\ editor'[e].clone = editor[e].clone
      /\ \A d \in Editor : d # e => editor'[d] = editor[d]
  BY <1>1, <1>2, Moved
<1>6. editor[e].clone = FALSE
  BY <1>1, <1>2 DEF EditSound, PackagesTypeOK, Edit
<1>7. PackagesTypeOK'
  BY <1>1, <1>2, <1>4, <1>5 DEF PackagesTypeOK
<1>8. UploadsServe' /\ Untold'
  BY <1>2, <1>3, <1>4 DEF PackagesInv, UploadsServe, Untold, Live
<1>9. UploadsApart'
  BY <1>5 DEF PackagesInv, UploadsApart, Uploading
<1>10. EditSound(e)'
  BY <1>2, <1>3, <1>5, <1>6 DEF EditSound, Uploading
<1>11. ASSUME NEW d \in Editor, d # e PROVE EditSound(d)'
  <2>1. EditSound(d) /\ editor'[d] = editor[d]
    BY <1>5, <1>11 DEF PackagesInv
  <2>2. CASE editor[d].of # p
    <3>1. editor[d].at # "idle" => editor[d].of \in Package
      BY <2>1 DEF EditSound
    <3>2. editor[d].at # "idle" => files'[editor[d].of] = files[editor[d].of]
      BY <3>1, <2>2, <1>4
    <3> QED
      BY <2>1, <3>2, <1>2, Undisturbed
  <2>3. CASE editor[d].of = p
    <3>1. editor[d].at \notin {"extract", "create"}
      BY <2>1, <2>3, <1>3 DEF EditSound
    <3> QED
      BY <3>1, <2>1, <2>3, <1>2, <1>3 DEF EditSound, Uploading
  <2> QED
    BY <2>2, <2>3
<1> QED
  BY <1>7, <1>8, <1>9, <1>10, <1>11 DEF PackagesInv

LEMMA DeleteDocumentKeeps ==
  ASSUME PackagesInv, NEW e \in Editor, DeleteDocument(e)
  PROVE  PackagesInv'
<1> DEFINE p == editor[e].of
<1>1. PackagesTypeOK /\ EditSound(e)
  BY DEF PackagesInv
<1>2. /\ editor[e].at = "drop" /\ End(e) /\ files' = files
      /\ saving' = saving /\ order' = order /\ promise' = promise
  BY DEF DeleteDocument
<1>3. p \in Package /\ promise[p] = "taken back" /\ package[p].at \in {"live", "gone"}
  BY <1>1, <1>2 DEF EditSound
<1>4. /\ package' \in [Package -> Document] /\ package'[p].at = "gone"
      /\ \A q \in Package : q # p => package'[q] = package[q]
  BY <1>1, <1>3 DEF DeleteDocument, Put, Document, PackagesTypeOK
<1>5. /\ editor' \in [Editor -> Edit]
      /\ editor'[e].at = "idle" /\ editor'[e].clone = FALSE
      /\ \A d \in Editor : d # e => editor'[d] = editor[d]
  BY <1>1, <1>2, Ended
<1>6. PackagesTypeOK'
  BY <1>1, <1>2, <1>4, <1>5 DEF PackagesTypeOK
<1>7. UploadsServe' /\ Untold'
  BY <1>2, <1>3, <1>4 DEF PackagesInv, UploadsServe, Untold, Live
<1>8. EditSound(e)' /\ ~Uploading(e)'
  BY <1>5, RestIsSound
<1>9. UploadsApart'
  BY <1>5, <1>8 DEF PackagesInv, UploadsApart, Uploading
<1>10. ASSUME NEW d \in Editor, d # e PROVE EditSound(d)'
  <2>1. EditSound(d) /\ editor'[d] = editor[d]
    BY <1>5, <1>10 DEF PackagesInv
  <2>2. CASE editor[d].of # p
    <3>1. editor[d].at # "idle" => editor[d].of \in Package
      BY <2>1 DEF EditSound
    <3>2. editor[d].at # "idle" => package'[editor[d].of] = package[editor[d].of]
      BY <3>1, <2>2, <1>4
    <3> QED
      BY <2>1, <3>2, <1>2, Undisturbed
  <2>3. CASE editor[d].of = p
    <3>1. editor[d].at \notin {"extract", "create"}
      BY <2>1, <2>3, <1>3 DEF EditSound
    <3> QED
      BY <3>1, <2>1, <2>3, <1>2, <1>3, <1>4 DEF EditSound, Uploading
  <2> QED
    BY <2>2, <2>3
<1> QED
  BY <1>6, <1>7, <1>8, <1>9, <1>10 DEF PackagesInv

-------------------------------------------------------------------------------

LEMMA StutterKeepsPackages ==
  ASSUME PackagesInv, UNCHANGED packages
  PROVE  PackagesInv'
<1>1. /\ package' = package /\ files' = files /\ saving' = saving
      /\ order' = order /\ promise' = promise /\ editor' = editor
  BY DEF packages
<1>2. PackagesTypeOK'
  BY <1>1 DEF PackagesInv, PackagesTypeOK
<1>3. UploadsServe' /\ Untold'
  BY <1>1 DEF PackagesInv, UploadsServe, Live, Untold
<1>4. UploadsApart'
  BY <1>1 DEF PackagesInv, UploadsApart, Uploading
<1>5. ASSUME NEW d \in Editor PROVE EditSound(d)'
  BY <1>1, Undisturbed DEF PackagesInv
<1> QED
  BY <1>2, <1>3, <1>4, <1>5 DEF PackagesInv

LEMMA PackagesStep == PackagesInv /\ [PackagesNext]_packages => PackagesInv'
<1> SUFFICES ASSUME PackagesInv, [PackagesNext]_packages PROVE PackagesInv'
  OBVIOUS
<1>1. CASE UNCHANGED packages
  BY <1>1, StutterKeepsPackages
<1>2. CASE Refuse
  BY <1>2, StutterKeepsPackages DEF Refuse
<1>3. ASSUME NEW e \in Editor, NEW p \in Package,
             \/ StartUpload(e, p) \/ StartDelete(e, p)
             \/ \E q \in Package : ClonePackage(e, p, q)
      PROVE  PackagesInv'
  BY <1>3, StartUploadKeeps, StartDeleteKeeps, ClonePackageKeeps
<1>4. ASSUME NEW e \in Editor,
             \/ Extracted(e) \/ ExtractFails(e) \/ CleanUp(e) \/ CreateDocument(e)
             \/ CountContents(e) \/ CreateContent(e) \/ Fails(e) \/ Answer(e)
             \/ DeleteFiles(e) \/ DeleteDocument(e) \/ CutOff(e)
      PROVE  PackagesInv'
  BY <1>4, ExtractedKeeps, CleanUpKeeps, CreateDocumentKeeps, CountContentsKeeps,
     CreateContentKeeps, FailsKeeps, AnswerKeeps, DeleteFilesKeeps,
     DeleteDocumentKeeps, CutOffKeeps
<1>5. ASSUME NEW p \in Package, NEW f \in File, SaveFile(p, f) PROVE PackagesInv'
  BY <1>5, SaveFileKeeps
<1>6. ASSUME NEW p \in Package, DeleteContent(p) PROVE PackagesInv'
  BY <1>6, DeleteContentKeeps
<1> QED
  BY <1>1, <1>2, <1>3, <1>4, <1>5, <1>6 DEF PackagesNext

(* The inductive invariant of uploads, clones and deletions: each upload   *)
(* owns the id it drew until it is answered                                *)
(* (scormPackageCtrl.ts:106-272, 446-538).                                 *)
THEOREM PackagesCorrect == PackagesSpec => []PackagesInv
<1>1. PackagesInit => PackagesInv
  BY PackagesInvInit
<1>2. PackagesInv /\ [PackagesNext]_packages => PackagesInv'
  BY PackagesStep
<1> QED
  BY <1>1, <1>2, PTL DEF PackagesSpec

(* A package whose upload was answered 201 and that nobody asked to delete *)
(* has its document and all of its files, for any packages, files and      *)
(* requests, whatever fails and wherever requests are cut off.             *)
THEOREM UploadsServeCorrect == PackagesSpec => []UploadsServe
<1>1. PackagesInv => UploadsServe
  BY DEF PackagesInv
<1> QED
  BY <1>1, PackagesCorrect, PTL

-------------------------------------------------------------------------------
(***************************************************************************)
(* Publication: a request that changes status changes isPublished with it, *)
(* or both are already so; unless an update sets one alone, a pending      *)
(* change therefore writes both or neither.                                *)
(***************************************************************************)

(* The paths a request is to write, and their values. *)
ClerkSound(k) ==
  /\ DOMAIN clerk[k] \subseteq {"status", "isPublished", "assignedTo"}
  /\ "status" \in DOMAIN clerk[k] => clerk[k]["status"] \in {"draft", "published"}
  /\ "isPublished" \in DOMAIN clerk[k] => clerk[k]["isPublished"] \in BOOLEAN
  /\ "assignedTo" \in DOMAIN clerk[k] => clerk[k]["assignedTo"] \in SUBSET Target

(* Both or neither, and in agreement. *)
Paired(k) ==
  /\ ("status" \in DOMAIN clerk[k]) <=> ("isPublished" \in DOMAIN clerk[k])
  /\ "status" \in DOMAIN clerk[k] =>
       (clerk[k]["status"] = "published" <=> clerk[k]["isPublished"] = TRUE)

PublicationInv ==
  /\ document \in Publishable
  /\ clerk = [k \in Clerk |-> clerk[k]]
  /\ \A k \in Clerk : ClerkSound(k)
  /\ touched = TRUE \/
       /\ document.status = "published" <=> document.isPublished = TRUE
       /\ \A k \in Clerk : Paired(k)
  /\ deleted \in BOOLEAN /\ touched \in BOOLEAN

(* A request at rest has nothing to write. *)
LEMMA RestWritesNothing ==
  ASSUME NEW k, clerk[k] = NothingToWrite
  PROVE  DOMAIN clerk[k] = {}
BY DEF NothingToWrite

LEMMA EmptySound ==
  ASSUME NEW k \in Clerk, DOMAIN clerk'[k] = {}
  PROVE  ClerkSound(k)' /\ Paired(k)'
BY DEF ClerkSound, Paired

LEMMA PublicationInvInit == PublicationInit => PublicationInv
<1> SUFFICES ASSUME PublicationInit PROVE PublicationInv
  OBVIOUS
<1>1. \A k \in Clerk : DOMAIN clerk[k] = {}
  BY DEF PublicationInit, NothingToWrite
<1>2. \A k \in Clerk : ClerkSound(k)
  BY <1>1 DEF ClerkSound
<1>3. document \in Publishable /\ document.status = "draft" /\ document.isPublished = FALSE
  BY DEF PublicationInit, Publishable
<1>4. \A k \in Clerk : Paired(k)
  BY <1>1 DEF Paired
<1>5. clerk = [k \in Clerk |-> clerk[k]]
  BY DEF PublicationInit
<1> QED
  BY <1>2, <1>3, <1>4, <1>5 DEF PublicationInv, PublicationInit

(* A step that changes one request. *)
LEMMA OneClerk ==
  ASSUME PublicationInv, NEW k \in Clerk, NEW w, clerk' = [clerk EXCEPT ![k] = w]
  PROVE  /\ clerk' = [j \in Clerk |-> clerk'[j]]
         /\ clerk'[k] = w
         /\ \A j \in Clerk : j # k => clerk'[j] = clerk[j]
BY DEF PublicationInv

LEMMA OthersSound ==
  ASSUME PublicationInv, NEW k \in Clerk, NEW w, clerk' = [clerk EXCEPT ![k] = w]
  PROVE  /\ \A j \in Clerk : j # k => ClerkSound(j)'
         /\ touched = FALSE => \A j \in Clerk : j # k => Paired(j)'
<1>1. \A j \in Clerk : j # k => clerk'[j] = clerk[j]
  BY OneClerk
<1> QED
  BY <1>1 DEF PublicationInv, ClerkSound, Paired

(* What publish and unpublish leave to write of status and isPublished.    *)
LEMMA BothDirty ==
  ASSUME document \in Publishable, NEW b \in BOOLEAN, NEW s \in {"draft", "published"},
         NEW w, w = Dirty([isPublished |-> b, status |-> s])
  PROVE  /\ DOMAIN w \subseteq {"status", "isPublished"}
         /\ "status" \in DOMAIN w <=> document.status # s
         /\ "isPublished" \in DOMAIN w <=> document.isPublished # b
         /\ "status" \in DOMAIN w => w["status"] = s
         /\ "isPublished" \in DOMAIN w => w["isPublished"] = b
<1> DEFINE new == [isPublished |-> b, status |-> s]
<1>1. DOMAIN new = {"isPublished", "status"} /\ new["isPublished"] = b /\ new["status"] = s
  OBVIOUS
<1>2. w = [f \in {g \in DOMAIN new : new[g] # document[g]} |-> new[f]]
  BY DEF Dirty
<1> HIDE DEF new
<1>3. DOMAIN w = {g \in DOMAIN new : new[g] # document[g]}
  BY <1>2
<1>4. \A f \in DOMAIN w : w[f] = new[f]
  BY <1>2, <1>3
<1> QED
  BY <1>1, <1>3, <1>4

LEMMA FlagDirty ==
  ASSUME NEW x \in BOOLEAN, NEW w, w = Dirty([isPublished |-> x])
  PROVE  /\ DOMAIN w \subseteq {"isPublished"}
         /\ "isPublished" \in DOMAIN w => w["isPublished"] \in BOOLEAN
<1> DEFINE new == [isPublished |-> x]
<1>1. DOMAIN new = {"isPublished"} /\ new["isPublished"] = x
  OBVIOUS
<1>2. w = [f \in {g \in DOMAIN new : new[g] # document[g]} |-> new[f]]
  BY DEF Dirty
<1> HIDE DEF new
<1>3. DOMAIN w \subseteq DOMAIN new /\ \A f \in DOMAIN w : w[f] = new[f]
  BY <1>2
<1> QED
  BY <1>1, <1>3

LEMMA TargetsDirty ==
  ASSUME NEW x \in SUBSET Target, NEW w, w = Dirty([assignedTo |-> x])
  PROVE  /\ DOMAIN w \subseteq {"assignedTo"}
         /\ "assignedTo" \in DOMAIN w => w["assignedTo"] \in SUBSET Target
<1> DEFINE new == [assignedTo |-> x]
<1>1. DOMAIN new = {"assignedTo"} /\ new["assignedTo"] = x
  OBVIOUS
<1>2. w = [f \in {g \in DOMAIN new : new[g] # document[g]} |-> new[f]]
  BY DEF Dirty
<1> HIDE DEF new
<1>3. DOMAIN w \subseteq DOMAIN new /\ \A f \in DOMAIN w : w[f] = new[f]
  BY <1>2
<1> QED
  BY <1>1, <1>3

LEMMA PublishKeeps ==
  ASSUME PublicationInv, NEW k \in Clerk, PublishPackage(k) \/ UnpublishPackage(k)
  PROVE  PublicationInv'
<1>1. PICK b \in BOOLEAN, s \in {"draft", "published"} :
        /\ s = "published" <=> b = TRUE
        /\ LoadDocument(k, [isPublished |-> b, status |-> s])
  BY DEF PublishPackage, UnpublishPackage
<1> DEFINE w == Dirty([isPublished |-> b, status |-> s])
<1>2. /\ clerk' = [clerk EXCEPT ![k] = w]
      /\ document' = document /\ deleted' = deleted /\ touched' = touched
  BY <1>1 DEF LoadDocument
<1>3. /\ DOMAIN w \subseteq {"status", "isPublished"}
      /\ "status" \in DOMAIN w <=> document.status # s
      /\ "isPublished" \in DOMAIN w <=> document.isPublished # b
      /\ "status" \in DOMAIN w => w["status"] = s
      /\ "isPublished" \in DOMAIN w => w["isPublished"] = b
  BY BothDirty DEF PublicationInv
<1> HIDE DEF w
<1>4. clerk' = [j \in Clerk |-> clerk'[j]] /\ clerk'[k] = w
  BY <1>2, OneClerk
<1>5. ClerkSound(k)'
  BY <1>3, <1>4 DEF ClerkSound
<1>6. \A j \in Clerk : ClerkSound(j)'
  BY <1>2, <1>5, OthersSound
<1>7. ASSUME touched # TRUE
      PROVE  /\ document'.status = "published" <=> document'.isPublished = TRUE
             /\ \A j \in Clerk : Paired(j)'
  <2>1. touched = FALSE /\ (document.status = "published" <=> document.isPublished = TRUE)
    BY <1>7 DEF PublicationInv
  <2>2. document.status \in {"draft", "published"} /\ document.isPublished \in BOOLEAN
    BY DEF PublicationInv, Publishable
  <2>3. document.status # s <=> document.isPublished # b
    BY <2>1, <2>2, <1>1
  <2>4. Paired(k)'
    BY <2>3, <1>1, <1>3, <1>4 DEF Paired
  <2> QED
    BY <2>1, <2>4, <1>2, OthersSound
<1> QED
  BY <1>2, <1>4, <1>6, <1>7 DEF PublicationInv

LEMMA UpdateKeeps ==
  ASSUME PublicationInv, NEW k \in Clerk, UpdatePackage(k)
  PROVE  PublicationInv'
<1>1. PICK b \in BOOLEAN :
        /\ clerk' = [clerk EXCEPT ![k] = Dirty([isPublished |-> b])]
        /\ touched' = TRUE /\ document' = document /\ deleted' = deleted
  BY DEF UpdatePackage
<1> DEFINE w == Dirty([isPublished |-> b])
<1>2. /\ DOMAIN w \subseteq {"isPublished"}
      /\ "isPublished" \in DOMAIN w => w["isPublished"] \in BOOLEAN
  BY FlagDirty
<1> HIDE DEF w
<1>3. clerk' = [j \in Clerk |-> clerk'[j]] /\ clerk'[k] = w
  BY <1>1, OneClerk DEF w
<1>4. ClerkSound(k)'
  BY <1>2, <1>3 DEF ClerkSound
<1>5. \A j \in Clerk : ClerkSound(j)'
  BY <1>1, <1>4, OthersSound
<1> QED
  BY <1>1, <1>3, <1>5 DEF PublicationInv

LEMMA AssignKeeps ==
  ASSUME PublicationInv, NEW k \in Clerk, AssignPackage(k) \/ UnassignPackage(k)
  PROVE  PublicationInv'
<1>1. document.assignedTo \in SUBSET Target
  BY DEF PublicationInv, Publishable
<1>2. PICK x \in SUBSET Target : LoadDocument(k, [assignedTo |-> x])
  BY <1>1 DEF AssignPackage, UnassignPackage
<1> DEFINE w == Dirty([assignedTo |-> x])
<1>3. /\ clerk' = [clerk EXCEPT ![k] = w]
      /\ document' = document /\ deleted' = deleted /\ touched' = touched
  BY <1>2 DEF LoadDocument
<1>4. /\ DOMAIN w \subseteq {"assignedTo"}
      /\ "assignedTo" \in DOMAIN w => w["assignedTo"] \in SUBSET Target
  BY TargetsDirty
<1> HIDE DEF w
<1>6. clerk' = [j \in Clerk |-> clerk'[j]] /\ clerk'[k] = w
  BY <1>3, OneClerk
<1>7. ClerkSound(k)' /\ Paired(k)'
  BY <1>4, <1>6 DEF ClerkSound, Paired
<1>8. \A j \in Clerk : ClerkSound(j)'
  BY <1>3, <1>7, OthersSound
<1>9. touched = FALSE => \A j \in Clerk : Paired(j)'
  BY <1>3, <1>7, OthersSound
<1> QED
  BY <1>3, <1>6, <1>8, <1>9 DEF PublicationInv

(* A request that comes to rest. *)
LEMMA RestKeeps ==
  ASSUME PublicationInv, NEW k \in Clerk,
         clerk' = [clerk EXCEPT ![k] = NothingToWrite]
  PROVE  /\ clerk' = [j \in Clerk |-> clerk'[j]]
         /\ \A j \in Clerk : ClerkSound(j)'
         /\ touched = FALSE => \A j \in Clerk : Paired(j)'
<1>1. clerk' = [j \in Clerk |-> clerk'[j]] /\ clerk'[k] = NothingToWrite
  BY OneClerk
<1>2. DOMAIN clerk'[k] = {}
  BY <1>1 DEF NothingToWrite
<1>3. ClerkSound(k)' /\ Paired(k)'
  BY <1>2, EmptySound
<1> QED
  BY <1>1, <1>3, OthersSound

LEMMA SavePackageKeeps ==
  ASSUME PublicationInv, NEW k \in Clerk, SavePackage(k)
  PROVE  PublicationInv'
<1>1. /\ document' = [f \in DOMAIN document |->
           IF f \in DOMAIN clerk[k] THEN clerk[k][f] ELSE document[f]]
      /\ clerk' = [clerk EXCEPT ![k] = NothingToWrite]
      /\ deleted' = deleted /\ touched' = touched
  BY DEF SavePackage
<1>2. /\ clerk' = [j \in Clerk |-> clerk'[j]]
      /\ \A j \in Clerk : ClerkSound(j)'
      /\ touched = FALSE => \A j \in Clerk : Paired(j)'
  BY <1>1, RestKeeps
<1>3. document \in Publishable /\ ClerkSound(k)
  BY DEF PublicationInv
<1>4. /\ DOMAIN document = {"status", "isPublished", "assignedTo"}
      /\ document.status \in {"draft", "published"}
      /\ document.isPublished \in BOOLEAN
      /\ document.assignedTo \in SUBSET Target
  BY <1>3 DEF Publishable
<1>5. /\ document'.status =
           IF "status" \in DOMAIN clerk[k] THEN clerk[k]["status"] ELSE document.status
      /\ document'.isPublished =
           IF "isPublished" \in DOMAIN clerk[k] THEN clerk[k]["isPublished"]
           ELSE document.isPublished
      /\ document'.assignedTo =
           IF "assignedTo" \in DOMAIN clerk[k] THEN clerk[k]["assignedTo"]
           ELSE document.assignedTo
  BY <1>1, <1>4
<1>6. /\ document'.status \in {"draft", "published"}
      /\ document'.isPublished \in BOOLEAN
      /\ document'.assignedTo \in SUBSET Target
  BY <1>3, <1>4, <1>5 DEF ClerkSound
<1>7. document' \in Publishable
  <2>1. document' = [status |-> document'.status, isPublished |-> document'.isPublished,
                     assignedTo |-> document'.assignedTo]
    BY <1>1, <1>4
  <2> QED
    BY <2>1, <1>6 DEF Publishable
<1>8. ASSUME touched # TRUE
      PROVE  document'.status = "published" <=> document'.isPublished = TRUE
  <2>1. /\ document.status = "published" <=> document.isPublished = TRUE
        /\ Paired(k)
    BY <1>8 DEF PublicationInv
  <2>2. CASE "status" \in DOMAIN clerk[k]
    BY <2>1, <2>2, <1>5 DEF Paired
  <2>3. CASE "status" \notin DOMAIN clerk[k]
    BY <2>1, <2>3, <1>5 DEF Paired
  <2> QED
    BY <2>2, <2>3
<1> QED
  BY <1>1, <1>2, <1>7, <1>8 DEF PublicationInv

LEMMA PublicationStep == PublicationInv /\ [PublicationNext]_publication => PublicationInv'
<1> SUFFICES ASSUME PublicationInv, [PublicationNext]_publication PROVE PublicationInv'
  OBVIOUS
<1>1. CASE UNCHANGED publication
  BY <1>1 DEF publication, PublicationInv, ClerkSound, Paired
<1>2. CASE DocumentDeleted
  BY <1>2 DEF DocumentDeleted, PublicationInv, ClerkSound, Paired
<1>3. ASSUME NEW k \in Clerk, Abandon(k) PROVE PublicationInv'
  BY <1>3, RestKeeps DEF Abandon, PublicationInv
<1>4. ASSUME NEW k \in Clerk,
             \/ UpdatePackage(k) \/ PublishPackage(k) \/ UnpublishPackage(k)
             \/ AssignPackage(k) \/ UnassignPackage(k) \/ SavePackage(k)
      PROVE  PublicationInv'
  BY <1>4, UpdateKeeps, PublishKeeps, AssignKeeps, SavePackageKeeps
<1> QED
  BY <1>1, <1>2, <1>3, <1>4 DEF PublicationNext

(* The inductive invariant of publishing: a pending change writes status   *)
(* and isPublished together or not at all, unless an update has set        *)
(* isPublished alone (scormPackageCtrl.ts:423, 709-720, 751-762).          *)
THEOREM PublicationCorrect == PublicationSpec => []PublicationInv
<1>1. PublicationInit => PublicationInv
  BY PublicationInvInit
<1>2. PublicationInv /\ [PublicationNext]_publication => PublicationInv'
  BY PublicationStep
<1> QED
  BY <1>1, <1>2, PTL DEF PublicationSpec

(* A package is published by its status exactly when isPublished says so,  *)
(* for any number of overlapping publish, unpublish and assign requests,   *)
(* until an update sets isPublished alone.                                 *)
THEOREM PublishedAgreesCorrect == PublicationSpec => []PublishedAgrees
<1>1. PublicationInv => PublishedAgrees
  <2> SUFFICES ASSUME PublicationInv PROVE PublishedAgrees
    OBVIOUS
  <2>1. document.isPublished \in BOOLEAN /\ touched \in BOOLEAN
    BY DEF PublicationInv, Publishable
  <2> QED
    BY <2>1 DEF PublicationInv, PublishedAgrees
<1> QED
  BY <1>1, PublicationCorrect, PTL

-------------------------------------------------------------------------------
(***************************************************************************)
(* Launches: the number a launch has counted is one the user has already   *)
(* or the next one, so that the index on learner, package and number lets  *)
(* only the next one in; and what a launch has read of all attempts is in  *)
(* range when it writes it, as attempts are never taken away.              *)
(***************************************************************************)

LaunchSound(l) ==
  /\ launch[l].at \in {"find", "count", "create"} => launch[l].user \in User
  /\ launch[l].at = "create" =>
       /\ launch[l].number \in 1..(Cardinality(Numbers(launch[l].user)) + 1)
       /\ launch[l].number <= MaxNumber
  /\ launch[l].at = "write" =>
       /\ launch[l].seen.completed <= launch[l].seen.total
       /\ launch[l].seen.total <= Cardinality(attempt)

LaunchInv ==
  /\ LaunchTypeOK
  /\ AttemptsCounted
  /\ IsFiniteSet(attempt)
  /\ \A l \in Launch : LaunchSound(l)

LEMMA NumbersFinite ==
  ASSUME attempt \subseteq AttemptKey, NEW u
  PROVE  /\ Numbers(u) \subseteq 1..MaxNumber
         /\ IsFiniteSet(Numbers(u))
         /\ Cardinality(Numbers(u)) \in Nat
<1>1. Numbers(u) \subseteq 1..MaxNumber
  BY DEF Numbers, AttemptKey
<1>2. IsFiniteSet(1..MaxNumber)
  BY FS_Interval, LaunchAssumption
<1>3. IsFiniteSet(Numbers(u))
  BY <1>1, <1>2, FS_Subset
<1> QED
  BY <1>1, <1>3, FS_CardinalityType

LEMMA MaxOfRow ==
  ASSUME NEW c \in Nat
  PROVE  Max((1..c) \cup {0}) = c
<1> DEFINE S == (1..c) \cup {0}
<1>1. c \in S /\ \A y \in S : y \in Nat /\ c >= y
  OBVIOUS
<1>2. PICK x \in S : x = Max(S) /\ \A y \in S : x >= y
  BY <1>1 DEF Max
<1>3. x >= c /\ c >= x /\ x \in Nat
  BY <1>1, <1>2
<1> QED
  BY <1>2, <1>3

(* Both ways of numbering give the next number.                            *)
LEMMA NextInRow ==
  ASSUME LaunchInv, NEW l \in Launch, launch[l].user \in User
  PROVE  NextNumber(l) = Cardinality(Numbers(launch[l].user)) + 1
<1> DEFINE N == Numbers(launch[l].user)
<1>1. Cardinality(N) \in Nat /\ N = 1..Cardinality(N)
  BY NumbersFinite DEF LaunchInv, LaunchTypeOK, AttemptsCounted, NumbersInARow
<1>2. Max(N \cup {0}) = Cardinality(N)
  BY <1>1, MaxOfRow
<1> QED
  BY <1>2 DEF NextNumber

LEMMA LaunchInvInit == LaunchInit => LaunchInv
<1> SUFFICES ASSUME LaunchInit PROVE LaunchInv
  OBVIOUS
<1>1. attempt = {} /\ IsFiniteSet(attempt) /\ Cardinality(attempt) = 0
  BY FS_EmptySet DEF LaunchInit
<1>2. LaunchTypeOK
  BY DEF LaunchInit, LaunchTypeOK, AttemptKey, AttemptStatus, Stats, NoStats,
         LaunchRequest, Unlaunched
<1>3. \A u \in User : Numbers(u) = {} /\ {a \in attempt : a.user = u} = {}
  BY <1>1 DEF Numbers
<1>4. NumbersInARow
  <2>1. ASSUME NEW u \in User
        PROVE  /\ Numbers(u) = 1..Cardinality(Numbers(u))
               /\ Cardinality({a \in attempt : a.user = u}) = Cardinality(Numbers(u))
    <3>1. Numbers(u) = {} /\ {a \in attempt : a.user = u} = {}
      BY <1>3
    <3>2. Cardinality({}) = 0 /\ 1..0 = {}
      BY FS_EmptySet
    <3> QED
      BY <3>1, <3>2
  <2> QED
    BY <2>1 DEF NumbersInARow
<1>5. StatsInRange
  BY <1>1 DEF LaunchInit, StatsInRange, NoStats
<1>6. \A l \in Launch : LaunchSound(l)
  BY DEF LaunchInit, LaunchSound, Unlaunched
<1> QED
  BY <1>1, <1>2, <1>4, <1>5, <1>6 DEF LaunchInv, AttemptsCounted

(* A step of one launch that leaves the attempts and the statistics alone. *)
LEMMA LaunchGoesOn ==
  ASSUME LaunchInv, NEW l \in Launch, NEW r \in LaunchRequest,
         attempt' = attempt, status' \in [StatusKey -> AttemptStatus],
         stats' = stats, present' \in BOOLEAN,
         launch' = [launch EXCEPT ![l] = r],
         r.at \in {"find", "count", "create"} => r.user \in User,
         r.at = "create" =>
           /\ r.number = Cardinality(Numbers(r.user)) + 1
           /\ r.number <= MaxNumber,
         r.at = "write" =>
           r.seen.completed <= r.seen.total /\ r.seen.total <= Cardinality(attempt)
  PROVE  LaunchInv'
<1>1. LaunchTypeOK /\ launch \in [Launch -> LaunchRequest]
  BY DEF LaunchInv, LaunchTypeOK
<1>2. /\ launch' \in [Launch -> LaunchRequest] /\ launch'[l] = r
      /\ \A k \in Launch : k # l => launch'[k] = launch[k]
  BY <1>1
<1>3. LaunchTypeOK'
  BY <1>1, <1>2 DEF LaunchTypeOK
<1>4. \A u : Numbers(u)' = Numbers(u)
  BY DEF Numbers
<1>5. AttemptsCounted' /\ IsFiniteSet(attempt)'
  BY <1>4 DEF LaunchInv, AttemptsCounted, NumbersInARow, StatsInRange
<1>6. LaunchSound(l)'
  <2>1. CASE r.at = "create"
    <3>1. Cardinality(Numbers(r.user)) \in Nat
      BY NumbersFinite DEF LaunchInv, LaunchTypeOK
    <3> QED
      BY <2>1, <3>1, <1>2, <1>4 DEF LaunchSound
  <2>2. CASE r.at # "create"
    BY <2>2, <1>2 DEF LaunchSound
  <2> QED
    BY <2>1, <2>2
<1>7. ASSUME NEW k \in Launch, k # l PROVE LaunchSound(k)'
  BY <1>2, <1>4, <1>7 DEF LaunchInv, LaunchSound
<1> QED
  BY <1>3, <1>5, <1>6, <1>7 DEF LaunchInv

(* The requests a launch becomes.                                          *)
LEMMA RequestTypes ==
  /\ Unlaunched \in LaunchRequest /\ Unlaunched.at = "idle"
  /\ [Unlaunched EXCEPT !.at = "read"] \in LaunchRequest
  /\ [Unlaunched EXCEPT !.at = "read"].at = "read"
BY DEF Unlaunched, LaunchRequest, Stats, NoStats

LEMMA UpdateOrEndKeeps ==
  ASSUME LaunchInv, NEW l \in Launch, Update(l) \/ EndLaunch(l),
         attempt' = attempt, status' \in [StatusKey -> AttemptStatus],
         stats' = stats, present' \in BOOLEAN
  PROVE  LaunchInv'
<1>1. CASE Update(l)
  <2> DEFINE r == [Unlaunched EXCEPT !.at = "read"]
  <2>1. r \in LaunchRequest /\ r.at = "read"
    BY RequestTypes
  <2>2. launch' = [launch EXCEPT ![l] = r]
    BY <1>1 DEF Update
  <2> HIDE DEF r
  <2> QED
    BY <2>1, <2>2, LaunchGoesOn
<1>2. CASE EndLaunch(l)
  BY <1>2, RequestTypes, LaunchGoesOn DEF EndLaunch
<1> QED
  BY <1>1, <1>2

LEMMA StartLaunchKeeps ==
  ASSUME LaunchInv, NEW l \in Launch, NEW u \in User, NEW player \in BOOLEAN,
         StartLaunch(l, u, player)
  PROVE  LaunchInv'
<1> DEFINE at == IF player THEN "find" ELSE "count"
           q == [Unlaunched EXCEPT !.at = at]
           s == [q EXCEPT !.user = u]
           r == [s EXCEPT !.player = player]
<1>1. at \in {"find", "count"}
  OBVIOUS
<1>5. /\ launch' = [launch EXCEPT ![l] =
                      [Unlaunched EXCEPT !.at = at, !.user = u, !.player = player]]
      /\ attempt' = attempt /\ status' = status /\ stats' = stats /\ present' = present
  BY DEF StartLaunch
<1> HIDE DEF at
<1>6. q \in LaunchRequest /\ q.at = at
  BY <1>1, RequestTypes DEF LaunchRequest
<1> HIDE DEF q
<1>7. s \in LaunchRequest /\ s.at = at /\ s.user = u
  BY <1>6 DEF LaunchRequest
<1> HIDE DEF s
<1>2. r \in LaunchRequest /\ r.at = at /\ r.user = u
  BY <1>7 DEF LaunchRequest
<1>3. /\ launch' = [launch EXCEPT ![l] = r]
      /\ attempt' = attempt /\ status' = status /\ stats' = stats /\ present' = present
  BY <1>5 DEF q, s
<1>4. r.at \in {"find", "count"}
  BY <1>1, <1>2
<1> HIDE DEF r
<1> QED
  BY <1>2, <1>3, <1>4, LaunchGoesOn DEF LaunchInv, LaunchTypeOK

LEMMA FindResumableKeeps ==
  ASSUME LaunchInv, NEW l \in Launch, FindResumable(l)
  PROVE  LaunchInv'
<1>1. /\ launch[l].at = "find"
      /\ attempt' = attempt /\ status' = status /\ stats' = stats /\ present' = present
      /\ Update(l) \/ Proceed(l, "count")
  BY DEF FindResumable
<1>2. LaunchTypeOK /\ launch[l].user \in User /\ launch[l] \in LaunchRequest
  BY <1>1 DEF LaunchInv, LaunchSound, LaunchTypeOK
<1>3. CASE Update(l)
  BY <1>1, <1>2, <1>3, UpdateOrEndKeeps DEF LaunchTypeOK
<1>4. CASE Proceed(l, "count")
  <2> DEFINE r == [launch[l] EXCEPT !.at = "count"]
  <2>1. r \in LaunchRequest /\ r.at = "count" /\ r.user = launch[l].user
    BY <1>2 DEF LaunchRequest
  <2>2. launch' = [launch EXCEPT ![l] = r]
    BY <1>4, <1>2 DEF Proceed, LaunchTypeOK
  <2> HIDE DEF r
  <2> QED
    BY <2>1, <2>2, <1>1, <1>2, LaunchGoesOn DEF LaunchTypeOK
<1> QED
  BY <1>1, <1>3, <1>4

LEMMA CountAttemptsKeeps ==
  ASSUME LaunchInv, NEW l \in Launch, CountAttempts(l)
  PROVE  LaunchInv'
<1> DEFINE n == NextNumber(l)
           m == [launch[l] EXCEPT !.at = "create"]
           r == [m EXCEPT !.number = n]
<1>1. /\ launch[l].at = "count" /\ n <= MaxNumber
      /\ attempt' = attempt /\ status' = status /\ stats' = stats /\ present' = present
      /\ launch' = [launch EXCEPT ![l].at = "create", ![l].number = n]
  BY DEF CountAttempts
<1>2. LaunchTypeOK /\ launch[l].user \in User /\ launch[l] \in LaunchRequest
  BY <1>1 DEF LaunchInv, LaunchSound, LaunchTypeOK
<1>3. n = Cardinality(Numbers(launch[l].user)) + 1
  BY <1>2, NextInRow
<1>4. n \in Nat
  BY <1>2, <1>3, NumbersFinite DEF LaunchTypeOK
<1> HIDE DEF n
<1>5. m \in LaunchRequest /\ m.at = "create" /\ m.user = launch[l].user
  BY <1>2 DEF LaunchRequest
<1>6. launch' = [launch EXCEPT ![l] = r]
  BY <1>1, <1>2 DEF LaunchTypeOK
<1> HIDE DEF m
<1>7. r \in LaunchRequest /\ r.at = "create" /\ r.user = launch[l].user /\ r.number = n
  BY <1>4, <1>5 DEF LaunchRequest
<1> HIDE DEF r
<1>8. /\ status' \in [StatusKey -> AttemptStatus] /\ present' \in BOOLEAN
      /\ r.user \in User /\ r.number = Cardinality(Numbers(r.user)) + 1
      /\ r.number <= MaxNumber /\ r.at # "write"
  BY <1>1, <1>2, <1>3, <1>7 DEF LaunchTypeOK
<1> QED
  BY <1>1, <1>6, <1>7, <1>8, LaunchGoesOn

LEMMA ReadAttemptsKeeps ==
  ASSUME LaunchInv, NEW l \in Launch, ReadAttempts(l)
  PROVE  LaunchInv'
<1> DEFINE c == Counted
           m == [launch[l] EXCEPT !.at = "write"]
           r == [m EXCEPT !.seen = c]
<1>1. /\ launch[l].at = "read"
      /\ attempt' = attempt /\ status' = status /\ stats' = stats /\ present' = present
      /\ launch' = [launch EXCEPT ![l].at = "write", ![l].seen = c]
  BY DEF ReadAttempts
<1>2. LaunchTypeOK /\ launch[l] \in LaunchRequest
  BY <1>1 DEF LaunchInv, LaunchTypeOK
<1>3. c \in Stats /\ c.completed <= c.total /\ c.total = Cardinality(attempt)
  <2>1. IsFiniteSet(attempt) /\ DoneAttempts \in SUBSET attempt
    BY DEF LaunchInv, DoneAttempts
  <2>2. /\ IsFiniteSet(DoneAttempts) /\ Cardinality(DoneAttempts) <= Cardinality(attempt)
        /\ Cardinality(attempt) \in Nat
    BY <2>1, FS_Subset, FS_CardinalityType
  <2>3. Cardinality(DoneAttempts) \in Nat
    BY <2>2, FS_CardinalityType
  <2> QED
    BY <2>2, <2>3 DEF Counted, Stats
<1>4. Cardinality(attempt) \in Nat
  BY FS_CardinalityType DEF LaunchInv
<1> HIDE DEF c
<1>5. m \in LaunchRequest /\ m.at = "write"
  BY <1>2 DEF LaunchRequest
<1>6. launch' = [launch EXCEPT ![l] = r]
  BY <1>1, <1>2 DEF LaunchTypeOK
<1> HIDE DEF m
<1>7. r \in LaunchRequest /\ r.at = "write" /\ r.seen = c
  BY <1>3, <1>5 DEF LaunchRequest
<1> HIDE DEF r
<1>8. /\ status' \in [StatusKey -> AttemptStatus] /\ present' \in BOOLEAN
      /\ r.seen.completed <= r.seen.total /\ r.seen.total <= Cardinality(attempt)
      /\ r.at \notin {"find", "count", "create"}
  BY <1>1, <1>2, <1>3, <1>4, <1>7 DEF LaunchTypeOK
<1> QED
  BY <1>1, <1>6, <1>7, <1>8, LaunchGoesOn

LEMMA WriteStatsKeeps ==
  ASSUME LaunchInv, NEW l \in Launch, WriteStats(l)
  PROVE  LaunchInv'
<1>1. /\ launch[l].at = "write" /\ EndLaunch(l)
      /\ attempt' = attempt /\ status' = status /\ present' = present
  BY DEF WriteStats
<1>2. LaunchTypeOK /\ LaunchSound(l)
  BY DEF LaunchInv
<1>3. stats' = launch[l].seen \/ stats' = stats
  BY DEF WriteStats, Written
<1>4. stats' \in Stats /\ StatsInRange'
  BY <1>1, <1>2, <1>3 DEF LaunchInv, AttemptsCounted, StatsInRange, LaunchSound,
                         LaunchTypeOK, LaunchRequest
<1>5. /\ launch' \in [Launch -> LaunchRequest] /\ launch'[l].at = "idle"
      /\ \A k \in Launch : k # l => launch'[k] = launch[k]
  BY <1>1, <1>2, RequestTypes DEF EndLaunch, LaunchTypeOK
<1>6. LaunchTypeOK'
  BY <1>1, <1>2, <1>4, <1>5 DEF LaunchTypeOK
<1>7. \A u : Numbers(u)' = Numbers(u)
  BY <1>1 DEF Numbers
<1>8. NumbersInARow' /\ IsFiniteSet(attempt)'
  BY <1>1, <1>7 DEF LaunchInv, AttemptsCounted, NumbersInARow
<1>9. LaunchSound(l)'
  BY <1>5 DEF LaunchSound
<1>10. ASSUME NEW k \in Launch, k # l PROVE LaunchSound(k)'
  BY <1>1, <1>5, <1>7, <1>10 DEF LaunchInv, LaunchSound
<1> QED
  BY <1>4, <1>6, <1>8, <1>9, <1>10 DEF LaunchInv, AttemptsCounted

(* The index on learner, package and number lets the next number in alone. *)
LEMMA CreateAttemptKeeps ==
  ASSUME LaunchInv, NEW l \in Launch, CreateAttempt(l)
  PROVE  LaunchInv'
<1> PICK u : u = launch[l].user
  OBVIOUS
<1> PICK n : n = launch[l].number
  OBVIOUS
<1> PICK c : c = Cardinality(Numbers(u))
  OBVIOUS
<1> PICK a : a = NewAttemptOf(l)
  OBVIOUS
<1>1. /\ launch[l].at = "create" /\ ~Refused(a) /\ attempt' = attempt \cup {a}
      /\ status' = status /\ stats' = stats /\ present' = present
      /\ EndLaunch(l) \/ Update(l)
  BY DEF CreateAttempt
<1>2. LaunchTypeOK /\ LaunchSound(l) /\ IsFiniteSet(attempt) /\ AttemptsCounted
  BY DEF LaunchInv
<1>3. /\ u \in User /\ n \in 1..(c + 1) /\ n <= MaxNumber
      /\ c \in Nat /\ Numbers(u) = 1..c
      /\ Cardinality({b \in attempt : b.user = u}) = c
  BY <1>1, <1>2, NumbersFinite DEF LaunchSound, LaunchTypeOK, AttemptsCounted, NumbersInARow
<1>4. a.user = u /\ a.number = n /\ a \in AttemptKey
  BY <1>1, <1>2, <1>3 DEF NewAttemptOf, AttemptKey, LaunchTypeOK, LaunchRequest
<1>5. n \notin Numbers(u)
  <2> SUFFICES ASSUME n \in Numbers(u) PROVE FALSE
    OBVIOUS
  <2>1. PICK b \in attempt : b.user = u /\ b.number = n
    BY DEF Numbers
  <2> QED
    BY <2>1, <1>1, <1>4 DEF Refused
<1>6. n = c + 1
  <2>1. c \in Nat /\ n \in 1..(c + 1) /\ n \notin 1..c
    BY <1>3, <1>5
  <2> QED
    BY <2>1
<1>7. Numbers(u)' = Numbers(u) \cup {n}
  BY <1>1, <1>4 DEF Numbers
<1>8. \A v \in User : v # u => Numbers(v)' = Numbers(v)
  BY <1>1, <1>4 DEF Numbers
<1>9. Cardinality(Numbers(u)') = c + 1
  <2>1. IsFiniteSet(Numbers(u))
    BY <1>2, NumbersFinite DEF LaunchTypeOK
  <2> QED
    BY <2>1, <1>5, <1>7, FS_AddElement
<1>10. Numbers(u)' = 1..(c + 1)
  <2>1. c \in Nat
    BY <1>3
  <2>2. (1..c) \cup {c + 1} = 1..(c + 1)
    BY <2>1
  <2> QED
    BY <2>2, <1>3, <1>6, <1>7
<1>11. Cardinality({b \in attempt' : b.user = u}) = c + 1
  <2> DEFINE mine == {b \in attempt : b.user = u}
  <2>1. IsFiniteSet(mine) /\ Cardinality(mine) = c
    BY <1>2, <1>3, FS_Subset
  <2>2. {b \in attempt' : b.user = u} = mine \cup {a}
    BY <1>1, <1>4
  <2>3. a \notin mine
    BY <1>4, <1>5 DEF Numbers
  <2> HIDE DEF mine
  <2> QED
    BY <2>1, <2>2, <2>3, FS_AddElement
<1>12. NumbersInARow'
  <2>1. ASSUME NEW v \in User, v # u
        PROVE  /\ Numbers(v)' = 1..Cardinality(Numbers(v)')
               /\ Cardinality({b \in attempt' : b.user = v}) = Cardinality(Numbers(v)')
    <3>1. Numbers(v)' = Numbers(v)
      BY <1>8, <2>1
    <3>2. {b \in attempt' : b.user = v} = {b \in attempt : b.user = v}
      BY <1>1, <1>4, <2>1
    <3> QED
      BY <3>1, <3>2, <1>2 DEF AttemptsCounted, NumbersInARow
  <2> QED
    BY <2>1, <1>9, <1>10, <1>11 DEF NumbersInARow
<1>13. IsFiniteSet(attempt') /\ Cardinality(attempt) <= Cardinality(attempt')
  <2>1. IsFiniteSet(attempt') /\ attempt \in SUBSET attempt'
    BY <1>1, <1>2, FS_AddElement
  <2> QED
    BY <2>1, FS_Subset
<1>14. Cardinality(attempt) \in Nat /\ Cardinality(attempt') \in Nat
  BY <1>2, <1>13, FS_CardinalityType
<1>15. StatsInRange'
  BY <1>1, <1>2, <1>13, <1>14 DEF AttemptsCounted, StatsInRange, LaunchTypeOK, Stats
<1>16. /\ launch' \in [Launch -> LaunchRequest] /\ launch'[l].at \in {"idle", "read"}
       /\ \A k \in Launch : k # l => launch'[k] = launch[k]
  BY <1>1, <1>2, RequestTypes DEF EndLaunch, Update, LaunchTypeOK
<1>17. LaunchTypeOK'
  BY <1>1, <1>2, <1>4, <1>16 DEF LaunchTypeOK
<1>18. LaunchSound(l)'
  BY <1>16 DEF LaunchSound
<1>19. ASSUME NEW k \in Launch, k # l PROVE LaunchSound(k)'
  <2>1. LaunchSound(k) /\ launch'[k] = launch[k] /\ launch[k] \in LaunchRequest
    BY <1>2, <1>16, <1>19 DEF LaunchInv, LaunchTypeOK
  <2>2. CASE launch[k].at = "create"
    <3>1. launch[k].user \in User /\ Cardinality(Numbers(launch[k].user)) \in Nat
      BY <2>1, <2>2, <1>2, NumbersFinite DEF LaunchSound, LaunchTypeOK
    <3>2. CASE launch[k].user = u
      <4>1. Cardinality(Numbers(launch[k].user)) = c
        BY <3>2
      <4>2. launch[k].number \in 1..(c + 1) /\ launch[k].number <= MaxNumber
        BY <2>1, <2>2, <4>1 DEF LaunchSound
      <4>3. launch[k].number \in 1..(c + 1 + 1)
        BY <4>2, <1>3
      <4>4. /\ launch'[k].at = "create" /\ launch'[k].user = u
            /\ launch'[k].number \in 1..(Cardinality(Numbers(u)') + 1)
        BY <2>1, <2>2, <3>2, <4>3, <1>9
      <4> QED
        BY <2>1, <4>2, <4>4, <3>1, <3>2 DEF LaunchSound
    <3>3. CASE launch[k].user # u
      BY <2>1, <2>2, <3>1, <3>3, <1>8 DEF LaunchSound
    <3> QED
      BY <3>2, <3>3
  <2>3. CASE launch[k].at = "write"
    BY <2>1, <2>3, <1>13, <1>14 DEF LaunchSound, LaunchRequest, Stats
  <2>4. CASE launch[k].at \notin {"create", "write"}
    BY <2>1, <2>4 DEF LaunchSound
  <2> QED
    BY <2>2, <2>3, <2>4
<1> QED
  BY <1>12, <1>13, <1>15, <1>17, <1>18, <1>19 DEF LaunchInv, AttemptsCounted

LEMMA CompleteAttemptKeeps ==
  ASSUME LaunchInv, NEW l \in Launch, NEW u \in User, NEW n \in 1..MaxNumber,
         CompleteAttempt(l, u, n)
  PROVE  LaunchInv'
<1>1. /\ Update(l)
      /\ attempt' = attempt /\ stats' = stats /\ present' = present
  BY DEF CompleteAttempt
<1>2. status' \in [StatusKey -> AttemptStatus]
  BY DEF CompleteAttempt, LaunchInv, LaunchTypeOK
<1> QED
  BY <1>1, <1>2, UpdateOrEndKeeps DEF LaunchInv, LaunchTypeOK

(* A step of no launch keeps the attempts and the statistics.              *)
LEMMA StatusKeeps ==
  ASSUME LaunchInv, attempt' = attempt, stats' = stats, launch' = launch,
         status' \in [StatusKey -> AttemptStatus], present' \in BOOLEAN
  PROVE  LaunchInv'
<1>1. LaunchTypeOK'
  BY DEF LaunchInv, LaunchTypeOK
<1>2. \A u : Numbers(u)' = Numbers(u)
  BY DEF Numbers
<1>3. AttemptsCounted' /\ IsFiniteSet(attempt)'
  BY <1>2 DEF LaunchInv, AttemptsCounted, NumbersInARow, StatsInRange
<1>4. ASSUME NEW k \in Launch PROVE LaunchSound(k)'
  BY <1>2 DEF LaunchInv, LaunchSound
<1> QED
  BY <1>1, <1>3, <1>4 DEF LaunchInv

LEMMA LaunchStep == LaunchInv /\ [LaunchNext]_launching => LaunchInv'
<1> SUFFICES ASSUME LaunchInv, [LaunchNext]_launching PROVE LaunchInv'
  OBVIOUS
<1>1. LaunchTypeOK
  BY DEF LaunchInv
<1>2. CASE UNCHANGED launching
  BY <1>1, <1>2, StatusKeeps DEF launching, LaunchTypeOK
<1>3. CASE PackageDeleted
  BY <1>1, <1>3, StatusKeeps DEF PackageDeleted, LaunchTypeOK
<1>4. ASSUME NEW u \in User, NEW n \in 1..MaxNumber, Play(u, n) PROVE LaunchInv'
  BY <1>1, <1>4, StatusKeeps DEF Play, LaunchTypeOK
<1>5. ASSUME NEW l \in Launch, CutOffLaunch(l) PROVE LaunchInv'
  BY <1>1, <1>5, UpdateOrEndKeeps DEF CutOffLaunch, LaunchTypeOK
<1>6. ASSUME NEW l \in Launch,
             \/ \E u \in User, player \in BOOLEAN : StartLaunch(l, u, player)
             \/ FindResumable(l) \/ CountAttempts(l) \/ CreateAttempt(l)
             \/ \E u \in User, n \in 1..MaxNumber : CompleteAttempt(l, u, n)
             \/ ReadAttempts(l) \/ WriteStats(l)
      PROVE  LaunchInv'
  BY <1>6, StartLaunchKeeps, FindResumableKeeps, CountAttemptsKeeps, CreateAttemptKeeps,
     CompleteAttemptKeeps, ReadAttemptsKeeps, WriteStatsKeeps
<1> QED
  BY <1>2, <1>3, <1>4, <1>5, <1>6 DEF LaunchNext

(* The inductive invariant of launches: a launch that is to create an      *)
(* attempt holds a number the user has, or the next; one that is to write  *)
(* the statistics holds numbers in range.                                  *)
THEOREM LaunchCorrect == LaunchSpec => []LaunchInv
<1>1. LaunchInit => LaunchInv
  BY LaunchInvInit
<1>2. LaunchInv /\ [LaunchNext]_launching => LaunchInv'
  BY LaunchStep
<1> QED
  BY <1>1, <1>2, PTL DEF LaunchSpec

(* A user's attempts are numbered 1, 2, ... without gap or repetition, and *)
(* the statistics never show more attempts than there are, nor more        *)
(* completed ones than attempts, for any users, launches and limits.       *)
THEOREM AttemptsCountedCorrect == LaunchSpec => []AttemptsCounted
<1>1. LaunchInv => AttemptsCounted
  BY DEF LaunchInv
<1> QED
  BY <1>1, LaunchCorrect, PTL

-------------------------------------------------------------------------------
(* Manifests. *)

(* Any numbers have a least one. *)
LEMMA LeastOf ==
  ASSUME NEW S, S \subseteq Nat, S # {}
  PROVE  \E m \in S : \A n \in S : m <= n
<1> DEFINE R == OpToRel(<, Nat)
<1>1. IsWellFoundedOn(R, Nat)
  BY NatLessThanWellFounded, Zenon
<1>2. \A m, n \in Nat : <<m, n>> \in R <=> m < n
  BY DEF OpToRel
<1> HIDE DEF R
<1>3. PICK m \in S : \A n \in S : ~(<<n, m>> \in R)
  BY <1>1, WFMin
<1>4. ASSUME NEW n \in S PROVE m <= n
  <2>1. m \in Nat /\ n \in Nat
    OBVIOUS
  <2>2. ~(n < m)
    BY <1>2, <1>3, <2>1
  <2>3. QED
    BY <2>1, <2>2
<1>5. QED
  BY <1>4

LEMMA PlacesAreNumbers == \A n \in Nat : 1..n \subseteq Nat
OBVIOUS

LEMMA MinIn ==
  ASSUME NEW S, S \subseteq Nat, S # {}
  PROVE  Min(S) \in S
BY LeastOf DEF Min

(* What is stored of an upload is what the readers make of its file.       *)
ManifestInv ==
  /\ upload.zip \in Zips
  /\ upload.at = "stored" => upload.doc = Described(upload.zip)

(* The two readers, of a manifest with marks of one version only. *)
LEMMA Parser12 ==
  ASSUME NEW m, "1.2" \in Schema(m), ~Shows(m, Only2004)
  PROVE  ParserVersion(m) = "scorm_1.2"
BY DEF Schema, Only12, Only2004, Shows, ParserVersion, Text, Closed

LEMMA Parser2004 ==
  ASSUME NEW m, Schema(m) \cap {"2004", "1.3"} # {}, ~Shows(m, Only12)
  PROVE  ParserVersion(m) = "scorm_2004"
BY DEF Schema, Only12, Only2004, Shows, ParserVersion, Text, Closed

LEMMA Validator12 ==
  ASSUME NEW m, "1.2" \in Schema(m), ~Shows(m, Only2004)
  PROVE  ValidatorVersion(m) = "scorm_1.2"
BY ManifestAssumption
   DEF Schema, Only12, Only2004, Shows, Text, Closed, ValidatorVersion, BySchema, ByNamespace, Tagged2004

LEMMA Validator2004 ==
  ASSUME NEW m, Schema(m) \cap {"2004", "1.3"} # {}, ~Shows(m, Only12)
  PROVE  ValidatorVersion(m) \in {"scorm_2004", Nothing}
BY ManifestAssumption
   DEF Schema, Only12, Only2004, Shows, Text, Closed, ValidatorVersion, BySchema, ByNamespace, Tagged2004

-------------------------------------------------------------------------------
(* What is launched. *)

(* The resources of the document are those of the manifest, in its order.  *)
LEMMA ResourcesAre ==
  ASSUME NEW m, m.resources \in Seq(Range(m.resources))
  PROVE  /\ Len(m.resources) \in Nat
         /\ Len(Resources(m)) = Len(m.resources)
         /\ DOMAIN Resources(m) = 1..Len(m.resources)
         /\ DOMAIN m.resources = 1..Len(m.resources)
         /\ \A i \in 1..Len(m.resources) :
              /\ Resources(m)[i].id = m.resources[i].id
              /\ Resources(m)[i].href # "" => Resources(m)[i].href = m.resources[i].href
              /\ m.resources[i] \in Range(m.resources)
<1>1. Len(m.resources) \in Nat /\ DOMAIN m.resources = 1..Len(m.resources)
  OBVIOUS
<1>2. DOMAIN Resources(m) = 1..Len(m.resources)
  BY <1>1 DEF Resources
<1>3. Len(Resources(m)) = Len(m.resources)
  BY <1>1, <1>2 DEF Resources
<1>4. QED
  BY <1>1, <1>2, <1>3 DEF Resources, Range

(* A page found for an item is that of a resource the item refers to.      *)
LEMMA UrlOfIs ==
  ASSUME NEW m, m.resources \in Seq(Range(m.resources)), NEW ref,
         UrlOf(Resources(m), ref) # ""
  PROVE  \E r \in Range(m.resources) :
           r.id = ref /\ r.href = UrlOf(Resources(m), ref)
<1> DEFINE I == {i \in 1..Len(Resources(m)) : Resources(m)[i].id = ref}
           i == SelectInSeq(Resources(m), LAMBDA r : r.id = ref)
<1>1. i = IF I # {} THEN Min(I) ELSE 0
  BY DEF SelectInSeq
<1>2. i # 0 /\ UrlOf(Resources(m), ref) = Resources(m)[i].href
  BY DEF UrlOf
<1>3. I # {}
  BY <1>1, <1>2
<1>4. i \in I
  <2>1. I \subseteq Nat
    <3>1. Len(Resources(m)) \in Nat
      BY ResourcesAre
    <3>2. 1..Len(Resources(m)) \subseteq Nat
      BY <3>1, PlacesAreNumbers
    <3>3. QED
      BY <3>2
  <2> HIDE DEF I
  <2>2. QED
    BY <1>1, <1>3, <2>1, MinIn
<1>5. i \in 1..Len(m.resources) /\ Resources(m)[i].id = ref
  BY <1>4, ResourcesAre
<1> HIDE DEF i
<1>6. QED
  BY <1>2, <1>5, ResourcesAre

(* An organization with items has a first one. *)
LEMMA OrganizationsAre ==
  ASSUME NEW m, m.organizations \in Seq(Range(m.organizations)),
         \A items \in Range(m.organizations) : items \in Seq(Range(items))
  PROVE  /\ Len(Organizations(m)) \in Nat
         /\ DOMAIN Organizations(m) = 1..Len(Organizations(m))
         /\ \A o \in 1..Len(Organizations(m)) :
              /\ Organizations(m)[o] \in Range(Organizations(m))
              /\ Organizations(m)[o] # <<>> =>
                   Organizations(m)[o][1] \in Range(Organizations(m)[o])
<1>1. Len(m.organizations) \in Nat /\ DOMAIN m.organizations = 1..Len(m.organizations)
  OBVIOUS
<1>2. /\ DOMAIN Organizations(m) = 1..Len(m.organizations)
      /\ Len(Organizations(m)) = Len(m.organizations)
  BY <1>1 DEF Organizations
<1>3. ASSUME NEW o \in 1..Len(m.organizations), Organizations(m)[o] # <<>>
      PROVE  Organizations(m)[o][1] \in Range(Organizations(m)[o])
  <2> DEFINE items == m.organizations[o]
  <2>1. items \in Seq(Range(items))
    BY <1>1 DEF Range
  <2>2. Organizations(m)[o] = ParsedItems(items)
    BY <1>1 DEF Organizations
  <2> HIDE DEF items
  <2>3. Len(items) \in Nat /\ DOMAIN items = 1..Len(items)
    BY <2>1
  <2>4. DOMAIN ParsedItems(items) = 1..Len(items)
    BY <2>3 DEF ParsedItems
  <2>5. Len(items) # 0
    <3>1. ASSUME Len(items) = 0 PROVE ParsedItems(items) = <<>>
      BY <2>3, <2>4, <3>1 DEF ParsedItems
    <3>2. QED
      BY <3>1, <2>2, <1>3
  <2>6. 1 \in DOMAIN ParsedItems(items)
    BY <2>3, <2>4, <2>5
  <2>7. QED
    BY <2>2, <2>6 DEF Range
<1>4. \A o \in 1..Len(m.organizations) : Organizations(m)[o] \in Range(Organizations(m))
  BY <1>2 DEF Range
<1>5. QED
  BY <1>1, <1>2, <1>3, <1>4

(* What the items of a manifest refer to. *)
RefsOf(m) == UNION {Range(items) : items \in Range(Organizations(m))}

LEMMA LaunchUrlLeads ==
  ASSUME NEW z \in Zips, LaunchUrl(z.manifest) # "index.html"
  PROVE  \E r \in Range(z.manifest.resources) :
           /\ r.href = LaunchUrl(z.manifest)
           /\ RefsOf(z.manifest) # {} => r.id \in RefsOf(z.manifest)
<1> DEFINE m == z.manifest
           os == Organizations(m)
           I == {o \in 1..Len(os) : os[o] # <<>>}
           org == SelectInSeq(os, LAMBDA items : items # <<>>)
<1>1. /\ m.resources \in Seq(Range(m.resources))
      /\ m.organizations \in Seq(Range(m.organizations))
      /\ \A items \in Range(m.organizations) : items \in Seq(Range(items))
  BY ManifestAssumption
<1> HIDE DEF m
<1>2. /\ Len(os) \in Nat
      /\ DOMAIN os = 1..Len(os)
      /\ \A o \in 1..Len(os) :
           os[o] \in Range(os) /\ (os[o] # <<>> => os[o][1] \in Range(os[o]))
  BY <1>1, OrganizationsAre
<1>3. org = IF I # {} THEN Min(I) ELSE 0
  BY DEF SelectInSeq
<1>4. I \subseteq Nat
  BY <1>2
<1>5. I # {} => org \in I
  <2> HIDE DEF I
  <2>1. QED
    BY <1>3, <1>4, MinIn
<1>6. org # 0 <=> I # {}
  BY <1>2, <1>3, <1>5
<1>7. LaunchUrl(m) # "index.html" /\ LaunchUrl(m) =
        IF org # 0 THEN UrlOf(Resources(m), os[org][1])
        ELSE IF Resources(m) = <<>> THEN "" ELSE Resources(m)[1].href
  BY DEF LaunchUrl, m
<1>8. LaunchUrl(m) # ""
  BY DEF LaunchUrl
<1> HIDE DEF org
<1>9. CASE org # 0
  <2>1. org \in 1..Len(os) /\ os[org] # <<>>
    BY <1>5, <1>6, <1>9
  <2>2. os[org][1] \in RefsOf(m)
    BY <2>1, <1>2 DEF RefsOf
  <2>3. LaunchUrl(m) = UrlOf(Resources(m), os[org][1])
    BY <1>7, <1>9
  <2>4. PICK r \in Range(m.resources) :
          r.id = os[org][1] /\ r.href = LaunchUrl(m)
    <3> DEFINE ref == os[org][1]
    <3>1. UrlOf(Resources(m), ref) # ""
      BY <2>3, <1>8
    <3> HIDE DEF ref
    <3>2. \E r \in Range(m.resources) : r.id = ref /\ r.href = UrlOf(Resources(m), ref)
      BY <3>1, <1>1, UrlOfIs
    <3>3. QED
      BY <3>2, <2>3 DEF ref
  <2>5. QED
    BY <2>2, <2>4 DEF m
<1>10. CASE org = 0
  <2>1. I = {}
    BY <1>6, <1>10
  <2>2. RefsOf(m) = {}
    <3>1. ASSUME NEW items \in Range(os) PROVE Range(items) = {}
      <4>1. items = <<>>
        BY <3>1, <2>1, <1>2 DEF Range
      <4>2. QED
        BY <4>1 DEF Range
    <3>2. QED
      BY <3>1 DEF RefsOf
  <2>3. LaunchUrl(m) = Resources(m)[1].href /\ Resources(m) # <<>>
    BY <1>7, <1>8, <1>10
  <2>4. Len(m.resources) # 0
    <3>1. ASSUME Len(m.resources) = 0 PROVE Resources(m) = <<>>
      <4>1. m.resources = <<>>
        BY <3>1, <1>1
      <4>2. QED
        BY <4>1 DEF Resources
    <3>2. QED
      BY <3>1, <2>3
  <2>5. 1 \in 1..Len(m.resources)
    <3>1. Len(m.resources) \in Nat
      BY <1>1
    <3>2. QED
      BY <2>4, <3>1
  <2>6. m.resources[1] \in Range(m.resources) /\ m.resources[1].href = LaunchUrl(m)
    BY <2>3, <2>5, <1>8, <1>1, ResourcesAre
  <2>7. QED
    BY <2>2, <2>6 DEF m
<1>11. QED
  BY <1>9, <1>10

-------------------------------------------------------------------------------

LEMMA ManifestInvInit == ManifestInit => ManifestInv
BY DEF ManifestInit, ManifestInv

LEMMA ManifestInvNext == ManifestInv /\ [ManifestNext]_upload => ManifestInv'
<1> SUFFICES ASSUME ManifestInv, [ManifestNext]_upload PROVE ManifestInv'
  OBVIOUS
<1>1. ASSUME NEW from, NEW to, to # "stored", Upload(from, to) PROVE ManifestInv'
  BY <1>1 DEF Upload, ManifestInv
<1>2. CASE Accept \/ RefuseUpload \/ ExtractManifest \/ FailUpload
  BY <1>1, <1>2 DEF Accept, RefuseUpload, ExtractManifest, FailUpload
<1>3. CASE Describe
  BY <1>3 DEF Describe, ManifestInv
<1>4. CASE UploadOver \/ UNCHANGED upload
  BY <1>4 DEF UploadOver, ManifestInv
<1>5. QED
  BY <1>2, <1>3, <1>4 DEF ManifestNext

LEMMA ManifestInvImplies == ManifestInv => ManifestsRead
<1> SUFFICES ASSUME ManifestInv PROVE VersionsAgree /\ LaunchLeads
  BY DEF ManifestsRead
<1> DEFINE m == upload.zip.manifest
<1>1. ASSUME upload.at = "stored"
      PROVE  /\ upload.doc.version = Version(m)
             /\ upload.doc.manifestVersion = ParserVersion(m)
             /\ upload.doc.launchUrl = LaunchUrl(m)
  BY <1>1 DEF ManifestInv, Described
<1>2. VersionsAgree
  <2>1. ASSUME upload.at = "stored", "1.2" \in Schema(m), ~Shows(m, Only2004)
        PROVE  upload.doc.version = "scorm_1.2" /\ upload.doc.manifestVersion = "scorm_1.2"
    <3>1. ParserVersion(m) = "scorm_1.2" /\ ValidatorVersion(m) = "scorm_1.2"
      BY <2>1, Parser12, Validator12
    <3>2. QED
      BY <1>1, <2>1, <3>1, ManifestAssumption DEF Version
  <2>2. ASSUME upload.at = "stored", Schema(m) \cap {"2004", "1.3"} # {}, ~Shows(m, Only12)
        PROVE  upload.doc.version = "scorm_2004" /\ upload.doc.manifestVersion = "scorm_2004"
    <3>1. ParserVersion(m) = "scorm_2004" /\ ValidatorVersion(m) \in {"scorm_2004", Nothing}
      BY <2>2, Parser2004, Validator2004
    <3>2. QED
      BY <1>1, <2>2, <3>1, ManifestAssumption DEF Version
  <2>3. QED
    BY <2>1, <2>2 DEF VersionsAgree
<1>3. LaunchLeads
  <2> SUFFICES ASSUME upload.at = "stored", upload.doc.launchUrl # "index.html"
               PROVE  \E r \in Range(m.resources) :
                        r.href = upload.doc.launchUrl /\ (RefsOf(m) # {} => r.id \in RefsOf(m))
    BY DEF LaunchLeads, RefsOf
  <2>1. upload.zip \in Zips
    BY DEF ManifestInv
  <2>2. QED
    BY <1>1, <2>1, LaunchUrlLeads
<1>4. QED
  BY <1>2, <1>3

(* What is stored of a manifest is what it says, for any manifests:        *)
(* validator and parser agree on its version where its text shows marks of *)
(* one only, and what is launched is a page it leads to                    *)
(* (packageValidator.ts:180-207, manifestParser.ts:62-145).                *)
THEOREM ManifestsReadCorrect == ManifestSpec => []ManifestsRead
BY ManifestInvInit, ManifestInvNext, ManifestInvImplies, PTL DEF ManifestSpec

===============================================================================
