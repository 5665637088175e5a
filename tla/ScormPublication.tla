--------------------------- MODULE ScormPublication ---------------------------
(***************************************************************************)
(* Publishing and assigning one SCORM package: update, publish, unpublish, *)
(* assign and unassign of scormPackageCtrl.ts and the same of              *)
(* instructorPackageCtrl.ts.  Each loads the document, changes its copy    *)
(* and saves it; save() writes the paths that differ from what was loaded. *)
(***************************************************************************)
EXTENDS Naturals

CONSTANTS
  Clerk,    \* the requests in flight at once
  Target    \* the learners, classes and programs a package is assigned to

VARIABLES
  document,   \* the ScormPackage document
  deleted,    \* whether it has been deleted
  touched,    \* an update has set isPublished (no variable of the code)
  clerk       \* clerk[k]: the paths request k is to write, with their values

publication == <<document, deleted, touched, clerk>>

-------------------------------------------------------------------------------

Publishable ==
  [status : {"draft", "published"}, isPublished : BOOLEAN,
   assignedTo : SUBSET Target]

(* A request at rest has no path to write. *)
NothingToWrite == [f \in {} |-> TRUE]

PublicationInit ==
  /\ document = [status |-> "draft", isPublished |-> FALSE, assignedTo |-> {}]
  /\ deleted = FALSE
  /\ touched = FALSE
  /\ clerk = [k \in Clerk |-> NothingToWrite]

(* The paths of `new` that differ from the document. *)
Dirty(new) == [f \in {g \in DOMAIN new : new[g] # document[g]} |-> new[f]]

(* findById, the change of the copy; nothing is saved when nothing differs.*)
LoadDocument(k, new) ==
  /\ clerk[k] = NothingToWrite
  /\ ~deleted
  /\ clerk' = [clerk EXCEPT ![k] = Dirty(new)]
  /\ UNCHANGED <<document, deleted, touched>>

(* updatePackage may set isPublished and leaves status as it is. *)
UpdatePackage(k) ==
  \E b \in BOOLEAN :
    /\ clerk[k] = NothingToWrite
    /\ ~deleted
    /\ clerk' = [clerk EXCEPT ![k] = Dirty([isPublished |-> b])]
    /\ touched' = TRUE
    /\ UNCHANGED <<document, deleted>>

(* Mutant: publishing sets the flag and leaves status as it is. *)
PublishFlag(k) == LoadDocument(k, [isPublished |-> TRUE])

PublishPackage(k) == LoadDocument(k, [isPublished |-> TRUE, status |-> "published"])
UnpublishPackage(k) == LoadDocument(k, [isPublished |-> FALSE, status |-> "draft"])

(* assignedTo is assigned as a whole, and written as a whole. *)
AssignPackage(k) ==
  \E t \in SUBSET Target : LoadDocument(k, [assignedTo |-> document.assignedTo \cup t])
UnassignPackage(k) ==
  \E t \in SUBSET Target : LoadDocument(k, [assignedTo |-> document.assignedTo \ t])

SavePackage(k) ==
  /\ clerk[k] # NothingToWrite
  /\ ~deleted
  /\ document' = [f \in DOMAIN document |->
       IF f \in DOMAIN clerk[k] THEN clerk[k][f] ELSE document[f]]
  /\ clerk' = [clerk EXCEPT ![k] = NothingToWrite]
  /\ UNCHANGED <<deleted, touched>>

(* The save throws on a deleted document, or the request is cut off. *)
Abandon(k) ==
  /\ clerk' = [clerk EXCEPT ![k] = NothingToWrite]
  /\ UNCHANGED <<document, deleted, touched>>

DocumentDeleted ==
  /\ deleted' = TRUE
  /\ UNCHANGED <<document, touched, clerk>>

PublicationNext ==
  \/ \E k \in Clerk :
       \/ UpdatePackage(k) \/ PublishPackage(k) \/ UnpublishPackage(k)
       \/ AssignPackage(k) \/ UnassignPackage(k)
       \/ SavePackage(k) \/ Abandon(k)
  \/ DocumentDeleted

PublicationSpec == PublicationInit /\ [][PublicationNext]_publication

-------------------------------------------------------------------------------

(* Every variable has its type. *)
PublicationTypeOK ==
  /\ document \in Publishable
  /\ deleted \in BOOLEAN
  /\ touched \in BOOLEAN
  /\ \A k \in Clerk : DOMAIN clerk[k] \subseteq DOMAIN document

(* A package is published by its status, which learners' lists go by       *)
(* (ScormPackage.ts:338-342), exactly when isPublished says so, which the  *)
(* staff's filter goes by, however publish and unpublish requests overlap, *)
(* until an update sets isPublished alone                                  *)
(* (scormPackageCtrl.ts:423, 709-720, 751-762).                            *)
PublishedAgrees ==
  touched \/ (document.status = "published" <=> document.isPublished)

===============================================================================
