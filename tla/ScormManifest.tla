----------------------------- MODULE ScormManifest -----------------------------
(***************************************************************************)
(* What an upload makes of imsmanifest.xml: the two readers of its text,   *)
(* utils/scorm/packageValidator.ts and utils/scorm/manifestParser.ts, and  *)
(* the document uploadPackage of scormPackageCtrl.ts builds from both.     *)
(*                                                                         *)
(* Each detects the SCORM version in its own way.  The validator looks for *)
(* marks anywhere in the text, the parser in the elements first; the       *)
(* document takes the validator's version where there is one, keeps the    *)
(* parser's in its manifest data, and the player picks its API by the      *)
(* former.  A mark is a piece of text looked for, and a text is the set of *)
(* the marks in it.  Uploads share nothing here: their files and documents *)
(* are in ScormPackages.                                                   *)
(***************************************************************************)
EXTENDS Naturals, SequencesExt

CONSTANTS
  Zips,      \* the files that are uploaded
  Nothing    \* no attribute, no value

(* What a manifest lists is in sequences.                                  *)
ASSUME ManifestAssumption ==
  /\ Nothing \notin {"scorm_1.2", "scorm_2004"}
  /\ \A z \in Zips :
       /\ z.manifest.resources \in Seq(Range(z.manifest.resources))
       /\ z.manifest.organizations \in Seq(Range(z.manifest.organizations))
       /\ \A items \in Range(z.manifest.organizations) : items \in Seq(Range(items))

VARIABLE upload   \* the upload in hand: where it is, its file, its document

-------------------------------------------------------------------------------
(* The text. *)

Only12 == {"1.2", "IMS_1.2", "ims_cp_rootv1p1"}
Only2004 == {"2004", "1.3", "CAM 1.3", "IMS_2004", "imscp_v1p1"}

(* A mark that contains another brings it along. *)
Closed(marks) ==
  marks \cup (IF "CAM 1.3" \in marks THEN {"1.3"} ELSE {})
        \cup (IF "IMS_1.2" \in marks THEN {"1.2"} ELSE {})
        \cup (IF "IMS_2004" \in marks THEN {"2004"} ELSE {})

(* schema is what is in <schemaversion>, Nothing where there is none.      *)
Schema(m) == IF m.schema = Nothing THEN {} ELSE Closed(m.schema)
Text(m) == Closed(Schema(m) \cup m.elsewhere)
Shows(m, marks) == Text(m) \cap marks # {}

-------------------------------------------------------------------------------
(* manifestParser.ts *)

(* detectVersion.  `tagged` is the prefix of a scormType in the text.      *)
ParserVersion(m) ==
  IF "1.2" \in Schema(m) THEN "scorm_1.2"
  ELSE IF Schema(m) \cap {"2004", "1.3"} # {} THEN "scorm_2004"
  ELSE IF Shows(m, {"IMS_1.2"}) THEN "scorm_1.2"
  ELSE IF Shows(m, {"IMS_2004"}) \/ (m.tagged = "adlcp" /\ Shows(m, {"2004"}))
       THEN "scorm_2004"
  ELSE "scorm_1.2"

(* Each <item> refers to a resource or to none; the items below it are     *)
(* kept, and nothing here looks at them.                                   *)
ParsedItems(items) == [i \in DOMAIN items |-> items[i].ref]
Organizations(m) == [i \in DOMAIN m.organizations |-> ParsedItems(m.organizations[i])]

(* uploadPackage keeps resources as objects with every field.              *)
Resources(m) ==
  [i \in DOMAIN m.resources |->
     [id |-> m.resources[i].id,
      href |-> IF m.resources[i].href = Nothing THEN "" ELSE m.resources[i].href]]

(* parseMetadata fails on an empty <lom/>, which xml2js reads as "".       *)
Description(m) == IF m.lom = "full" THEN "from metadata" ELSE Nothing

ParseFails(z) == ~z.wellFormed \/ z.manifest.lom = "empty"

(* Mutant: where the first item leads nowhere, the first resource is taken. *)
UrlOfFirst(R, ref) ==
  LET i == SelectInSeq(R, LAMBDA r : r.id = ref) IN
  IF R = <<>> THEN "" ELSE R[IF i = 0 THEN 1 ELSE i].href

UrlOf(R, ref) ==
  LET i == SelectInSeq(R, LAMBDA r : r.id = ref) IN
  IF ref = Nothing \/ i = 0 THEN "" ELSE R[i].href

(* getLaunchUrl: the resource of the first item of the first organization  *)
(* that has items.                                                         *)
LaunchUrl(m) ==
  LET R == Resources(m)
      org == SelectInSeq(Organizations(m), LAMBDA items : items # <<>>)
      url == IF org # 0 THEN UrlOf(R, Organizations(m)[org][1])
             ELSE IF R = <<>> THEN "" ELSE R[1].href
  IN IF url = "" THEN "index.html" ELSE url

-------------------------------------------------------------------------------
(* packageValidator.ts *)

(* Mutant: "1.3" is no sign of SCORM 2004 in a tagged manifest.            *)
Tagged2004By(m) == Shows(m, {"2004"})

Tagged2004(m) == Shows(m, {"2004", "1.3"})

BySchema(m) ==
  IF m.tagged # Nothing THEN IF Tagged2004(m) THEN "scorm_2004" ELSE "scorm_1.2"
  ELSE IF m.schema = Nothing THEN Nothing
  ELSE IF Shows(m, {"1.2"}) THEN "scorm_1.2"
  ELSE IF Shows(m, {"2004", "CAM 1.3"}) THEN "scorm_2004"
  ELSE Nothing

ByNamespace(m) ==
  IF Shows(m, {"IMS_1.2", "ims_cp_rootv1p1"}) THEN "scorm_1.2"
  ELSE IF Shows(m, {"IMS_2004", "imscp_v1p1"}) THEN "scorm_2004"
  ELSE Nothing

ValidatorVersion(m) == IF BySchema(m) # Nothing THEN BySchema(m) ELSE ByNamespace(m)

(* validatePackage finds the manifest whatever the case of its name.       *)
Valid(z) ==
  /\ ~z.large
  /\ z.entry \in {"imsmanifest.xml", "IMSManifest.xml"}
  /\ {"manifest", "organizations", "resources"} \subseteq z.elements

-------------------------------------------------------------------------------
(* scormPackageCtrl.ts *)

Version(m) == IF ValidatorVersion(m) # Nothing THEN ValidatorVersion(m) ELSE ParserVersion(m)

Described(z) ==
  [version |-> Version(z.manifest),
   manifestVersion |-> ParserVersion(z.manifest),
   launchUrl |-> LaunchUrl(z.manifest),
   description |-> IF z.description # Nothing THEN z.description
                   ELSE Description(z.manifest)]

ManifestInit == \E z \in Zips : upload = [at |-> "received", zip |-> z, doc |-> Nothing]

Upload(from, to) == upload.at = from /\ upload' = [upload EXCEPT !.at = to]

Accept == Valid(upload.zip) /\ Upload("received", "checked")
RefuseUpload == ~Valid(upload.zip) /\ Upload("received", "refused")

(* The extractor insists on the name in lower case. *)
ExtractManifest ==
  upload.zip.entry = "imsmanifest.xml" /\ Upload("checked", "extracted")
FailUpload ==
  \/ upload.zip.entry # "imsmanifest.xml" /\ Upload("checked", "cleaned up")
  \/ ParseFails(upload.zip) /\ Upload("extracted", "cleaned up")

Describe ==
  /\ upload.at = "extracted"
  /\ ~ParseFails(upload.zip)
  /\ upload' = [upload EXCEPT !.at = "stored", !.doc = Described(upload.zip)]

(* Answered: another upload has a file of its own. *)
UploadOver == upload.at \in {"refused", "cleaned up", "stored"} /\ UNCHANGED upload

ManifestNext ==
  Accept \/ RefuseUpload \/ ExtractManifest \/ FailUpload \/ Describe \/ UploadOver

ManifestSpec == ManifestInit /\ [][ManifestNext]_upload

-------------------------------------------------------------------------------

(* A manifest whose schema version is one of SCORM's, and whose text shows *)
(* no mark of the other version, is stored with that version by both       *)
(* readers, tagged or not: the two ways to detect it agree, and its        *)
(* content is given the API it looks for.  (A schema version that holds    *)
(* the namespace of SCORM 2004 instead is no version to the parser.)       *)
(* (packageValidator.ts:180-207, manifestParser.ts:100-145)                *)
VersionsAgree ==
  upload.at = "stored" =>
    LET m == upload.zip.manifest IN
      /\ "1.2" \in Schema(m) /\ ~Shows(m, Only2004) =>
           upload.doc.version = "scorm_1.2" /\ upload.doc.manifestVersion = "scorm_1.2"
      /\ Schema(m) \cap {"2004", "1.3"} # {} /\ ~Shows(m, Only12) =>
           upload.doc.version = "scorm_2004" /\ upload.doc.manifestVersion = "scorm_2004"

(* What is launched is a page the manifest leads to: where some            *)
(* organization has items, only their own resources are, and a page other  *)
(* than index.html is always the href of a resource                        *)
(* (manifestParser.ts:62-95).                                              *)
LaunchLeads ==
  upload.at = "stored" /\ upload.doc.launchUrl # "index.html" =>
    LET m == upload.zip.manifest
        refs == UNION {Range(items) : items \in Range(Organizations(m))}
    IN \E r \in Range(m.resources) :
         r.href = upload.doc.launchUrl /\ (refs # {} => r.id \in refs)

(* What is stored of a manifest is what it says.                           *)
ManifestsRead == VersionsAgree /\ LaunchLeads

===============================================================================
