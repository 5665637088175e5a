---------------------------- MODULE MCScormPackages ----------------------------
(* The specifications about SCORM packages on small instances.  Each        *)
(* behaviour runs one of them, chosen at the start, while the variables of  *)
(* the others stay: they are about different fields of the document, and    *)
(* the only step they share, its deletion, is a step of each.               *)
EXTENDS ScormPackages, ScormPublication, ScormLaunch, ScormManifest, TLC

VARIABLE part   \* which of them runs

(* Manifests: those whose versions are told in different ways, and those    *)
(* whose items and resources differ.                                       *)
MCSchemas ==
  {Nothing, {}, {"1.2"}, {"2004"}, {"1.3"}, {"CAM 1.3"}, {"1.2", "2004"}, {"imscp_v1p1"}}
MCElsewhere ==
  {{}, {"IMS_1.2"}, {"ims_cp_rootv1p1"}, {"IMS_2004"}, {"imscp_v1p1"}, {"1.2"}, {"2004"},
   {"1.3"}, {"1.2", "2004"}}
MCResource == [id : {"r1", "r2"}, href : {Nothing, "a.html", "index.html"}]
MCItem == [ref : {Nothing, "r1", "r2", "r3"}]
MCManifests ==
  [schema : MCSchemas, elsewhere : MCElsewhere, tagged : {Nothing, "adlcp", "other"},
   lom : {"none", "full", "empty"}, organizations : {<<>>}, resources : {<<>>}]
    \cup
  [schema : {{"1.2"}}, elsewhere : {{}}, tagged : {Nothing}, lom : {"none"},
   organizations : {<<>>, << <<>> >>} \cup {<< <<>>, <<i>> >> : i \in MCItem}
                     \cup {<< <<i, j>> >> : i, j \in MCItem},
   resources : {<<>>} \cup {<<r>> : r \in MCResource} \cup {<<r, s>> : r, s \in MCResource}]
MCElements == {"manifest", "organizations", "resources"}
MCZip(m, entry, elements, large, wellFormed) ==
  [manifest |-> m, entry |-> entry, elements |-> elements, large |-> large,
   wellFormed |-> wellFormed, description |-> Nothing]
MCPlain == CHOOSE m \in MCManifests : m.lom = "full"
MCZips ==
  {MCZip(m, "imsmanifest.xml", MCElements, FALSE, TRUE) : m \in MCManifests}
    \cup {MCZip(MCPlain, entry, elements, large, wellFormed) :
            entry \in {"imsmanifest.xml", "IMSManifest.xml", "none"},
            elements \in SUBSET MCElements, large, wellFormed \in BOOLEAN}

PackagesPart == PackagesNext /\ UNCHANGED <<publication, launching, upload>>
PublicationPart == PublicationNext /\ UNCHANGED <<packages, launching, upload>>
(* Of the attempts of a user, only the first is played. *)
LaunchPart ==
  /\ LaunchNext /\ UNCHANGED <<packages, publication, upload>>
  /\ \A u \in User : status'[<<u, 2>>] = "other"
ManifestPart == ManifestNext /\ UNCHANGED <<packages, publication, launching>>

Init ==
  /\ part \in {"packages", "publication", "launch", "manifest"}
  /\ PackagesInit
  /\ PublicationInit
  /\ LaunchInit
  /\ ManifestInit
  /\ part # "manifest" => upload.zip = MCZip(MCPlain, "none", {}, FALSE, TRUE)

Next ==
  /\ UNCHANGED part
  /\ \/ part = "packages" /\ PackagesPart
     \/ part = "publication" /\ PublicationPart
     \/ part = "launch" /\ LaunchPart
     \/ part = "manifest" /\ ManifestPart

Spec == Init /\ [][Next]_<<part, packages, publication, launching, upload>>

(* Every variable has its type. *)
TypeOK == PackagesTypeOK /\ PublicationTypeOK /\ LaunchTypeOK

Symmetry == Permutations(User) \cup Permutations(Launch)

===============================================================================
