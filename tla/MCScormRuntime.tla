---------------------------- MODULE MCScormRuntime ----------------------------
(***************************************************************************)
(* Values for checking ScormRuntime.  Content of either version is reduced *)
(* to the elements that decide the status and one that does not.           *)
(***************************************************************************)
EXTENDS ScormRuntime, TLC

MCValues ==
  [e \in Elements |->
     CASE e = "lesson_status" -> {"incomplete", "passed"}
       [] e = "lesson_location" -> {"page"}
       [] e = "completion_status" -> {"incomplete", "completed"}
       [] e = "success_status" -> {"failed"}
       [] OTHER -> {"text"}]

(* Content that reports a status the attempt schema has no name for.       *)
MCInvalid ==
  [MCValues EXCEPT !["completion_status"] = {"completed", "done"}]

===============================================================================
