-------------------------- MODULE MCStudyArchive --------------------------
(* Instances of StudyArchive for TLC. *)
EXTENDS StudyArchive

AnyFault == AllFaults
=============================================================================
