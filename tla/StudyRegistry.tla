---------------------------- MODULE StudyRegistry ----------------------------
(***************************************************************************)
(* Which of the studies a server serves, and how (app/studies/registry.py):*)
(* decided once, as it starts.                                             *)
(***************************************************************************)
EXTENDS StudyDefinitions

\* serving_status: a draft is served only where it is named.
ServingStatus(study, opened) ==
    CASE study.status = "open" -> "open"
      [] study.status = "closed" -> "closed"
      [] study.status = "draft" /\ study.slug \in opened -> "open"
      [] OTHER -> "not served"

\* refusal: the example runs only where that is allowed by itself, and no other
\* study runs with its token, with none, or with one that cannot be checked.
Refused(study, exampleAllowed) ==
    \/ study.slug = ExampleStudy.slug /\ ~exampleAllowed
    \/ Validate(study) # {}
    \/ study.token \in {"", "malformed"}
    \/ study.slug # ExampleStudy.slug /\ study.token = PublishedToken

\* load: two definitions with one slug are both left out, and so is an open
\* study whose database cannot be prepared; the others are served all the same.
Served(definitions, opened, exampleAllowed, unprepared) ==
    {study \in definitions :
       /\ \A other \in definitions : other.slug = study.slug => other = study
       /\ ServingStatus(study, opened) # "not served"
       /\ ~Refused(study, exampleAllowed)
       /\ ServingStatus(study, opened) = "open" => study.slug \notin unprepared}

OpenStudies(definitions, opened, exampleAllowed, unprepared) ==
    {study \in Served(definitions, opened, exampleAllowed, unprepared) :
       ServingStatus(study, opened) = "open"}
=============================================================================
