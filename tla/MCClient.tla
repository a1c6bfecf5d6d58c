------------------------------ MODULE MCClient ------------------------------
(***************************************************************************)
(* The browser's side in one run: a behaviour opens one of its parts and    *)
(* stays in it.  Nothing obliges anyone to open a part, so the fairness of  *)
(* each part says only that it gets on once it is open.                     *)
(***************************************************************************)
EXTENDS PlayerMedia, ApiDocs, WorkspaceJourneys, DeskJourneys

ClientInit == MediaInit /\ DocsInit /\ WorkspaceInit /\ DeskInit

NothingOpen == avatar = "absent" /\ docs = "closed" /\ script = "none" /\ journey = "none"

OpenAPart ==
    /\ NothingOpen
    /\ \/ (\E i \in Images \cup {NoImage} : Mount(i))
          /\ UNCHANGED <<docsVars, workspaceVars, deskVars>>
       \/ OpenDocs /\ UNCHANGED <<mediaVars, workspaceVars, deskVars>>
       \/ (OpenTabs \/ StartJourney) /\ UNCHANGED <<mediaVars, docsVars, deskVars>>
       \/ (OpenDesk \/ StartDeskJourney) /\ UNCHANGED <<mediaVars, docsVars, workspaceVars>>

WorkspaceStep == Person \/ JourneyStep \/ \E t \in Tabs : TabStep(t)
DeskStep == DeskPerson \/ DeskJourneyStep \/ DeskWork

ClientNext ==
    \/ OpenAPart
    \/ MediaStep /\ UNCHANGED <<docsVars, workspaceVars, deskVars>>
    \/ DocsStepNext /\ UNCHANGED <<mediaVars, workspaceVars, deskVars>>
    \/ WorkspaceStep /\ UNCHANGED <<mediaVars, docsVars, deskVars>>
    \/ DeskStep /\ UNCHANGED <<mediaVars, docsVars, workspaceVars>>

clientVars == <<mediaVars, docsVars, workspaceVars, deskVars>>

ClientSpec ==
    /\ ClientInit /\ [][ClientNext]_clientVars
    /\ DocsFairness
    /\ WorkspaceFairness /\ WF_workspaceVars(JourneyStep)
    /\ DeskFairness /\ WF_deskVars(DeskJourneyStep)

-----------------------------------------------------------------------------

\* The variables of every part have their types.
ClientTypeOK == MediaTypeOK /\ DocsTypeOK /\ WorkspaceTypeOK /\ DeskTypeOK

\* Every acceptance journey under tools/openapi gets to its end: no assertion
\* fails and no wait is in vain, whatever the browser and the server do first.
JourneysEnd == DocsJourneyEnds /\ WorkspaceJourneysEnd /\ DeskJourneysEnd

=============================================================================
