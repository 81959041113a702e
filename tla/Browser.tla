------------------------------- MODULE Browser -------------------------------
(***************************************************************************)
(* A browser tab with its views: MeetingWorkspace is the Meeting's, the    *)
(* other modules are those of the views they are named for.  Each view has *)
(* a part of the server that only it and the other users change.           *)
(***************************************************************************)
EXTENDS MeetingWorkspace, RecoveryPage, PreparationPage, MembershipCard, SetupPage,
        MentionsPage, SettingsPage

browserVars == <<vars, recoveryVars, planVars, setupVars, mentionVars, settingsVars>>

BrowserInit ==
    \E start \in Starts : /\ TabInit(start) /\ RecoveryInit(start)
                         /\ PlanInit /\ SetupInit /\ MentionsInit /\ SettingsInit

\* The setup comes before everything else there is.
BrowserNext ==
    \/ /\ ~Settling
       /\ ProtectedTextNext \/ WorkspaceNext
       /\ UNCHANGED <<recoveryVars, planVars, setupVars, mentionVars, settingsVars>>
    \/ ~Settling /\ RecoveryPageNext /\ UNCHANGED <<planVars, setupVars, mentionVars, settingsVars>>
    \/ ~Settling /\ PlannedAgendaNext /\ UNCHANGED <<recoveryVars, setupVars, mentionVars, settingsVars>>
    \/ /\ PreparationNext \/ AgendaPageNext \/ MembershipCardNext
       /\ UNCHANGED <<recoveryVars, setupVars, mentionVars, settingsVars>>
    \/ SetupNext /\ UNCHANGED <<pageVars, server, recoveryVars, planVars, mentionVars, settingsVars>>
    \/ MentionsNext /\ UNCHANGED <<recoveryVars, planVars, setupVars, settingsVars>>
    \/ SettingsNext /\ UNCHANGED <<recoveryVars, planVars, setupVars, mentionVars>>

BrowserSpec == BrowserInit /\ [][BrowserNext]_browserVars

\* The values the page may hold, with those of its views.
BrowserTypeOK ==
    /\ PageTypeOK
    /\ route \in {"meeting", "recovery", "preparation", "agenda", "mentions", "settings",
                 "elsewhere"}
    /\ route = "elsewhere" => screen = Nothing

\* What waits for an answer is under way: however it ends, and whatever happens
\* to the tab meanwhile, no control stays disabled for good.
Waits(names, for) ==
    \E c \in calls : /\ c.kind = "task" /\ c.here /\ c.name \in names
                     /\ c.name = "operation" => c.got.for \in for

ControlsComeBack ==
    /\ OnPreparation /\ screen.pending =>
           Waits({"create", "suggest", "operation"}, {"create", "details", "selected", "change"})
    /\ OnPreparation /\ screen.starting => Waits({"operation"}, {"start"})
    /\ OnAgendaPage /\ screen.finishing => Waits({"operation"}, {"view"})
    /\ OnSettings =>
           \A flag \in {"loading", "saving", "acting"} : screen[flag] =>
               \E c \in calls : c.kind = "task" /\ c.name = "setting" /\ c.here /\ c.got.flag = flag
    /\ OnMentions =>
           \A m \in screen.pending :
               \E c \in calls :
                   /\ c.kind = "task" /\ c.here
                   /\ \/ c.name = "state" /\ c.got.mention = m
                      \/ c.name = "mentions" /\ c.got.after = m

\* Keys are where they may be used: nowhere in a locked tab, and in an unlocked
\* one under an epoch that the server knows and the next lock revokes.
SealsWhileUnlocked == LockedHoldsNothing /\ SealsUnderLiveEpoch

\* A view at rest shows what is stored: the agendas; and the agenda of the
\* Meeting, unless its last load failed (core.ts forgets the refresh that was asked
\* for while it was under way) or, after a retry, a refresh overtook it.
ShownIsCurrent == QuietMeansCurrent /\ AgendaIsCurrent

\* What a page goes on from as done is done: the approval of the ceremony that its
\* button activates, the setup that it calls complete.
TakenForDoneIsDone == ApprovedIsVerified /\ CompleteOpensInstallation

\* An agenda that is reordered while it is changed elsewhere keeps its Topics, and
\* what is dragged always has a place to go.
ReorderKeepsAgenda == DragFitsAgenda /\ NothingFallsOut

\* What is typed is stored once, however often it is sent, and over nothing that
\* nobody has seen. It speaks of the page while it is open: what was typed less
\* than 600 ms before it is left is dropped with its timer
\* (MembershipInlineText.vue:76).
TypedIsStoredOnce == FieldsAreKept /\ CommentedOnce
=============================================================================
