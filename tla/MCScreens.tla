------------------------------ MODULE MCScreens ------------------------------
(***************************************************************************)
(* Three of the browser's screens with changes under way: who a document   *)
(* is shared with, the pages of a workspace, the lists of an               *)
(* administrator. They share no state: the initial state picks the scene,  *)
(* and the variables of the others are off.                                *)
(***************************************************************************)
EXTENDS Naturals

CONSTANTS None, Gone

VARIABLES scene,
  unheard, query, call, events,    \* of several modules, one at a time
  grants, link, conn, seenGrants, seenLink, getGrants, getLink, request, selected,
  batch, accessDirty, applying, picked, chosen, missed, minted, changes, faults,    \* Sharing
  rows, clock, pages, single, squery, open, expanded, folded, up, ring, mine,    \* Pages
  realm, member, asks, orgAsks, title, view, shown    \* AdminLists

Share == INSTANCE Sharing WITH Person <- {1, 2}, Grantee <- 1, Org <- {1, 2},
                               Slot <- {1, 2}, MaxChanges <- 2, MaxTokens <- 2,
                               MaxFaults <- 1, MaxConnected <- 1
Sidebar == INSTANCE Pages WITH Doc <- {1, 2, 3}, DOCS_PAGE <- 2, Slot <- {1},
                               MaxEvents <- 2
Admin == INSTANCE AdminLists WITH Person <- {1, 2}, Me <- 1, Slot <- {1, 2},
                                  MaxEvents <- 2

sharedVars == <<unheard, query, call, events>>
sharingVars == <<grants, link, conn, seenGrants, seenLink, getGrants, getLink, request,
                 selected, batch, accessDirty, applying, picked, chosen, missed, minted,
                 changes, faults>>
pagesVars == <<rows, clock, pages, single, squery, open, expanded, folded, up, ring,
               mine>>
adminVars == <<realm, member, asks, orgAsks, title, view, shown>>
vars == <<scene, sharedVars, sharingVars, pagesVars, adminVars>>

\* The variables no module of the scene uses hold None.
ShareOff == grants = None /\ link = None /\ conn = None /\ seenGrants = None /\
            seenLink = None /\ getGrants = None /\ getLink = None /\ request = None /\
            selected = None /\ batch = None /\ accessDirty = None /\ applying = None /\
            picked = None /\ chosen = None /\ missed = None /\ minted = None /\
            changes = None /\ faults = None
SidebarOff == rows = None /\ clock = None /\ pages = None /\ single = None /\
              squery = None /\ open = None /\ expanded = None /\ folded = None /\
              up = None /\ ring = None /\ mine = None
AdminOff == realm = None /\ member = None /\ asks = None /\ orgAsks = None /\
            title = None /\ view = None /\ shown = None

Init ==
  \/ /\ scene = "sharing" /\ Share!Init
     /\ SidebarOff /\ AdminOff /\ query = None /\ call = None /\ events = None
  \/ /\ scene = "pages" /\ Sidebar!Init
     /\ ShareOff /\ AdminOff
  \/ /\ scene = "admin" /\ Admin!Init
     /\ ShareOff /\ SidebarOff

\* A scene is never left, and the others' variables stay off.
ShareOnly == scene = "sharing" /\ UNCHANGED <<scene, query, call, events, pagesVars,
                                              adminVars>>
SidebarOnly == scene = "pages" /\ UNCHANGED <<scene, sharingVars, adminVars>>
AdminOnly == scene = "admin" /\ UNCHANGED <<scene, sharingVars, pagesVars>>

Next ==
  \/ ShareOnly /\ Share!Next
  \/ SidebarOnly /\ Sidebar!Next
  \/ AdminOnly /\ Admin!Next

Spec == Init /\ [][Next]_vars
-----------------------------------------------------------------------------
\* The alert is up while a connection has an access that is not its user's any
\* more, the modal shows what is granted, sends the choice that was made, and
\* forgets no pick that failed (DocPermissionsModal.tsx:143-362).
SharingSafe ==
  scene = "sharing" => /\ Share!TypeOK
                       /\ Share!AlertCoversStale /\ Share!ShowsWhatIs
                       /\ Share!ChoiceKept /\ Share!NoPickForgotten

\* With nothing under way the list is the server's, an existing page is not shown
\* as missing, one's own deletion leaves the page, and the open page is revealed
\* (usePages.ts:231-242, PageView.tsx:56, usePagesSection.ts:40).
PagesSafe ==
  scene = "pages" => /\ Sidebar!TypeOK
                     /\ Sidebar!ListSettles /\ Sidebar!PageFound
                     /\ Sidebar!OwnDeleteLeaves /\ Sidebar!OpenIsRevealed

\* With nothing under way an administrator's lists are the server's, and a
\* control that is offered works (useWorkspaceMemberMutations.ts:35,
\* useRealmMutations.ts:59, WorkspaceSettingsModal.tsx:391).
AdminSafe ==
  scene = "admin" => /\ Admin!TypeOK /\ Admin!ListsSettle /\ Admin!ControlsWork
                     /\ Admin!Inductive
=============================================================================
