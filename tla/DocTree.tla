------------------------------ MODULE DocTree ------------------------------
(***************************************************************************)
(* Documents nested in documents or filed in folders, folders in folders,  *)
(* each tree inside one workspace.  A call checks its target first and     *)
(* writes later; a deletion collects a subtree first.  `width` calls may   *)
(* be in progress at once: what holds only of calls made one after another *)
(* is stated for width = 1.                                                *)
(***************************************************************************)
EXTENDS Trees

CONSTANTS
  Doc, Folder, Workspace,
  None,          \* no parent, no folder
  Slot,          \* calls that may be in progress at once
  MaxCalls,      \* bound on the calls made
  MAX_DEPTH      \* MAX_DOC_DEPTH and MAX_FOLDER_DEPTH: how far a parent chain is walked

VARIABLES
  doc,       \* doc[d]: a row of documents, or a free id
  folder,    \* folder[f]: a row of folders; trashed: deletedAt is set, expired: 30 days ago
  content,   \* content[d]: d's row in the rtc database
  call,      \* call[s]: a call between its checks and its last write
  begun,
  width      \* how many calls overlap

vars == <<doc, folder, content, call, begun, width>>

NoDoc    == [state |-> "free", ws |-> None, parent |-> None, folder |-> None]
NoFolder == [state |-> "free", ws |-> None, parent |-> None]
Idle     == [op |-> "idle", id |-> None, ws |-> None, parent |-> None, folder |-> None, ids |-> {}]

DocsIn(w)   == {d \in Doc : doc[d].state = "live" /\ doc[d].ws = w}
FolderRows  == {f \in Folder : folder[f].state \in {"live", "trashed", "expired"}}
LiveFolders == {f \in Folder : folder[f].state = "live"}

TypeOK ==
  /\ doc \in [Doc -> [state : {"free", "live", "gone"}, ws : Workspace \cup {None},
                      parent : Doc \cup {None}, folder : Folder \cup {None}]]
  /\ folder \in [Folder -> [state : {"free", "live", "trashed", "expired", "gone"},
                            ws : Workspace \cup {None}, parent : Folder \cup {None}]]
  /\ content \in [Doc -> {"none", "kept", "dropped"}]
  /\ call \in [Slot -> [op : {"idle", "createDoc", "moveDoc", "deleteDoc", "dropContent",
                              "createFolder", "moveFolder", "removeFolder"},
                        id : Doc \cup Folder \cup {None}, ws : Workspace \cup {None},
                        parent : Doc \cup Folder \cup {None}, folder : Folder \cup {None},
                        ids : SUBSET Doc \cup SUBSET Folder]]
  /\ begun \in 0 .. MaxCalls
  /\ width \in 1 .. Cardinality(Slot)

-----------------------------------------------------------------------------
(***************************************************************************)
(* The trees.                                                              *)
(***************************************************************************)

DocUp == [d \in Doc |-> doc[d].parent]
FolderUp == [f \in Folder |-> folder[f].parent]
LiveFolderUp == [f \in Folder |-> IF f \in LiveFolders THEN folder[f].parent ELSE None]

WellFormed ==
  /\ \A d \in Doc : doc[d].state = "live" =>
       /\ doc[d].ws # None
       /\ doc[d].parent # None => doc[d].parent \in DocsIn(doc[d].ws) /\ doc[d].folder = None
       /\ doc[d].folder # None =>
            folder[doc[d].folder].state = "live" /\ folder[doc[d].folder].ws = doc[d].ws
       /\ ~OnCycle(DocUp, d, None)
  /\ \A f \in LiveFolders :
       /\ folder[f].ws # None
       /\ folder[f].parent # None =>
            folder[f].parent \in LiveFolders /\ folder[folder[f].parent].ws = folder[f].ws
       /\ ~OnCycle(FolderUp, f, None)

\* Any forest of live documents and folders.
Init ==
  /\ folder \in [Folder -> {NoFolder} \cup
       [state : {"live"}, ws : Workspace, parent : Folder \cup {None}]]
  /\ doc \in [Doc -> {NoDoc} \cup
       [state : {"live"}, ws : Workspace, parent : Doc \cup {None}, folder : Folder \cup {None}]]
  /\ WellFormed
  /\ content = [d \in Doc |-> IF doc[d].state = "live" THEN "kept" ELSE "none"]
  /\ call = [s \in Slot |-> Idle]
  /\ begun = 0
  /\ width \in 1 .. Cardinality(Slot)

MayBegin(s) ==
  call[s] = Idle /\ begun < MaxCalls /\ Cardinality({t \in Slot : call[t] # Idle}) < width

Begin(s, c) ==
  /\ call' = [call EXCEPT ![s] = c]
  /\ begun' = begun + 1
  /\ UNCHANGED width

\* The write of a call that began; one that fails is a call that never gets here.
Write(s, op) ==
  /\ call[s].op = op
  /\ call' = [call EXCEPT ![s] = Idle]
  /\ UNCHANGED <<begun, width>>
-----------------------------------------------------------------------------
(***************************************************************************)
(* Documents.                                                              *)
(***************************************************************************)

DocInWorkspace(d, w) == d \in DocsIn(w)

\* A trashed folder is found too: deletedAt is not asked.
FolderInWorkspace(f, w) == f \in FolderRows /\ folder[f].ws = w

\* A parent given with a folder wins.
Located(w, p, f) ==
  IF p # None THEN DocInWorkspace(p, w) ELSE f # None => FolderInWorkspace(f, w)

CreateDoc(s, w, p, f) ==
  /\ Located(w, p, f)
  /\ Begin(s, [Idle EXCEPT !.op = "createDoc", !.ws = w, !.parent = p, !.folder = f])
  /\ UNCHANGED <<doc, folder, content>>

\* The row written: the database refuses a parent or folder that is gone.
Place(d, w, p, f) ==
  /\ p # None => doc[p].state = "live"
  /\ p = None /\ f # None => f \in FolderRows
  /\ doc' = [doc EXCEPT ![d] = [state |-> "live", ws |-> w, parent |-> p,
                                folder |-> IF p # None THEN None ELSE f]]

WriteCreateDoc(s) ==
  LET c == call[s] IN
  /\ Write(s, "createDoc")
  /\ \E d \in Doc :
       /\ doc[d].state = "free"
       /\ Place(d, c.ws, c.parent, c.folder)
       /\ content' = [content EXCEPT ![d] = "kept"]
  /\ UNCHANGED folder

MoveDoc(s, d, p, f) ==
  /\ doc[d].state = "live" /\ Located(doc[d].ws, p, f)
  /\ p # None => NoCycle(DocUp, d, p, MAX_DEPTH, None)
  /\ Begin(s, [Idle EXCEPT !.op = "moveDoc", !.id = d, !.ws = doc[d].ws, !.parent = p, !.folder = f])
  /\ UNCHANGED <<doc, folder, content>>

WriteMoveDoc(s) ==
  LET c == call[s] IN
  /\ Write(s, "moveDoc")
  /\ doc[c.id].state = "live"
  /\ Place(c.id, c.ws, c.parent, c.folder)
  /\ UNCHANGED <<folder, content>>

\* The recursive query ends only where no cycle hangs below d.
Collected(d) == Subtree(DocUp, d, None)

DeleteDoc(s, d) ==
  /\ doc[d].state = "live"
  /\ \A x \in Subtree(DocUp, d, None) : ~OnCycle(DocUp, x, None)
  /\ Begin(s, [Idle EXCEPT !.op = "deleteDoc", !.id = d, !.ids = Collected(d)])
  /\ UNCHANGED <<doc, folder, content>>

\* Deleting a row deletes what is nested in it.
Cascade(ds) ==
  LET gone == UNION {Subtree(DocUp, d, None) : d \in ds} IN
  [d \in Doc |-> IF d \in gone THEN [NoDoc EXCEPT !.state = "gone"] ELSE doc[d]]

WriteDeleteDoc(s) ==
  /\ call[s].op = "deleteDoc"
  /\ doc[call[s].id].state = "live"
  /\ doc' = Cascade({call[s].id})
  /\ call' = [call EXCEPT ![s].op = "dropContent"]
  /\ UNCHANGED <<folder, content, begun, width>>

\* deleteDocBestEffort, for each document collected: any of them may fail.
DropContent(s) ==
  /\ Write(s, "dropContent")
  /\ \E lost \in SUBSET call[s].ids :
       content' = [d \in Doc |-> IF d \in call[s].ids \ lost THEN "dropped" ELSE content[d]]
  /\ UNCHANGED <<doc, folder>>
-----------------------------------------------------------------------------
(***************************************************************************)
(* Folders.                                                                *)
(***************************************************************************)

LiveInWorkspace(f, w) == f \in LiveFolders /\ folder[f].ws = w

CreateFolder(s, w, p) ==
  /\ p # None => LiveInWorkspace(p, w)
  /\ Begin(s, [Idle EXCEPT !.op = "createFolder", !.ws = w, !.parent = p])
  /\ UNCHANGED <<doc, folder, content>>

WriteCreateFolder(s) ==
  LET c == call[s] IN
  /\ Write(s, "createFolder")
  /\ c.parent # None => c.parent \in FolderRows
  /\ \E f \in Folder :
       /\ folder[f].state = "free"
       /\ folder' = [folder EXCEPT ![f] = [state |-> "live", ws |-> c.ws, parent |-> c.parent]]
  /\ UNCHANGED <<doc, content>>

\* The walk up ends at a folder in the trash.
MoveFolder(s, f, p) ==
  /\ f \in LiveFolders
  /\ p # None => LiveInWorkspace(p, folder[f].ws) /\ NoCycle(LiveFolderUp, f, p, MAX_DEPTH, None)
  /\ Begin(s, [Idle EXCEPT !.op = "moveFolder", !.id = f, !.parent = p])
  /\ UNCHANGED <<doc, folder, content>>

WriteMoveFolder(s) ==
  LET c == call[s] IN
  /\ Write(s, "moveFolder")
  /\ c.id \in FolderRows /\ (c.parent # None => c.parent \in FolderRows)
  /\ folder' = [folder EXCEPT ![c.id].parent = c.parent]
  /\ UNCHANGED <<doc, content>>

CollectLive(f) == {x \in LiveFolders : f \in Walk(LiveFolderUp, x, Cardinality(Folder), None)}

\* No cycle below f, or the walk never ends.
RemoveFolder(s, f) ==
  /\ f \in LiveFolders
  /\ \A x \in Subtree(FolderUp, f, None) : ~OnCycle(FolderUp, x, None)
  /\ Begin(s, [Idle EXCEPT !.op = "removeFolder", !.ids = CollectLive(f)])
  /\ UNCHANGED <<doc, folder, content>>

WriteRemoveFolder(s) ==
  /\ Write(s, "removeFolder")
  /\ folder' = [f \in Folder |-> IF f \in call[s].ids \cap LiveFolders
                                 THEN [folder[f] EXCEPT !.state = "trashed"] ELSE folder[f]]
  /\ UNCHANGED <<doc, content>>

\* Thirty days pass.
Expire ==
  /\ \A s \in Slot : call[s] = Idle
  /\ \E f \in Folder : folder[f].state = "trashed"
  /\ folder' = [f \in Folder |-> IF folder[f].state = "trashed"
                                 THEN [folder[f] EXCEPT !.state = "expired"] ELSE folder[f]]
  /\ UNCHANGED <<doc, content, call, begun, width>>

\* Mutation: the documents are left to the database.
DocsLeft(fs) == {}

DocsOf(fs) == {d \in Doc : doc[d].folder \in fs}

\* The transaction of the daily purge: expired folders, the documents in them
\* with what is nested in those, and the folders below, whose own documents
\* the database takes out (SetNull).  Only documents found are dropped later.
Purge(s) ==
  LET expired == {f \in Folder : folder[f].state = "expired"}
      below   == UNION {Subtree(FolderUp, f, None) : f \in expired}
      docs    == DocsOf(expired)
      left    == Cascade(docs)
  IN
  /\ call[s] = Idle /\ Cardinality({t \in Slot : call[t] # Idle}) < width
  /\ expired # {}
  /\ folder' = [f \in Folder |-> IF f \in below THEN [NoFolder EXCEPT !.state = "gone"] ELSE folder[f]]
  /\ doc' = [d \in Doc |-> IF left[d].folder \in below THEN [left[d] EXCEPT !.folder = None] ELSE left[d]]
  /\ call' = [call EXCEPT ![s] = [Idle EXCEPT !.op = "dropContent", !.ids = docs]]
  /\ UNCHANGED <<content, begun, width>>

\* A workspace is deleted with all its rows; the rtc database is not told.
RemoveWorkspace(w) ==
  /\ begun < MaxCalls
  /\ DocsIn(w) # {}
  /\ Cardinality({t \in Slot : call[t] # Idle}) < width
  /\ doc' = [d \in Doc |-> IF d \in DocsIn(w) THEN [NoDoc EXCEPT !.state = "gone"] ELSE doc[d]]
  /\ folder' = [f \in Folder |-> IF folder[f].ws = w THEN [NoFolder EXCEPT !.state = "gone"] ELSE folder[f]]
  /\ begun' = begun + 1
  /\ UNCHANGED <<content, call, width>>
-----------------------------------------------------------------------------
BeginDoc(s) ==
  /\ MayBegin(s)
  /\ \/ \E p \in Doc \cup {None}, f \in Folder \cup {None} :
          \/ \E w \in Workspace : CreateDoc(s, w, p, f)
          \/ \E d \in Doc : MoveDoc(s, d, p, f)
     \/ \E d \in Doc : DeleteDoc(s, d)

BeginFolder(s) ==
  /\ MayBegin(s)
  /\ \/ \E p \in Folder \cup {None} :
          \/ \E w \in Workspace : CreateFolder(s, w, p)
          \/ \E f \in Folder : MoveFolder(s, f, p)
     \/ \E f \in Folder : RemoveFolder(s, f)

Next ==
  \/ \E s \in Slot :
       \/ BeginDoc(s) \/ WriteCreateDoc(s) \/ WriteMoveDoc(s) \/ WriteDeleteDoc(s)
       \/ BeginFolder(s) \/ WriteCreateFolder(s) \/ WriteMoveFolder(s) \/ WriteRemoveFolder(s)
       \/ DropContent(s) \/ Purge(s)
  \/ Expire
  \/ \E w \in Workspace : RemoveWorkspace(w)

Spec == Init /\ [][Next]_vars
-----------------------------------------------------------------------------
(***************************************************************************)
(* Properties.                                                             *)
(***************************************************************************)

\* However calls interleave, a document has a parent or a folder, never both.
OnePlace == \A d \in Doc : doc[d].parent = None \/ doc[d].folder = None

\* However calls interleave, no tree leaves its workspace.
NestsInWorkspace ==
  /\ \A d \in Doc :
       /\ doc[d].parent # None => doc[doc[d].parent].ws = doc[d].ws
       /\ doc[d].folder # None => folder[doc[d].folder].ws = doc[d].ws
  /\ \A f \in Folder : folder[f].parent # None => folder[folder[f].parent].ws = folder[f].ws

\* Of calls one after another: no document and no folder comes to be its own
\* ancestor (of two at once, each move can nest the other's document).
NoCycles ==
  width = 1 => /\ \A d \in Doc : ~OnCycle(DocUp, d, None)
               /\ \A f \in Folder : ~OnCycle(FolderUp, f, None)

\* Of calls one after another: a folder that is shown is under one that is shown.
LiveUnderLive ==
  width = 1 => \A f \in LiveFolders : folder[f].parent # None => folder[f].parent \in LiveFolders

\* Of calls one after another: the content of a document that exists is never
\* dropped (a document moved out while its old parent is deleted loses it).
ContentKept == width = 1 => \A d \in Doc : doc[d].state = "live" => content[d] # "dropped"

\* folders.service.ts:109: documents go with their folder.  Of calls one after
\* another: a document changes its place only by a move of its own.
StaysPut ==
  width = 1 => \A d \in Doc : doc[d].state = "live" /\ doc'[d].state = "live" =>
    doc'[d] = doc[d] \/ \E s \in Slot : call[s].op = "moveDoc" /\ call[s].id = d /\ call'[s] # call[s]
=============================================================================
