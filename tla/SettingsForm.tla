---------------------------- MODULE SettingsForm ----------------------------
(***************************************************************************)
(* The realm's settings, edited by its owner: a form over a cached query.  *)
(* The form follows the server while nothing was edited, keeps what was    *)
(* edited while fetches come and go, and is saved as a whole.  The effect  *)
(* that reconciles the two runs after every render, so every action ends   *)
(* with it.                                                                *)
(*                                                                         *)
(* A value is [domains, open]; the server trims a domain the form left     *)
(* with an "@" (Odd becomes Plain) and refuses one that is none (Bad).     *)
(***************************************************************************)
EXTENDS Naturals

CONSTANTS
  Plain, Odd, Bad,      \* three entries of the domain list
  None,                 \* no value yet
  MaxSaves,             \* bound on saves
  MaxElsewhere          \* bound on changes made in another tab

VARIABLES
  realm,                \* the row of realms
  cache, query,         \* the cached realm; the query [step, got]
  edited, synced,       \* the form; the values it was last reconciled with
  save,                 \* the mutation: [step, body]
  touched,              \* history: edited since the last save sent, reset or sync
  overtaken,            \* history: a save was served after the last fetch was read
  saves, elsewhere

vars == <<realm, cache, query, edited, synced, save, touched, overtaken, saves, elsewhere>>

Value == [domains : SUBSET {Plain, Odd, Bad}, open : BOOLEAN]
Blank == [domains |-> {}, open |-> FALSE]

TypeOK ==
  /\ realm \in [domains : SUBSET {Plain}, open : BOOLEAN]
  /\ cache \in Value \cup {None} /\ edited \in Value /\ synced \in Value \cup {None}
  /\ query \in [step : {"idle", "due", "read"}, got : Value \cup {None}]
  /\ save \in [step : {"idle", "sent", "saved", "refused"}, body : Value \cup {None}]
  /\ touched \in BOOLEAN /\ overtaken \in BOOLEAN

NoSave == [step |-> "idle", body |-> None]
Idle   == [step |-> "idle", got |-> None]

Init ==
  /\ realm \in [domains : SUBSET {Plain}, open : BOOLEAN]
  /\ cache = None /\ query = [Idle EXCEPT !.step = "due"]
  /\ edited = Blank /\ synced = None
  /\ save = NoSave /\ touched = FALSE /\ overtaken = FALSE /\ saves = 0 /\ elsewhere = 0
-----------------------------------------------------------------------------
\* The effect: a form in sync makes the baseline, one with local edits stays,
\* any other follows the server.
Reconciled(saved, form, last) ==
  IF saved = None THEN [form |-> form, last |-> last]
  ELSE IF form # saved /\ last # None /\ form # last THEN [form |-> form, last |-> last]
  ELSE [form |-> saved, last |-> saved]

\* Every render: the cache and the form as they are now, then the effect.
Render(saved, form, byUser) ==
  LET r == Reconciled(saved, form, synced) IN
  /\ cache' = saved /\ edited' = r.form /\ synced' = r.last
  /\ touched' = (r.form # r.last /\ (touched \/ byUser))

\* The owner adds a domain, removes one, or moves the switch.
Edit(v) ==
  /\ cache # None
  /\ v \in {[edited EXCEPT !.domains = @ \cup {d}] : d \in {Plain, Odd, Bad}}
           \cup {[edited EXCEPT !.domains = @ \ {d}] : d \in edited.domains}
           \cup {[edited EXCEPT !.open = ~@]}
  /\ Render(cache, v, TRUE)
  /\ UNCHANGED <<realm, query, save, saves, elsewhere, overtaken>>

HasUnsavedChanges == cache # None /\ edited # cache

Reset ==
  /\ HasUnsavedChanges /\ save.step = "idle"
  /\ Render(cache, cache, FALSE)
  /\ UNCHANGED <<realm, query, save, saves, elsewhere, overtaken>>

Save ==
  /\ HasUnsavedChanges /\ save.step = "idle" /\ saves < MaxSaves
  /\ save' = [step |-> "sent", body |-> edited] /\ saves' = saves + 1
  /\ touched' = FALSE
  /\ UNCHANGED <<realm, cache, query, edited, synced, elsewhere, overtaken>>

\* updateSettings writes both fields, whatever they were; the answer is the row.
Normal(ds) == {IF d = Odd THEN Plain ELSE d : d \in ds}

Serve ==
  /\ save.step = "sent"
  /\ IF Bad \in save.body.domains
     THEN save' = [save EXCEPT !.step = "refused"] /\ UNCHANGED <<realm, overtaken>>
     ELSE /\ realm' = [save.body EXCEPT !.domains = Normal(@)]
          /\ save' = [step |-> "saved", body |-> realm']
          /\ overtaken' = (overtaken \/ query.step = "read")
  /\ UNCHANGED <<cache, query, edited, synced, touched, saves, elsewhere>>

\* Saved, the answer is the cached realm; refused, a toast says so.
Saved ==
  /\ save.step = "saved" /\ save' = NoSave
  /\ Render(save.body, edited, FALSE)
  /\ UNCHANGED <<realm, query, saves, elsewhere, overtaken>>

Refused ==
  /\ save.step = "refused" /\ save' = NoSave
  /\ touched' = (edited # synced)
  /\ UNCHANGED <<realm, cache, query, edited, synced, saves, elsewhere, overtaken>>

\* The query is due on mount and whenever another page has it fetched.
Refetch ==
  /\ query = Idle /\ query' = [Idle EXCEPT !.step = "due"]
  /\ UNCHANGED <<realm, cache, edited, synced, save, touched, saves, elsewhere, overtaken>>

Read ==
  /\ query.step = "due" /\ query' = [step |-> "read", got |-> realm]
  /\ overtaken' = FALSE
  /\ UNCHANGED <<realm, cache, edited, synced, save, touched, saves, elsewhere>>

\* Mutation: a fetch replaces the form.
ArriveOver ==
  /\ query.step = "read" /\ query' = Idle
  /\ Render(query.got, query.got, FALSE)
  /\ UNCHANGED <<realm, save, saves, elsewhere, overtaken>>

Arrive ==
  /\ query.step = "read" /\ query' = Idle
  /\ Render(query.got, edited, FALSE)
  /\ UNCHANGED <<realm, save, saves, elsewhere, overtaken>>

Elsewhere ==
  /\ elsewhere < MaxElsewhere /\ elsewhere' = elsewhere + 1
  /\ realm' \in [domains : SUBSET {Plain}, open : BOOLEAN] \ {realm}
  /\ UNCHANGED <<cache, query, edited, synced, save, touched, saves, overtaken>>

Next ==
  \/ \E v \in Value : Edit(v)
  \/ Reset \/ Save \/ Serve \/ Saved \/ Refused \/ Refetch \/ Read \/ Arrive \/ Elsewhere

Spec == Init /\ [][Next]_vars
-----------------------------------------------------------------------------
\* A form nobody touched holds no edits: it shows the cached settings and will
\* follow the next ones, also after a save and whatever fetch arrived around it
\* (RealmSettingsTab.tsx:75-78), but for a domain that the server trims.
UntouchedFollows ==
  cache # None /\ save.step = "idle" /\ ~touched /\ Odd \notin edited.domains => edited = cache

\* With nothing in flight, nothing changed elsewhere, and no fetch that a save
\* overtook, what the form shows and does not call unsaved is what the realm has.
Quiet == save.step = "idle" /\ query = Idle /\ elsewhere = 0 /\ ~overtaken
ShownIsSaved == Quiet /\ cache # None /\ ~HasUnsavedChanges => edited = realm

\* A fetch or a save that arrives never takes back what the owner edited
\* (RealmSettingsTab.tsx:61 "A background refetch must not wipe edits").
KeepsEdits == (Arrive \/ Saved) /\ touched => edited' = edited
=============================================================================
