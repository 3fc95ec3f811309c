------------------------------- MODULE MCRealm -------------------------------
(***************************************************************************)
(* The tree of documents, the accounts, the tabs they are signed in on,    *)
(* the settings form and the search dialog, in one run. They share no      *)
(* state: the initial state picks the scene, and the variables of the      *)
(* others are off.                                                         *)
(***************************************************************************)
EXTENDS Naturals, TLC

CONSTANTS None, d1, d2, d3, f1, f2, w1, w2, s1, s2,
  Plain, Odd, Bad        \* entries of the domain list

VARIABLES scene,
  call, begun, width, member,    \* of several modules, one at a time
  doc, folder, content,    \* DocTree
  account, link, session, bypassed, seen, crossed,    \* Accounts
  tab, storage, inbox, live, issued, killed, serial, alone,    \* Session
  realm, cache, query, edited, synced, save, touched, overtaken, saves, elsewhere,    \* SettingsForm
  docs, clock, scope, granted, typed, debounced, data, err, fetch, last, selected,
  events    \* Search

Symmetry == Permutations({d1, d2, d3}) \cup Permutations({f1, f2})
            \cup Permutations({w1, w2}) \cup Permutations({s1, s2})

\* Search terms: a word, a longer one, and one that no other starts.
Terms == {<<"a">>, <<"a", "b">>, <<"c">>}

Tree == INSTANCE DocTree WITH Doc <- {d1, d2, d3}, Folder <- {f1, f2},
                              Workspace <- {w1, w2}, Slot <- {s1, s2}, MaxCalls <- 2,
                              MAX_DEPTH <- 3
Acc == INSTANCE Accounts WITH LinkId <- {1, 2}, SessionId <- {1, 2}, Slot <- {1, 2},
                              MaxCalls <- 5
Tabs == INSTANCE Session WITH Tab <- {1, 2}, Workspace <- {"a", "b"}, MaxTokens <- 3,
                              MaxCalls <- 5
Form == INSTANCE SettingsForm WITH MaxSaves <- 1, MaxElsewhere <- 1
Dialog == INSTANCE Search WITH Doc <- {1, 2, 3}, Term <- Terms, Space <- {1, 2},
                               DOC_SEARCH_PAGE <- 1, MaxEvents <- 3

sharedVars == <<call, begun, width, member>>
treeVars == <<doc, folder, content>>
accountsVars == <<account, link, session, bypassed, seen, crossed>>
tabsVars == <<tab, storage, inbox, live, issued, killed, serial, alone>>
settingsVars == <<realm, cache, query, edited, synced, save, touched, overtaken, saves,
                  elsewhere>>
searchVars == <<docs, clock, scope, granted, typed, debounced, data, err, fetch, last,
                selected, events>>
vars == <<scene, sharedVars, treeVars, accountsVars, tabsVars, settingsVars,
          searchVars>>

\* The variables no module of the scene uses hold None.
TreeOff == doc = None /\ folder = None /\ content = None
AccOff == account = None /\ link = None /\ session = None /\ bypassed = None /\
          seen = None /\ crossed = None
TabsOff == tab = None /\ storage = None /\ inbox = None /\ live = None /\
           issued = None /\ killed = None /\ serial = None /\ alone = None
FormOff == realm = None /\ cache = None /\ query = None /\ edited = None /\
           synced = None /\ save = None /\ touched = None /\ overtaken = None /\
           saves = None /\ elsewhere = None
DialogOff == docs = None /\ clock = None /\ scope = None /\ granted = None /\
             typed = None /\ debounced = None /\ data = None /\ err = None /\
             fetch = None /\ last = None /\ selected = None /\ events = None

Init ==
  \/ /\ scene = "tree" /\ Tree!Init
     /\ AccOff /\ TabsOff /\ FormOff /\ DialogOff /\ member = None
  \/ /\ scene = "accounts" /\ Acc!Init
     /\ TreeOff /\ TabsOff /\ FormOff /\ DialogOff /\ member = None
  \/ /\ scene = "tabs" /\ Tabs!Init
     /\ TreeOff /\ AccOff /\ FormOff /\ DialogOff /\ call = None /\ width = None
  \/ /\ scene = "settings" /\ Form!Init
     /\ TreeOff /\ AccOff /\ TabsOff /\ DialogOff /\ call = None /\ begun = None /\
        width = None /\ member = None
  \/ /\ scene = "search" /\ Dialog!Init
     /\ TreeOff /\ AccOff /\ TabsOff /\ FormOff /\ call = None /\ begun = None /\
        width = None

\* A scene is never left, and the others' variables stay off.
TreeOnly == scene = "tree" /\ UNCHANGED <<scene, member, accountsVars, tabsVars,
                                          settingsVars, searchVars>>
AccOnly == scene = "accounts" /\ UNCHANGED <<scene, member, treeVars, tabsVars,
                                             settingsVars, searchVars>>
TabsOnly == scene = "tabs" /\ UNCHANGED <<scene, call, width, treeVars, accountsVars,
                                          settingsVars, searchVars>>
FormOnly == scene = "settings" /\ UNCHANGED <<scene, call, begun, width, member,
                                              treeVars, accountsVars, tabsVars,
                                              searchVars>>
DialogOnly == scene = "search" /\ UNCHANGED <<scene, call, begun, width, treeVars,
                                              accountsVars, tabsVars, settingsVars>>

Next ==
  \/ TreeOnly /\ Tree!Next
  \/ AccOnly /\ Acc!Next
  \/ TabsOnly /\ Tabs!Next
  \/ FormOnly /\ Form!Next
  \/ DialogOnly /\ Dialog!Next

Spec == Init /\ [][Next]_vars
-----------------------------------------------------------------------------
\* While calls do not overlap, a document or folder has one place, within its
\* workspace and off every cycle; nothing live is under what is deleted, nothing
\* deleted comes back, and a purge takes no other document's content
\* (folders.service.ts:90-102, documents.service.ts:773-848).
TreeSound ==
  scene = "tree" => /\ Tree!TypeOK
                    /\ Tree!OnePlace /\ Tree!NestsInWorkspace /\ Tree!NoCycles
                    /\ Tree!LiveUnderLive /\ Tree!ContentKept
TreeSafe == []TreeSound /\ [][scene = "tree" => Tree!StaysPut]_vars

\* One link of a kind is live, but where mints overlapped, and works once; its
\* cooldown holds; only verified accounts have sessions, and a password reset ends
\* them (auth.service.ts:188-271, 346-400).
AccountsSound ==
  scene = "accounts" => /\ Acc!TypeOK
                        /\ Acc!OneLiveLink /\ Acc!SessionsAreVerified
                        /\ Acc!CooldownHolds /\ Acc!ResetEndsSessions
                        /\ Acc!Inductive
AccountsSafe == []AccountsSound /\ [][scene = "accounts" => Acc!SpendsALink]_vars

\* Tabs agree on who is signed in, one tab alone never presents a refresh token
\* twice, the route's workspace is the token's, and boot and routes settle
\* (http.ts:89-108, authStore.ts:138, session.ts:31, WorkspaceScopeRoute.tsx:28).
TabsSafe ==
  scene = "tabs" => /\ Tabs!TypeOK
                    /\ Tabs!TabsAgree /\ Tabs!AloneNeverReused /\ Tabs!ScopeMirrorsToken
                    /\ Tabs!BootEnds /\ Tabs!RouteSettles
                    /\ Tabs!Inductive

\* A form follows the row where it was not touched, keeps what was typed, and
\* shows as saved what is (RealmSettingsTab.tsx:84).
FormSound == scene = "settings" => Form!TypeOK /\ Form!UntouchedFollows /\ Form!ShownIsSaved
FormSafe  == []FormSound /\ [][scene = "settings" => Form!KeepsEdits]_vars

\* Pages of results neither repeat nor skip a document, what is shown fits the
\* term, and the selection stays on its row (documents.service.ts:271,
\* SearchModal.tsx:117).
SearchSound ==
  scene = "search" => /\ Dialog!TypeOK
                      /\ Dialog!NoDuplicates /\ Dialog!NothingSkipped /\ Dialog!ShownFits
SearchSafe == []SearchSound /\ [][scene = "search" => Dialog!KeepsSelected]_vars
=============================================================================
