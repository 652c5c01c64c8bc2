------------------------------- MODULE Workbench -------------------------------
(***************************************************************************)
(* The page of lyte/ui/app.js: one thread of events (clicks, timers,       *)
(* replies) over a closure that holds the credentials of one workspace,    *)
(* the records loaded for it and everything rendered from them.  An event  *)
(* handler runs to its end, then its microtasks, before the next event.    *)
(*                                                                         *)
(* A record is the workspace its request named and the mode of the page it *)
(* came in.  What the server returns is open; a request may never be       *)
(* answered, and then only a timer of the page ends it.                    *)
(***************************************************************************)
EXTENDS Integers, FiniteSets

CONSTANTS Scope,        \* workspaces a user has credentials for
          Public,       \* requestScope = null: no credentials
          Page,         \* the paged APIs of loadWorkspaceData
          Question,
          Events,       \* records of a playback page that has any
          MaxGeneration, MaxHides  \* bounds on loads and on waiting hide timers

\* A playback page that is there has an event.
ASSUME EventsAssumption == Events \in Nat \ {0}

Workspace == Scope \cup {Public}
Modes == {"SAMPLE", "REAL_ONLY"}
Record == [of : Workspace, mode : Modes]

VARIABLES requestScope, generation,
          visible,      \* FALSE after pagehide, while the page may be restored
          loads,        \* loads in flight: the generation and workspace each began with
          state,        \* data-workspace-state
          mode, pages,  \* workspace.mode and the records of each page
          shown,        \* the records each panel displays
          details,      \* receiptDetails: the hashes that open without a request
          selected, drawer, hides,
          asking, answer, asked,
          playing, position

session == <<requestScope, generation, visible, loads, state>>
Panel == {"graph", "tiles", "services", "counts", "preview", "events", "journeys", "decisions",
          "agents", "incidents", "timeline", "tape", "coverage"}

data == <<mode, pages, shown, details>>
drawerVars == <<selected, drawer, hides>>
askVars == <<asking, answer, asked>>
playback == <<playing, position>>
vars == <<session, data, drawerVars, askVars, playback>>

Nothing == {}
NoPages == [p \in Page |-> Nothing]
NoQuestion == [of |-> Public, text |-> "none"]
Blank == [hidden |-> TRUE, content |-> Nothing]

-----------------------------------------------------------------------------
(* Rendering. *)

\* What each render function displays of the pages it reads.  Of the four layers of the
\* graph up to four records each, of most other pages the first or all.
Of(content, names) == UNION {content[p] : p \in names \cap Page}
Lattice(content) == Of(content, {"services", "journeys", "agents", "outcomes"})
Tiles(content) == Of(content, {"services", "agents", "outcomes", "incidents"})
ServiceCards(content) == Of(content, {"services"})
ServiceEvents(content) == Of(content, {"playback"})
JourneyCanvas(content) == IF Of(content, {"journeys"}) = Nothing THEN Nothing
                          ELSE Of(content, {"journeys", "outcomes"})
DecisionList(content) == Of(content, {"decisions"})
AgentList(content) == Of(content, {"agents"})
IncidentTitle(content) == Of(content, {"incidents"})
Timeline(content) == Of(content, {"playback"})
Tape(content) == Of(content, {"receipts"})
ProofCoverage(content) == Of(content, Page)

\* Without services the filter counts stay as they were; only the pointer moves the preview.
Kept == {"counts", "preview"}
Counts(content) == IF ServiceCards(content) = Nothing THEN shown.counts ELSE ServiceCards(content)

Cards(content) == ServiceCards(content)

\* hydrateWorkspace: the evidence details and every panel, from the pages as they are now.
Hydrate(content) ==
  /\ pages' = content
  /\ details' = Of(content, Page)
  /\ shown' = [graph |-> Lattice(content), tiles |-> Tiles(content), services |-> Cards(content),
               counts |-> Counts(content), preview |-> shown.preview, events |-> ServiceEvents(content),
               journeys |-> JourneyCanvas(content), decisions |-> DecisionList(content),
               agents |-> AgentList(content), incidents |-> IncidentTitle(content),
               timeline |-> Timeline(content), tape |-> Tape(content), coverage |-> ProofCoverage(content)]

CloseDrawer ==
  IF drawer.hidden THEN UNCHANGED hides
  ELSE hides < MaxHides /\ hides' = hides + 1

\* clearDrawerEvidence
Cleared(content) == Nothing

\* An aborted question ends in the microtasks of the event that aborts it.
Aborted(question) == NoQuestion

\* What changeWorkspaceScope and pagehide both do to the data and the views.
Forget ==
  /\ mode' = "UNAVAILABLE"
  /\ Hydrate(NoPages)
  /\ CloseDrawer
  /\ drawer' = [drawer EXCEPT !.content = Cleared(@)]
  /\ asking' = Aborted(asking)
  /\ answer' = NoQuestion
  /\ asked' = NoQuestion
  /\ playing' = FALSE
  /\ position' = 0

-----------------------------------------------------------------------------
(* The session. *)

StartLoad(next, scope) ==
  /\ generation' = next
  /\ loads' = loads \cup {[generation |-> next, scope |-> scope]}
  /\ state' = "loading"

\* A submitted form or a cleared one.  Both the change and its load are new generations.
ChangeWorkspaceScope(scope) ==
  /\ visible
  /\ generation + 2 <= MaxGeneration
  /\ requestScope' = scope
  /\ Forget
  /\ selected' = Nothing
  /\ StartLoad(generation + 2, scope)
  /\ UNCHANGED visible

PageHide ==
  /\ visible
  /\ generation < MaxGeneration
  /\ visible' = FALSE
  /\ requestScope' = Public
  /\ generation' = generation + 1
  /\ Forget
  /\ UNCHANGED <<loads, state, selected>>

PageShow ==
  /\ ~visible
  /\ generation < MaxGeneration
  /\ visible' = TRUE
  /\ StartLoad(generation + 1, requestScope)
  /\ UNCHANGED <<requestScope, data, drawerVars, askVars, playback>>

\* Defect: replies are used whatever was loaded since.
Current_Any(load) == TRUE
Current(load) == load.generation = generation

\* Defect: a sample page passes for a page of the workspace.
Accepted_Any(content) == content
\* A scoped request must not be answered with sample data.
Accepted(content) ==
  IF requestScope # Public /\ \E r \in content : r.mode # "REAL_ONLY" THEN Nothing ELSE content

\* The pages that are kept: all of them when they agree on one mode.
Settled(content) ==
  IF Cardinality({r.mode : r \in UNION {content[p] : p \in Page}}) = 1 THEN content ELSE NoPages

Apply(content) ==
  LET records == UNION {content[p] : p \in Page}
  IN  /\ mode' = IF records = Nothing THEN "UNAVAILABLE" ELSE (CHOOSE r \in records : TRUE).mode
      /\ Hydrate(content)
      /\ state' = "settled"
      /\ position' = 0

\* All pages have settled: each with records of the workspace whose headers the load
\* captured, or rejected (a refused or late reply, or an inconsistent page).
Loaded(load) ==
  /\ visible
  /\ loads' = loads \ {load}
  /\ \/ /\ ~Current(load)
        /\ UNCHANGED <<state, data, position>>
     \/ /\ Current(load)
        /\ \E m \in [Page -> Modes \cup {"rejected"}] :
             Apply(Settled([p \in Page |->
               Accepted({[of |-> load.scope, mode |-> x] : x \in {m[p]} \ {"rejected"}})]))
  /\ UNCHANGED <<requestScope, generation, visible, drawerVars, askVars, playing>>

\* Defect: fetchJSON without its timer.
GivesUp_Never == FALSE
\* fetchJSON aborts after eight seconds: every page of the load ends.
GivesUp == TRUE

LoadTimesOut(load) ==
  /\ visible /\ GivesUp
  /\ loads' = loads \ {load}
  /\ IF Current(load) THEN Apply(NoPages) ELSE UNCHANGED <<state, data, position>>
  /\ UNCHANGED <<requestScope, generation, visible, drawerVars, askVars, playing>>

-----------------------------------------------------------------------------
(* The evidence drawer and the graph's preview. *)

OpenDrawer(content) ==
  /\ visible
  /\ drawer' = [hidden |-> FALSE, content |-> content]
  /\ UNCHANGED <<session, data, hides, askVars, playback>>

\* A node of the graph, which stays selected.
OpenNode ==
  /\ shown.graph # Nothing
  /\ \E r \in shown.graph : OpenDrawer({r}) /\ selected' = {r}

\* The panels with buttons that open a record of their own.
Clickable == {"tiles", "services", "journeys", "decisions", "agents"}

\* A card, a tile, a decision: of a record, or UNAVAILABLE where there is none.  The id of a
\* record's detail, if its hash is valid, is selected in place of the node's and is no node's.
OpenDetail ==
  \E records \in {shown[panel] : panel \in Clickable} :
    \/ records = Nothing /\ OpenDrawer(Nothing) /\ UNCHANGED selected
    \/ \E r \in records : OpenDrawer({r}) /\ selected' \in {selected, Nothing}

\* openReceipt finds the hash of every button of the tape in receiptDetails; a receipt's id is no
\* node's either.
OpenReceipt ==
  /\ \E r \in shown.tape \cap details : OpenDrawer({r})
  /\ selected' = Nothing

UserCloses ==
  /\ visible /\ ~drawer.hidden
  /\ CloseDrawer
  /\ UNCHANGED <<session, data, selected, drawer, askVars, playback>>

HideTimer ==
  /\ visible /\ hides > 0
  /\ hides' = hides - 1
  /\ drawer' = [drawer EXCEPT !.hidden = TRUE]
  /\ UNCHANGED <<session, data, selected, askVars, playback>>

Preview(records) ==
  /\ visible
  /\ shown' = [shown EXCEPT !.preview = records]
  /\ UNCHANGED <<session, mode, pages, details, drawerVars, askVars, playback>>

PointAtNode == \E r \in shown.graph : Preview({r})
\* resetNodePreview: back to the selected node, if it is still in the graph.
LeaveNode == shown.graph # Nothing /\ Preview(selected \cap shown.graph)

-----------------------------------------------------------------------------
(* Ask Lyte. *)

\* A new question aborts the one in flight.
Ask(q) ==
  /\ visible
  /\ asking' = [of |-> requestScope, text |-> q]
  /\ asked' = [of |-> requestScope, text |-> q]
  /\ answer' = NoQuestion
  /\ UNCHANGED <<session, data, drawerVars, playback>>

\* The answer of the server, or UNAVAILABLE.
Answered ==
  /\ visible /\ asking # NoQuestion
  /\ answer' \in {asking, NoQuestion}
  /\ asking' = NoQuestion
  /\ UNCHANGED <<session, data, drawerVars, asked, playback>>

AskTimesOut ==
  /\ visible /\ asking # NoQuestion /\ GivesUp
  /\ asking' = NoQuestion
  /\ UNCHANGED <<session, data, drawerVars, answer, asked, playback>>

-----------------------------------------------------------------------------
(* Incident playback. *)

Playable == shown.timeline # Nothing

TogglePlayback ==
  /\ visible
  /\ playing' = (~playing /\ Playable)
  /\ position' = IF playing' /\ position >= Events - 1 THEN 0 ELSE position
  /\ UNCHANGED <<session, data, drawerVars, askVars>>

\* Choosing an event stops the timer.
Scrub(n) ==
  /\ visible /\ shown.timeline # Nothing
  /\ playing' = FALSE
  /\ position' = n
  /\ UNCHANGED <<session, data, drawerVars, askVars>>

Tick ==
  /\ visible /\ playing
  /\ IF position >= Events - 1
     THEN playing' = FALSE /\ UNCHANGED position
     ELSE position' = position + 1 /\ UNCHANGED playing
  /\ UNCHANGED <<session, data, drawerVars, askVars>>

\* visibilitychange: the tab goes to the background.
StopPlayback ==
  /\ visible /\ playing
  /\ playing' = FALSE
  /\ UNCHANGED <<session, data, drawerVars, askVars, position>>

-----------------------------------------------------------------------------
(* boot *)
Init ==
  /\ requestScope = Public /\ generation = 1 /\ visible = TRUE
  /\ loads = {[generation |-> 1, scope |-> Public]}
  /\ state = "loading" /\ mode = "UNAVAILABLE" /\ pages = NoPages
  /\ shown = [panel \in Panel |-> Nothing]
  /\ details = Nothing /\ selected = Nothing
  /\ drawer = Blank /\ hides = 0
  /\ asking = NoQuestion /\ answer = NoQuestion /\ asked = NoQuestion
  /\ playing = FALSE /\ position = 0

LoadEnds == \E load \in loads : Loaded(load) \/ LoadTimesOut(load)
UserActs ==
  \/ \E scope \in Workspace : ChangeWorkspaceScope(scope)
  \/ PageHide \/ PageShow
  \/ OpenNode \/ OpenDetail \/ OpenReceipt \/ UserCloses \/ PointAtNode \/ LeaveNode
  \/ \E q \in Question : Ask(q)
  \/ TogglePlayback \/ StopPlayback
  \/ \E n \in 0 .. Events - 1 : Scrub(n)
Next == UserActs \/ LoadEnds \/ HideTimer \/ Answered \/ AskTimesOut \/ Tick

\* Only timers are sure to fire; the server and the user owe nothing.
Fairness ==
  /\ WF_vars(\E load \in loads : LoadTimesOut(load))
  /\ WF_vars(AskTimesOut)
Spec == Init /\ [][Next]_vars /\ Fairness

-----------------------------------------------------------------------------
(* Properties. *)

Own(records) == \A r \in records : r.of = requestScope

\* Whatever is displayed, cached for the drawer or answered was requested with the
\* credentials that are in force now: late replies of an earlier workspace, of a page that was
\* hidden, and an aborted question leave nothing behind.  (The filter counts and the preview
\* are apart: see NothingRetained.)
ScopeIsolation ==
  /\ \A panel \in Panel \ Kept : Own(shown[panel])
  /\ Own(details) /\ Own(drawer.content)
  /\ answer # NoQuestion => answer = asked /\ answer.of = requestScope

\* The mode that is displayed is the mode of every record displayed: a scoped workspace never
\* shows sample data, modes are never mixed, and the timer plays only a timeline that is
\* there.  Every button of the tape opens without a request, so no late receipt opens a drawer.
ModeHonest ==
  /\ \A panel \in Panel \ Kept : \A r \in shown[panel] : r.mode = mode
  /\ requestScope # Public => mode # "SAMPLE"
  /\ playing => shown.timeline # Nothing /\ position < Events
  /\ shown.tape \subseteq details

\* A page that is looked at never waits for ever: its load settles and its question ends,
\* though the server may stay silent, because the page's own timers fire.
EveryWaitEnds ==
  /\ (state = "loading") ~> (state = "settled" \/ ~visible)
  /\ (asking # NoQuestion) ~> (asking = NoQuestion)

\* renderModeStatus (app.js:1409) tells the user of an unavailable workspace that
\* "no prior workspace data is retained".
NothingRetained == mode = "UNAVAILABLE" => \A panel \in Panel : shown[panel] = Nothing
=============================================================================
