--------------------------- MODULE WorkbenchProofs ---------------------------
(***************************************************************************)
(* ScopeIsolation and ModeHonest of Workbench, for any number of           *)
(* workspaces, pages, questions, events, loads and timers.                 *)
(*                                                                         *)
(* A reply is used only when it is of the generation in force, and that    *)
(* generation began with the credentials in force (Fresh): every change of *)
(* credentials is a new generation, and what was displayed under the old   *)
(* ones is dropped in the same event.  A load is only in flight over an    *)
(* empty timeline (Waiting, Away), so no reply takes the timeline from     *)
(* under the playback timer.                                               *)
(***************************************************************************)
EXTENDS Workbench, FiniteSetTheorems, TLAPS

Load == [generation : Nat, scope : Workspace]

TypeOK ==
  /\ requestScope \in Workspace
  /\ generation \in Nat
  /\ visible \in BOOLEAN
  /\ loads \subseteq Load
  /\ shown \in [Panel -> SUBSET Record]
  /\ drawer \in [hidden : BOOLEAN, content : SUBSET Record]
  /\ playing \in BOOLEAN
  /\ position \in Nat

\* No load is ahead of the page, and the one that is current asked with the
\* credentials in force.
Fresh ==
  \A load \in loads : /\ load.generation <= generation
                      /\ Current(load) => load.scope = requestScope

\* While a load is current, and while the page is hidden, nothing plays.
Still == ~playing /\ shown.timeline = Nothing
Waiting == \A load \in loads : Current(load) => Still
Away == ~visible => Still

\* A question in flight is the last one asked, under the credentials in force.
Asking == asking # NoQuestion => asking = asked /\ asking.of = requestScope

WInv == TypeOK /\ Fresh /\ Waiting /\ Away /\ Asking /\ ScopeIsolation /\ ModeHonest

-----------------------------------------------------------------------------
\* What is rendered from the pages that were kept.
LEMMA HydrateShows ==
  ASSUME TypeOK, NEW content \in [Page -> SUBSET Record], Hydrate(content)
  PROVE  /\ shown' \in [Panel -> SUBSET Record]
         /\ \A panel \in Panel \ Kept : shown'[panel] \subseteq Of(content, Page)
         /\ shown'.tape \subseteq details' /\ details' = Of(content, Page)
<1>1. \A names : Of(content, names) \subseteq Of(content, Page)
  BY DEF Of
<1>2. Of(content, Page) \in SUBSET Record
  BY DEF Of
<1>3. \A names : Of(content, names) \in SUBSET Record
  BY <1>1, <1>2
<1>4. shown.counts \in SUBSET Record /\ shown.preview \in SUBSET Record
  BY DEF TypeOK, Panel
<1>5. /\ Lattice(content) \subseteq Of(content, Page) /\ Tiles(content) \subseteq Of(content, Page)
      /\ Cards(content) \subseteq Of(content, Page)
      /\ ServiceEvents(content) \subseteq Of(content, Page)
      /\ JourneyCanvas(content) \subseteq Of(content, Page)
      /\ DecisionList(content) \subseteq Of(content, Page)
      /\ AgentList(content) \subseteq Of(content, Page)
      /\ IncidentTitle(content) \subseteq Of(content, Page)
      /\ Timeline(content) \subseteq Of(content, Page) /\ Tape(content) \subseteq Of(content, Page)
      /\ ProofCoverage(content) \subseteq Of(content, Page)
  BY <1>1 DEF Lattice, Tiles, Cards, ServiceCards, ServiceEvents, JourneyCanvas, DecisionList,
              AgentList, IncidentTitle, Timeline, Tape, ProofCoverage, Nothing
<1>6. Counts(content) \in SUBSET Record
  BY <1>3, <1>4 DEF Counts, ServiceCards
<1>7. /\ DOMAIN shown' = Panel
      /\ shown'.graph = Lattice(content) /\ shown'.tiles = Tiles(content)
      /\ shown'.services = Cards(content) /\ shown'.counts = Counts(content)
      /\ shown'.preview = shown.preview /\ shown'.events = ServiceEvents(content)
      /\ shown'.journeys = JourneyCanvas(content) /\ shown'.decisions = DecisionList(content)
      /\ shown'.agents = AgentList(content) /\ shown'.incidents = IncidentTitle(content)
      /\ shown'.timeline = Timeline(content) /\ shown'.tape = Tape(content)
      /\ shown'.coverage = ProofCoverage(content)
  BY DEF Hydrate, Panel
<1>8. \A panel \in Panel \ Kept : shown'[panel] \subseteq Of(content, Page)
  BY <1>5, <1>7 DEF Panel, Kept
<1>9. \A panel \in Panel : shown'[panel] \in SUBSET Record
  BY <1>2, <1>4, <1>6, <1>7, <1>8 DEF Panel, Kept
<1>10. shown' = [panel \in Panel |-> shown'[panel]]
  BY <1>7 DEF Hydrate, Panel
<1>. QED BY <1>5, <1>7, <1>8, <1>9, <1>10 DEF Hydrate

\* Forgetting leaves nothing displayed, nothing to open and nothing asked.
LEMMA ForgetsAll ==
  ASSUME TypeOK, Forget
  PROVE  /\ shown' \in [Panel -> SUBSET Record]
         /\ \A panel \in Panel \ Kept : shown'[panel] = Nothing
         /\ details' = Nothing /\ mode' = "UNAVAILABLE"
         /\ drawer' \in [hidden : BOOLEAN, content : SUBSET Record] /\ drawer'.content = Nothing
         /\ asking' = NoQuestion /\ answer' = NoQuestion /\ asked' = NoQuestion
         /\ playing' = FALSE /\ position' = 0 /\ Still'
<1>1. NoPages \in [Page -> SUBSET Record] /\ Of(NoPages, Page) = Nothing
  BY DEF NoPages, Nothing, Of
<1>2. Hydrate(NoPages)
  BY DEF Forget
<1>3. /\ shown' \in [Panel -> SUBSET Record] /\ details' = Nothing
      /\ \A panel \in Panel \ Kept : shown'[panel] = Nothing
  BY <1>1, <1>2, HydrateShows DEF Nothing
<1>4. "timeline" \in Panel \ Kept
  BY DEF Panel, Kept
<1>5. shown'.timeline = Nothing
  BY <1>3, <1>4
<1>6. drawer' \in [hidden : BOOLEAN, content : SUBSET Record] /\ drawer'.content = Nothing
  BY DEF Forget, Cleared, TypeOK, Nothing
<1>. QED BY <1>3, <1>5, <1>6 DEF Forget, Aborted, Still

\* The first pages of a session that has forgotten, whatever load comes next.
LEMMA ForgottenHolds ==
  ASSUME TypeOK, Forget
  PROVE  Asking' /\ ScopeIsolation' /\ ModeHonest' /\ Still'
<1>. DEFINE facts == /\ \A panel \in Panel \ Kept : shown'[panel] = Nothing
                     /\ details' = Nothing /\ mode' = "UNAVAILABLE"
                     /\ drawer'.content = Nothing /\ Still'
                     /\ asking' = NoQuestion /\ answer' = NoQuestion /\ playing' = FALSE
<1>1. facts
  BY ForgetsAll
<1>2. shown'.tape = Nothing
  BY <1>1 DEF Panel, Kept
<1>. QED BY <1>1, <1>2 DEF Asking, ScopeIsolation, ModeHonest, Own, Nothing

\* New credentials: everything of the old ones is gone before the load begins.
LEMMA ChangeKeeps ==
  ASSUME WInv, NEW scope \in Workspace, ChangeWorkspaceScope(scope)
  PROVE  WInv'
<1>. USE DEF WInv
<1>1. Forget
  BY DEF ChangeWorkspaceScope
<1>2. /\ generation' = generation + 2 /\ requestScope' = scope /\ visible' = visible
      /\ loads' = loads \cup {[generation |-> generation', scope |-> scope]}
  BY DEF ChangeWorkspaceScope, StartLoad
<1>3. TypeOK'
  <2>1. generation' \in Nat /\ loads' \subseteq Load
    BY <1>2 DEF TypeOK, Load
  <2>2. visible' \in BOOLEAN /\ requestScope' \in Workspace
    BY <1>2 DEF TypeOK
  <2>3. shown' \in [Panel -> SUBSET Record] /\ drawer' \in [hidden : BOOLEAN, content : SUBSET Record]
    BY <1>1, ForgetsAll
  <2>4. playing' \in BOOLEAN /\ position' \in Nat
    BY <1>1, ForgetsAll
  <2>. QED BY <2>1, <2>2, <2>3, <2>4 DEF TypeOK
<1>4. Fresh'
  BY <1>2 DEF Fresh, Current, TypeOK, Load
<1>. QED BY <1>1, <1>3, <1>4, ForgottenHolds DEF Waiting, Away

\* A page that is hidden forgets too, and no load is current any more.
LEMMA HideKeeps ==
  ASSUME WInv, PageHide
  PROVE  WInv'
<1>. USE DEF WInv
<1>1. Forget
  BY DEF PageHide
<1>2. /\ generation' = generation + 1 /\ requestScope' = Public /\ visible' = FALSE
      /\ loads' = loads
  BY DEF PageHide
<1>3. TypeOK'
  <2>1. generation' \in Nat /\ loads' \subseteq Load
    BY <1>2 DEF TypeOK
  <2>2. visible' \in BOOLEAN /\ requestScope' \in Workspace
    BY <1>2 DEF Workspace
  <2>3. shown' \in [Panel -> SUBSET Record] /\ drawer' \in [hidden : BOOLEAN, content : SUBSET Record]
    BY <1>1, ForgetsAll
  <2>4. playing' \in BOOLEAN /\ position' \in Nat
    BY <1>1, ForgetsAll
  <2>. QED BY <2>1, <2>2, <2>3, <2>4 DEF TypeOK
<1>4. Fresh'
  BY <1>2 DEF Fresh, Current, TypeOK, Load
<1>. QED BY <1>1, <1>3, <1>4, ForgottenHolds DEF Waiting, Away

\* A page that is restored loads again, over the empty page it was left with.
LEMMA ShowKeeps ==
  ASSUME WInv, PageShow
  PROVE  WInv'
<1>. USE DEF WInv
<1>1. /\ generation' = generation + 1 /\ requestScope' = requestScope /\ visible' = TRUE
      /\ loads' = loads \cup {[generation |-> generation', scope |-> requestScope]}
      /\ UNCHANGED <<data, drawerVars, askVars, playback>> /\ visible = FALSE
  BY DEF PageShow, StartLoad, TypeOK
<1>. USE DEF data, drawerVars, askVars, playback
<1>2. TypeOK'
  BY <1>1 DEF TypeOK, Load
<1>3. Fresh'
  BY <1>1 DEF Fresh, Current, TypeOK, Load
<1>4. Waiting' /\ Away'
  BY <1>1 DEF Waiting, Away, Still
<1>5. Asking' /\ ScopeIsolation' /\ ModeHonest'
  BY <1>1 DEF Asking, ScopeIsolation, ModeHonest, Own
<1>. QED BY <1>2, <1>3, <1>4, <1>5

\* Pages that are applied are of the load's workspace and of one mode, which is
\* not SAMPLE under credentials.
LEMMA AppliesHonestly ==
  ASSUME TypeOK, NEW load \in loads, load.scope = requestScope,
         NEW m \in [Page -> Modes \cup {"rejected"}], NEW content,
         content = Settled([p \in Page |->
                     Accepted({[of |-> load.scope, mode |-> x] : x \in {m[p]} \ {"rejected"}})]),
         Apply(content)
  PROVE  /\ content \in [Page -> SUBSET Record]
         /\ \A r \in Of(content, Page) : r.of = requestScope /\ r.mode = mode'
         /\ requestScope # Public => mode' # "SAMPLE"
<1>. DEFINE all == [p \in Page |->
                     Accepted({[of |-> load.scope, mode |-> x] : x \in {m[p]} \ {"rejected"}})]
            union(c) == UNION {c[p] : p \in Page}
<1>1. ASSUME NEW p \in Page
      PROVE  /\ all[p] \in SUBSET Record
             /\ \A r \in all[p] : r.of = requestScope /\ r.mode \in Modes
             /\ requestScope # Public => \A r \in all[p] : r.mode = "REAL_ONLY"
  <2>. DEFINE page == {[of |-> load.scope, mode |-> x] : x \in {m[p]} \ {"rejected"}}
  <2>1. page \in SUBSET Record /\ \A r \in page : r.of = requestScope /\ r.mode \in Modes
    BY DEF Record, TypeOK
  <2>2. all[p] = Accepted(page)
    OBVIOUS
  <2>. HIDE DEF page, all
  <2>. QED BY <2>1, <2>2 DEF Accepted, Nothing
<1>2. CASE content = NoPages
  <2>1. union(content) = {} /\ content \in [Page -> SUBSET Record] /\ Of(content, Page) = {}
    BY <1>2 DEF NoPages, Nothing, Of
  <2>2. mode' = "UNAVAILABLE"
    BY <2>1 DEF Apply, Nothing
  <2>. QED BY <2>1, <2>2
<1>3. CASE content = all /\ Cardinality({r.mode : r \in union(all)}) = 1
  <2>. HIDE DEF all
  <2>1. {r.mode : r \in union(all)} \subseteq Modes
    BY <1>1
  <2>2. IsFiniteSet({r.mode : r \in union(all)})
    <3>1. IsFiniteSet({"SAMPLE"}) /\ IsFiniteSet({"SAMPLE"} \cup {"REAL_ONLY"})
      BY FS_Singleton, FS_Union
    <3>2. Modes = {"SAMPLE"} \cup {"REAL_ONLY"}
      BY DEF Modes
    <3>. QED BY <2>1, <3>1, <3>2, FS_Subset
  <2>3. PICK one : {r.mode : r \in union(all)} = {one}
    BY <1>3, <2>2, FS_Singleton
  <2>4. PICK s \in union(all) : TRUE
    BY <2>3
  <2>5. \A r \in union(all) : r.mode = one
    BY <2>3
  <2>6. mode' = (CHOOSE r \in union(all) : TRUE).mode
    BY <1>3, <2>4 DEF Apply, Nothing
  <2>7. mode' = one
    BY <2>4, <2>5, <2>6
  <2>8. Of(content, Page) = union(all)
    BY <1>3 DEF Of
  <2>9. all \in [Page -> SUBSET Record]
    BY <1>1 DEF all
  <2>10. \A r \in union(all) : r.of = requestScope
    BY <1>1
  <2>11. requestScope # Public => one = "REAL_ONLY"
    BY <1>1, <2>4, <2>5
  <2>. QED BY <1>3, <2>5, <2>7, <2>8, <2>9, <2>10, <2>11
<1>4. content = Settled(all)
  OBVIOUS
<1>. HIDE DEF all
<1>. QED BY <1>2, <1>3, <1>4 DEF Settled

\* The pages of the current load are applied, or those of a late one dropped.
LEMMA ApplyKeeps ==
  ASSUME WInv, visible, NEW load \in loads, loads' = loads \ {load}, Current(load),
         NEW content \in [Page -> SUBSET Record], Apply(content),
         \A r \in Of(content, Page) : r.of = requestScope /\ r.mode = mode',
         requestScope # Public => mode' # "SAMPLE",
         UNCHANGED <<requestScope, generation, visible, drawerVars, askVars, playing>>
  PROVE  WInv'
<1>. USE DEF WInv
<1>1. /\ shown' \in [Panel -> SUBSET Record]
      /\ \A panel \in Panel \ Kept : shown'[panel] \subseteq Of(content, Page)
      /\ shown'.tape \subseteq details' /\ details' = Of(content, Page)
  BY HydrateShows DEF Apply
<1>2. position' = 0 /\ playing = FALSE
  BY DEF Apply, Waiting, Still, TypeOK
<1>3. TypeOK'
  BY <1>1, <1>2 DEF TypeOK, drawerVars
<1>4. Fresh'
  BY DEF Fresh, Current
<1>5. Waiting'
  <2>1. \A other \in loads : Current(other) => other = load
    BY DEF TypeOK, Load, Fresh, Current
  <2>. QED BY <2>1 DEF Waiting, Current
<1>6. Away' /\ Asking'
  BY DEF Away, Asking, askVars
<1>7. ScopeIsolation'
  BY <1>1 DEF ScopeIsolation, Own, drawerVars, askVars
<1>8. ModeHonest'
  BY <1>1, <1>2 DEF ModeHonest
<1>. QED BY <1>3, <1>4, <1>5, <1>6, <1>7, <1>8

\* What has come in of a load that is no longer current is not used.
LEMMA LateKeeps ==
  ASSUME WInv, NEW load \in loads, loads' = loads \ {load},
         UNCHANGED <<requestScope, generation, visible, data, drawerVars, askVars, playback>>
  PROVE  WInv'
<1>. USE DEF WInv, data, drawerVars, askVars, playback
<1>1. TypeOK'
  BY DEF TypeOK
<1>2. Fresh' /\ Waiting' /\ Away'
  BY DEF Fresh, Waiting, Away, Current, Still
<1>3. Asking' /\ ScopeIsolation' /\ ModeHonest'
  BY DEF Asking, ScopeIsolation, ModeHonest, Own
<1>. QED BY <1>1, <1>2, <1>3

LEMMA LoadEndsKeeps ==
  ASSUME WInv, NEW load \in loads, Loaded(load) \/ LoadTimesOut(load)
  PROVE  WInv'
<1>1. visible /\ loads' = loads \ {load}
      /\ UNCHANGED <<requestScope, generation, visible, drawerVars, askVars, playing>>
  BY DEF Loaded, LoadTimesOut
<1>2. Current(load) => load.scope = requestScope
  BY DEF WInv, Fresh
<1>3. CASE ~Current(load)
  BY <1>1, <1>3, LateKeeps DEF Loaded, LoadTimesOut, playback
<1>4. CASE Current(load) /\ Loaded(load)
  <2>1. PICK m \in [Page -> Modes \cup {"rejected"}] :
          Apply(Settled([p \in Page |->
            Accepted({[of |-> load.scope, mode |-> x] : x \in {m[p]} \ {"rejected"}})]))
    BY <1>4 DEF Loaded
  <2>2. PICK content :
          content = Settled([p \in Page |->
            Accepted({[of |-> load.scope, mode |-> x] : x \in {m[p]} \ {"rejected"}})])
    OBVIOUS
  <2>3. Apply(content)
    BY <2>1, <2>2
  <2>4. /\ content \in [Page -> SUBSET Record]
        /\ \A r \in Of(content, Page) : r.of = requestScope /\ r.mode = mode'
        /\ requestScope # Public => mode' # "SAMPLE"
    BY <1>2, <1>4, <2>2, <2>3, AppliesHonestly DEF WInv
  <2>. QED BY <1>1, <1>4, <2>3, <2>4, ApplyKeeps
<1>5. CASE Current(load) /\ LoadTimesOut(load)
  <2>1. Apply(NoPages)
    BY <1>5 DEF LoadTimesOut
  <2>2. NoPages \in [Page -> SUBSET Record] /\ Of(NoPages, Page) = {}
        /\ UNION {NoPages[p] : p \in Page} = {}
    BY DEF NoPages, Nothing, Of
  <2>3. mode' = "UNAVAILABLE"
    BY <2>1, <2>2 DEF Apply, Nothing
  <2>. QED BY <1>1, <1>5, <2>1, <2>2, <2>3, ApplyKeeps
<1>. QED BY <1>3, <1>4, <1>5

\* The drawer shows what was displayed, which is the user's own.
LEMMA OpensKeep ==
  ASSUME WInv, NEW content \in SUBSET Record, Own(content), OpenDrawer(content)
  PROVE  WInv'
<1>. USE DEF WInv, OpenDrawer, session, data, askVars, playback
<1>1. TypeOK'
  BY DEF TypeOK
<1>2. Fresh' /\ Waiting' /\ Away'
  BY DEF Fresh, Waiting, Away, Current, Still
<1>3. ScopeIsolation'
  BY DEF ScopeIsolation, Own
<1>. QED BY <1>1, <1>2, <1>3 DEF Asking, ModeHonest

LEMMA DrawerKeeps ==
  ASSUME WInv, OpenNode \/ OpenDetail \/ OpenReceipt
  PROVE  WInv'
<1>1. \A panel \in Panel \ Kept : shown[panel] \in SUBSET Record /\ Own(shown[panel])
  BY DEF WInv, TypeOK, ScopeIsolation
<1>2. \A panel \in Panel \ Kept : \A r \in shown[panel] : {r} \in SUBSET Record /\ Own({r})
  BY <1>1 DEF Own
<1>3. Nothing \in SUBSET Record /\ Own(Nothing)
  BY DEF Nothing, Own
<1>4. Clickable \cup {"graph", "tape"} \subseteq Panel \ Kept
  BY DEF Clickable, Panel, Kept
<1>5. CASE OpenNode
  BY <1>2, <1>4, <1>5, OpensKeep DEF OpenNode
<1>6. CASE OpenDetail
  BY <1>2, <1>3, <1>4, <1>6, OpensKeep DEF OpenDetail
<1>7. CASE OpenReceipt
  BY <1>2, <1>4, <1>7, OpensKeep DEF OpenReceipt
<1>. QED BY <1>5, <1>6, <1>7

\* The other events touch neither the session nor the panels that are promised.
LEMMA OthersKeep ==
  ASSUME WInv, UNCHANGED <<requestScope, generation, visible, loads>>,
         UNCHANGED <<mode, details, asking, answer, asked>>,
         shown' \in [Panel -> SUBSET Record],
         \A panel \in Panel \ Kept : shown'[panel] = shown[panel],
         drawer' \in [hidden : BOOLEAN, content : SUBSET Record], drawer'.content = drawer.content,
         playing' \in BOOLEAN, position' \in Nat,
         playing' => playing \/ (visible /\ shown.timeline # Nothing),
         playing' => position' < Events
  PROVE  WInv'
<1>. USE DEF WInv
<1>1. shown'.timeline = shown.timeline /\ shown'.tape = shown.tape
  BY DEF Panel, Kept
<1>2. TypeOK'
  BY DEF TypeOK
<1>3. Fresh' /\ Asking'
  BY DEF Fresh, Current, Asking
<1>4. Waiting' /\ Away'
  BY <1>1 DEF Waiting, Away, Still, Current
<1>5. ScopeIsolation'
  BY DEF ScopeIsolation, Own
<1>6. ModeHonest'
  BY <1>1 DEF ModeHonest
<1>. QED BY <1>2, <1>3, <1>4, <1>5, <1>6

LEMMA ViewKeeps ==
  ASSUME WInv, UserCloses \/ HideTimer \/ PointAtNode \/ LeaveNode
  PROVE  WInv'
<1>. USE DEF WInv
<1>0. /\ shown \in [Panel -> SUBSET Record] /\ playing \in BOOLEAN /\ position \in Nat
      /\ drawer \in [hidden : BOOLEAN, content : SUBSET Record]
  BY DEF TypeOK
<1>1. playing => position < Events
  BY DEF ModeHonest
<1>2. CASE UserCloses \/ HideTimer
  <2>1. drawer' \in [hidden : BOOLEAN, content : SUBSET Record] /\ drawer'.content = drawer.content
    BY <1>2 DEF UserCloses, HideTimer, TypeOK
  <2>2. UNCHANGED <<session, data, askVars, playback>>
    BY <1>2 DEF UserCloses, HideTimer
  <2>3. UNCHANGED <<requestScope, generation, visible, loads, mode, details, asking, answer, asked>>
    BY <2>2 DEF session, data, askVars
  <2>4. shown' = shown /\ playing' = playing /\ position' = position
    BY <2>2 DEF data, playback
  <2>. QED BY <1>0, <1>1, <2>1, <2>3, <2>4, OthersKeep
<1>3. ASSUME NEW records \in SUBSET Record, Preview(records)
      PROVE  WInv'
  <2>1. shown' = [shown EXCEPT !["preview"] = records]
    BY <1>3 DEF Preview
  <2>2. shown' \in [Panel -> SUBSET Record] /\ \A panel \in Panel \ Kept : shown'[panel] = shown[panel]
    BY <2>1 DEF TypeOK, Kept
  <2>3. UNCHANGED <<session, mode, details, drawerVars, askVars, playback>>
    BY <1>3 DEF Preview
  <2>4. UNCHANGED <<requestScope, generation, visible, loads, mode, details, asking, answer, asked>>
    BY <2>3 DEF session, askVars
  <2>5. drawer' = drawer /\ playing' = playing /\ position' = position
    BY <2>3 DEF drawerVars, playback
  <2>. QED BY <1>0, <1>1, <2>2, <2>4, <2>5, OthersKeep
<1>4. shown["graph"] \in SUBSET Record
  BY DEF TypeOK, Panel
<1>. QED BY <1>2, <1>3, <1>4 DEF PointAtNode, LeaveNode

LEMMA PlaybackKeeps ==
  ASSUME WInv, TogglePlayback \/ (\E n \in 0 .. Events - 1 : Scrub(n)) \/ Tick \/ StopPlayback
  PROVE  WInv'
<1>. USE EventsAssumption DEF WInv
<1>1. /\ UNCHANGED <<requestScope, generation, visible, loads, mode, details, asking, answer, asked>>
      /\ UNCHANGED <<shown, drawer>>
  BY DEF TogglePlayback, Scrub, Tick, StopPlayback, session, data, drawerVars, askVars
<1>2. playing \in BOOLEAN /\ position \in Nat /\ (playing => position < Events)
  BY DEF TypeOK, ModeHonest
<1>3. /\ playing' \in BOOLEAN /\ position' \in Nat
      /\ playing' => playing \/ (visible /\ shown.timeline # Nothing)
      /\ playing' => position' < Events
  <2>1. CASE TogglePlayback
    <3>1. /\ playing' = (~playing /\ Playable)
          /\ position' = IF playing' /\ position >= Events - 1 THEN 0 ELSE position
          /\ visible
      BY <2>1 DEF TogglePlayback
    <3>2. playing' \in BOOLEAN
      BY <3>1
    <3>3. playing' => visible /\ shown.timeline # Nothing
      BY <3>1 DEF Playable
    <3>4. position' \in Nat /\ (playing' => position' < Events)
      BY <1>2, <3>1
    <3>. QED BY <3>2, <3>3, <3>4
  <2>2. ASSUME NEW n \in 0 .. Events - 1, Scrub(n)
        PROVE  /\ playing' \in BOOLEAN /\ position' \in Nat
               /\ ~playing'
    <3>1. playing' = FALSE /\ position' = n
      BY <2>2 DEF Scrub
    <3>2. playing' \in BOOLEAN /\ ~playing'
      BY <3>1
    <3>3. position' \in Nat
      BY <3>1
    <3>. QED BY <3>2, <3>3
  <2>3. CASE Tick
    <3>1. CASE position >= Events - 1
      <4>1. playing' = FALSE /\ position' = position
        BY <2>3, <3>1 DEF Tick
      <4>. QED BY <1>2, <4>1
    <3>2. CASE ~(position >= Events - 1)
      <4>1. playing' = playing /\ position' = position + 1 /\ playing
        BY <2>3, <3>2 DEF Tick
      <4>2. position + 1 \in Nat /\ position + 1 < Events
        BY <1>2, <3>2
      <4>. QED BY <1>2, <4>1, <4>2
    <3>. QED BY <3>1, <3>2
  <2>4. CASE StopPlayback
    <3>1. playing' = FALSE /\ position' = position
      BY <2>4 DEF StopPlayback
    <3>. QED BY <1>2, <3>1
  <2>5. CASE \E n \in 0 .. Events - 1 : Scrub(n)
    BY <2>2, <2>5
  <2>. QED BY <2>1, <2>3, <2>4, <2>5
<1>. QED BY <1>1, <1>3, OthersKeep DEF TypeOK

\* Questions: only the answer to the last one asked is shown.
LEMMA QuestionsKeep ==
  ASSUME WInv, (\E q \in Question : Ask(q)) \/ Answered \/ AskTimesOut
  PROVE  WInv'
<1>. USE DEF WInv
<1>1. UNCHANGED <<session, data, drawerVars, playback>>
  BY DEF Ask, Answered, AskTimesOut
<1>. USE DEF session, data, drawerVars, playback
<1>2. TypeOK' /\ Fresh' /\ Waiting' /\ Away'
  BY <1>1 DEF TypeOK, Fresh, Waiting, Away, Current, Still
<1>3. Asking' /\ (answer' # NoQuestion => answer' = asked' /\ answer'.of = requestScope')
  <2>1. ASSUME NEW q \in Question, Ask(q)
        PROVE  asking' = asked' /\ asking'.of = requestScope /\ answer' = NoQuestion
    BY <2>1 DEF Ask
  <2>2. CASE Answered
    BY <1>1, <2>2 DEF Answered, Asking
  <2>3. CASE AskTimesOut
    BY <1>1, <2>3 DEF AskTimesOut, Asking, ScopeIsolation
  <2>. QED BY <1>1, <2>1, <2>2, <2>3 DEF Asking
<1>4. ScopeIsolation'
  BY <1>1, <1>3 DEF ScopeIsolation, Own
<1>5. ModeHonest'
  BY <1>1 DEF ModeHonest
<1>. QED BY <1>2, <1>3, <1>4, <1>5

-----------------------------------------------------------------------------
(* The results. *)

\* The inductive invariant holds of every behaviour of the page.
THEOREM Invariance == Spec => []WInv
<1>1. Init => WInv
  <2>. SUFFICES ASSUME Init PROVE WInv
    OBVIOUS
  <2>1. TypeOK
    <3>1. requestScope \in Workspace /\ loads \subseteq Load /\ generation \in Nat /\ position \in Nat
      BY DEF Init, Workspace, Load
    <3>2. visible \in BOOLEAN /\ playing \in BOOLEAN
      BY DEF Init
    <3>3. shown \in [Panel -> SUBSET Record] /\ drawer \in [hidden : BOOLEAN, content : SUBSET Record]
      BY DEF Init, Blank, Nothing
    <3>. QED BY <3>1, <3>2, <3>3 DEF TypeOK
  <2>2. \A panel \in Panel : shown[panel] = Nothing
    BY DEF Init
  <2>3. shown.timeline = Nothing /\ shown.tape = Nothing
    BY <2>2 DEF Panel
  <2>4. Fresh /\ Waiting /\ Away /\ Asking
    BY <2>3 DEF Init, Fresh, Waiting, Away, Asking, Still
  <2>5. ScopeIsolation /\ ModeHonest
    BY <2>2, <2>3 DEF Init, ScopeIsolation, ModeHonest, Own, Blank, Nothing
  <2>. QED BY <2>1, <2>4, <2>5 DEF WInv
<1>2. WInv /\ [Next]_vars => WInv'
  <2>. SUFFICES ASSUME WInv, [Next]_vars PROVE WInv'
    OBVIOUS
  <2>1. CASE UserActs
    BY <2>1, ChangeKeeps, HideKeeps, ShowKeeps, DrawerKeeps, ViewKeeps, QuestionsKeep, PlaybackKeeps
    DEF UserActs
  <2>2. CASE LoadEnds
    BY <2>2, LoadEndsKeeps DEF LoadEnds
  <2>3. CASE HideTimer \/ Answered \/ AskTimesOut \/ Tick
    BY <2>3, ViewKeeps, QuestionsKeep, PlaybackKeeps
  <2>4. CASE UNCHANGED vars
    BY <2>4, OthersKeep DEF vars, session, data, drawerVars, askVars, playback, WInv, TypeOK, ModeHonest
  <2>. QED BY <2>1, <2>2, <2>3, <2>4 DEF Next
<1>. QED BY <1>1, <1>2, PTL DEF Spec

\* Replies of an earlier workspace, of a page that was hidden or of an aborted
\* question leave nothing behind, in whatever order the events come.
THEOREM ScopesStayIsolated == Spec => []ScopeIsolation
<1>1. WInv => ScopeIsolation
  BY DEF WInv
<1>. QED BY Invariance, <1>1, PTL

\* The page never mixes modes or shows samples under credentials, and the
\* playback timer never outlives its timeline.
THEOREM ModesStayHonest == Spec => []ModeHonest
<1>1. WInv => ModeHonest
  BY DEF WInv
<1>. QED BY Invariance, <1>1, PTL
=============================================================================
