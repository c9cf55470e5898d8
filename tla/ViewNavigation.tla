--------------------------- MODULE ViewNavigation ---------------------------
(***************************************************************************)
(* The views of one page: the router that turns a URL into a view          *)
(* (lib/router.js), the application view that keeps and replaces the       *)
(* current one (views/app.js), its asynchronous rendering (views/base.js)  *)
(* and the panels of the settings (views/settings.js, sub_panels.js).      *)
(***************************************************************************)
EXTENDS Naturals

CONSTANTS
    Pages,     \* classes of views that have a URL of their own
    Settings,  \* the one that has panels and must be verified
    Panel,     \* the URL of a panel of it
    None,
    MaxViews   \* bound: views the page creates

ASSUME NavigationAssumption ==
    /\ Settings \in Pages /\ Panel \notin Pages
    /\ MaxViews \in Nat \ {0} /\ None \notin 0..MaxViews

Urls == Pages \cup {Panel}
ErrorPage == 0
Views == 1..MaxViews

Phases == {"unused",
           "before",   \* in checkAuthorization or beforeRender
           "halted",   \* its beforeRender navigated and never resolves
           "after",    \* its template is rendered, afterRender is running
           "shown",    \* was written to the DOM
           "hidden",   \* render() resolved to false
           "failed"}   \* render() was rejected

\* moved is _hasNavigated, dead says that destroy() ran, checking that a
\* check begun on focus is under way, opening that showChildView waits for
\* the view, panel what became of the panel of a settings view.
View == [page : Pages, phase : Phases, moved : BOOLEAN, dead : BOOLEAN,
         checking : BOOLEAN, opening : BOOLEAN,
         panel : {"none", "rendering", "open"}]

VARIABLES
    views,      \* the views created, in order
    made,       \* how many they are
    current,    \* _currentView of the application view
    displayed,  \* the view in the DOM
    url         \* Backbone.history.fragment

vars == <<views, made, current, displayed, url>>

TypeOK ==
    /\ views \in [Views -> View] /\ made \in 0..MaxViews
    /\ current \in Views \cup {None}
    /\ displayed \in Views \cup {None, ErrorPage}
    /\ url \in Urls \cup {None}

Fresh(p, opens) ==
    [page |-> p, phase |-> "before", moved |-> FALSE, dead |-> FALSE,
     checking |-> FALSE, opening |-> opens, panel |-> "none"]

Init ==
    /\ views = [v \in Views |-> [Fresh(Settings, FALSE) EXCEPT !.phase = "unused"]]
    /\ made = 0 /\ current = None /\ displayed = None /\ url = None

-----------------------------------------------------------------------------
(* Showing a view.                                                         *)

Class(u) == IF u = Panel THEN Settings ELSE u

\* showView does not render a class again that is current.
IsCurrent(p) == current # None /\ views[current].page = p

Stays(u) == u = url \/ IsCurrent(Class(u))

\* _currentView once the page went to u.
Replaced(u) == IF Stays(u) THEN current ELSE made + 1

\* Mutant: without the comparison.
NotShownAtAll(v, now) == None

\* Mutant: the reference stays.
NotShownButKept(v, now) == now

\* Mutant: a view that is not shown is taken for the error page.
NotShownIsError(v, now) == IF now = v THEN ErrorPage ELSE now

\* A view that is not shown is not current any more, unless the one it
\* navigated to already is. Ref #3187
NotShown(v, now) == IF now = v THEN None ELSE now

\* Mutant: the parent that showChildView created.
PanelViewIsParent(vs, now, parent) ==
    IF vs[parent].phase \in {"after", "shown"} THEN parent ELSE None

\* The view that a panel is shown in when parent has settled: whatever is
\* current by then, if it is a settings view whose panels exist. The call
\* throws otherwise, and nothing is shown.
PanelView(vs, now, parent) ==
    IF now # None /\ vs[now].page = Settings /\ vs[now].phase \in {"after", "shown"}
    THEN now ELSE None

\* showChildView, once the parent is there; a panel there is is not rendered
\* again.
Opens(vs, now, parent) ==
    LET s == PanelView(vs, now, parent)
    IN  IF s = None \/ vs[s].panel # "none" THEN vs
        ELSE [vs EXCEPT ![s].panel = "rendering"]

\* The page goes from the views vs to u: a URL that does not change shows
\* nothing, a class that is current is not rendered again, and any other view
\* is destroyed and replaced.
Goes(vs, u) ==
    /\ url' = u
    /\ IF Stays(u)
       THEN /\ made' = made
            /\ views' = IF u # url /\ u = Panel THEN Opens(vs, current, current) ELSE vs
       ELSE /\ made < MaxViews /\ made' = made + 1
            /\ views' = [v \in Views |->
                   IF v = made + 1 THEN Fresh(Class(u), u = Panel)
                   ELSE IF v = current THEN [vs[v] EXCEPT !.dead = TRUE]
                   ELSE vs[v]]

\* The user follows a link, submits a form or uses the buttons of the browser.
UserGoes(u) ==
    /\ u # url /\ Goes(views, u) /\ current' = Replaced(u)
    /\ UNCHANGED displayed

-----------------------------------------------------------------------------
(* Rendering. The view may have been destroyed: nothing asks.              *)

\* What waited for the view goes on when its showView has settled.
Settled(vs, now, v) ==
    IF vs[v].opening THEN Opens([vs EXCEPT ![v].opening = FALSE], now, v) ELSE vs

Renders(v) ==
    /\ views[v].phase = "before" /\ ~views[v].moved
    /\ views' = [views EXCEPT ![v].phase = "after"]
    /\ UNCHANGED <<made, current, displayed, url>>

\* beforeRender navigates to another view: the render resolves to false after
\* that view was created.
Redirects(v, u) ==
    /\ views[v].phase = "before" /\ Class(u) # views[v].page
    /\ Goes([views EXCEPT ![v].phase = "hidden", ![v].moved = TRUE,
                          ![v].dead = TRUE, ![v].opening = FALSE], u)
    /\ current' = NotShown(v, Replaced(u))
    /\ UNCHANGED displayed

\* A broker's navigation in beforeRender returns a promise that never resolves.
Halts(v, u) ==
    /\ views[v].phase = "before" /\ Class(u) # views[v].page
    /\ Goes([views EXCEPT ![v].phase = "halted", ![v].moved = TRUE], u)
    /\ current' = Replaced(u)
    /\ UNCHANGED displayed

\* The render resolves to false: the view navigated meanwhile, or its
\* beforeRender wrote the error page and returned false.
Hides(v) ==
    /\ \/ views[v].phase \in {"before", "after"} /\ views[v].moved
          /\ UNCHANGED displayed
       \/ views[v].phase = "before" /\ ~views[v].moved
          /\ displayed' = ErrorPage
    /\ current' = NotShown(v, current)
    /\ views' = Settled([views EXCEPT ![v].phase = "hidden", ![v].dead = TRUE],
                        current', v)
    /\ UNCHANGED <<made, url>>

\* fatalError of the application view.
Throws(v) ==
    /\ views[v].phase \in {"before", "after"}
    /\ displayed' = ErrorPage
    /\ views' = Settled([views EXCEPT ![v].phase = "failed"], current, v)
    /\ UNCHANGED <<made, current, url>>

Displays(v) ==
    /\ views[v].phase = "after" /\ ~views[v].moved
    /\ displayed' = v
    /\ views' = Settled([views EXCEPT ![v].phase = "shown"], current, v)
    /\ UNCHANGED <<made, current, url>>

PanelRendered(v) ==
    /\ views[v].panel = "rendering"
    /\ \E p \in {"open", "none"} : views' = [views EXCEPT ![v].panel = p]
    /\ UNCHANGED <<made, current, displayed, url>>

\* The window gets the focus.
Focus(v) ==
    /\ views[v].phase # "unused" /\ ~views[v].dead
    /\ views[v].page = Settings /\ ~views[v].checking
    /\ views' = [views EXCEPT ![v].checking = TRUE]
    /\ UNCHANGED <<made, current, displayed, url>>

\* checkAuthorization ends, and sends whoever is not signed in to another view.
CheckEnds(v) ==
    /\ views[v].checking
    /\ \/ views' = [views EXCEPT ![v].checking = FALSE]
          /\ UNCHANGED <<made, current, url>>
       \/ \E u \in Pages \ {Settings} :
             /\ Goes([views EXCEPT ![v].checking = FALSE, ![v].moved = TRUE], u)
             /\ current' = Replaced(u)
    /\ UNCHANGED displayed

Next ==
    \/ \E u \in Urls : UserGoes(u)
    \/ \E v \in Views :
          \/ Renders(v) \/ Hides(v) \/ Throws(v) \/ Displays(v)
          \/ PanelRendered(v) \/ Focus(v) \/ CheckEnds(v)
          \/ \E u \in Urls : Redirects(v, u) \/ Halts(v, u)

Spec == Init /\ [][Next]_vars

\* Promises of a view being rendered settle: requests are answered or fail.
RenderStep(v) ==
    Renders(v) \/ Hides(v) \/ Throws(v) \/ Displays(v)
      \/ \E u \in Urls : Redirects(v, u) \/ Halts(v, u)

FairSpec == Spec /\ \A v \in Views : WF_vars(RenderStep(v))

-----------------------------------------------------------------------------

\* The listeners of a view are gone when the view is: of all the views that
\* were created and whose rendering may end in any order, only the current one
\* has not been destroyed, and the current one has not been. (app.js, showView)
LiveIsCurrent ==
    \A v \in Views : views[v].phase # "unused" => (~views[v].dead <=> current = v)

\* A panel is rendered into the settings view that is current when its turn
\* comes, although the wait for the parent view may end after the user went
\* elsewhere or opened the settings once more. (app.js, showChildView)
PanelsStartInCurrent ==
    [][\A v \in Views :
         views[v].panel = "none" /\ views'[v].panel = "rendering" => current' = v]_vars

\* A view that becomes current does not stay so undisplayed: it is written to
\* the DOM, replaced, let go of, or its failure is displayed. (app.js,
\* showView)
CurrentIsDisplayed ==
    \A v \in Views :
        current = v /\ views[v].phase = "before"
          ~> displayed = v \/ current # v \/ views[v].phase = "failed"

\* What the DOM shows is not a view that was replaced before it was rendered.
\* (app.js, showView: "If the view is not displayed, the current view is
\* replaced.")
ReplacedIsNotWritten ==
    [][\A v \in Views : views[v].dead => ~(displayed # v /\ displayed' = v)]_vars
=============================================================================
