------------------------ MODULE ViewNavigationProofs ------------------------
(***************************************************************************)
(* For any classes of views and any number of views created: the view that *)
(* is current is the one that was not destroyed, and panels open in it.    *)
(* LiveIsCurrent needs that the view a step creates is a new one           *)
(* (UsedAreMade): a view that navigates away must not destroy its          *)
(* successor in its own place.                                             *)
(***************************************************************************)
EXTENDS ViewNavigation, TLAPS

UsedAreMade == \A v \in Views : views[v].phase # "unused" => v <= made

IInv == TypeOK /\ UsedAreMade /\ LiveIsCurrent

USE NavigationAssumption

-----------------------------------------------------------------------------
(* What a step does to the views.                                          *)

\* A panel opens at most in the view that is current; nothing else changes.
LEMMA OpensShape ==
    ASSUME NEW vs \in [Views -> View], NEW now \in Views \cup {None}, NEW parent
    PROVE  /\ Opens(vs, now, parent) \in [Views -> View]
           /\ \A v \in Views :
                /\ Opens(vs, now, parent)[v].phase = vs[v].phase
                /\ Opens(vs, now, parent)[v].dead = vs[v].dead
                /\ vs[v].panel = "none" /\ Opens(vs, now, parent)[v].panel = "rendering"
                     => v = now /\ vs[v].phase \in {"after", "shown"}
  <1> DEFINE s == PanelView(vs, now, parent)
  <1>1. s = None \/ (s = now /\ now \in Views /\ vs[now].phase \in {"after", "shown"})
    BY DEF PanelView
  <1>2. CASE s = None \/ vs[s].panel # "none"
    BY <1>2 DEF Opens
  <1>3. CASE ~(s = None \/ vs[s].panel # "none")
    <2> DEFINE w == [vs[s] EXCEPT !.panel = "rendering"]
    <2>1. Opens(vs, now, parent) = [vs EXCEPT ![s].panel = "rendering"]
      BY <1>3 DEF Opens
    <2>2. s \in Views /\ vs[s] \in View
      BY <1>1, <1>3
    <2>3. w \in View /\ w.phase = vs[s].phase /\ w.dead = vs[s].dead
      BY <2>2 DEF View
    <2>4. Opens(vs, now, parent) = [vs EXCEPT ![s] = w]
      BY <2>1
    <2> HIDE DEF w
    <2>5. QED
      BY <1>1, <1>3, <2>2, <2>3, <2>4
  <1>4. QED
    BY <1>2, <1>3

LEMMA SettledShape ==
    ASSUME NEW vs \in [Views -> View], NEW now \in Views \cup {None}, NEW u \in Views
    PROVE  /\ Settled(vs, now, u) \in [Views -> View]
           /\ \A v \in Views :
                /\ Settled(vs, now, u)[v].phase = vs[v].phase
                /\ Settled(vs, now, u)[v].dead = vs[v].dead
                /\ vs[v].panel = "none" /\ Settled(vs, now, u)[v].panel = "rendering"
                     => v = now
  <1>1. CASE ~vs[u].opening
    BY <1>1 DEF Settled
  <1>2. CASE vs[u].opening
    <2> DEFINE w == [vs[u] EXCEPT !.opening = FALSE]
               ws == [vs EXCEPT ![u] = w]
    <2>1. w \in View /\ w.phase = vs[u].phase /\ w.dead = vs[u].dead
          /\ w.panel = vs[u].panel
      BY DEF View
    <2>2. Settled(vs, now, u) = Opens([vs EXCEPT ![u].opening = FALSE], now, u)
      BY <1>2 DEF Settled
    <2>3. [vs EXCEPT ![u].opening = FALSE] = ws
      OBVIOUS
    <2>4. Settled(vs, now, u) = Opens(ws, now, u)
      BY <2>2, <2>3
    <2> HIDE DEF w
    <2>5. ws \in [Views -> View]
          /\ \A v \in Views : /\ ws[v].phase = vs[v].phase /\ ws[v].dead = vs[v].dead
                              /\ ws[v].panel = vs[v].panel
      BY <2>1
    <2> HIDE DEF ws
    <2>6. QED
      BY <2>4, <2>5, OpensShape
  <1>3. QED
    BY <1>1, <1>2 DEF View

LEMMA FreshIsTyped ==
    ASSUME NEW u \in Urls
    PROVE  /\ Fresh(Class(u), u = Panel) \in View
           /\ Fresh(Class(u), u = Panel).phase = "before"
           /\ Fresh(Class(u), u = Panel).dead = FALSE
           /\ Fresh(Class(u), u = Panel).panel = "none"
  <1>1. Class(u) \in Pages
    BY DEF Class, Urls
  <1>2. QED
    BY <1>1 DEF Fresh, View, Phases

\* Either the page stays and at most a panel opens, or the current view is
\* destroyed and a new one takes its place.
LEMMA GoesShape ==
    ASSUME TypeOK, NEW vs \in [Views -> View], NEW u \in Urls, Goes(vs, u),
           \A v \in Views : vs[v].phase # "unused" => v <= made
    PROVE  /\ views' \in [Views -> View] /\ made' \in 0..MaxViews /\ url' \in Urls
           /\ Replaced(u) \in Views \cup {None}
           /\ \A v \in Views : views'[v].phase # "unused" => v <= made'
           /\ \A v \in Views :
                vs[v].panel = "none" /\ views'[v].panel = "rendering"
                  => v = current /\ Replaced(u) = current
                       /\ vs[v].phase \in {"after", "shown"}
           /\ \/ /\ Replaced(u) = current
                 /\ \A v \in Views : /\ views'[v].phase = vs[v].phase
                                     /\ views'[v].dead = vs[v].dead
              \/ /\ Replaced(u) = made + 1 /\ made + 1 \in Views
                 /\ ~views'[made + 1].dead
                 /\ \A v \in Views \ {made + 1} :
                      /\ views'[v].phase = vs[v].phase
                      /\ views'[v].dead = (vs[v].dead \/ v = current)
  <1>1. made \in 0..MaxViews /\ current \in Views \cup {None} /\ MaxViews \in Nat
    BY DEF TypeOK
  <1>2. CASE Stays(u)
    <2>1. made' = made /\ url' = u /\ Replaced(u) = current
      BY <1>2 DEF Goes, Replaced
    <2>2. views' = Opens(vs, current, current) \/ views' = vs
      BY <1>2 DEF Goes
    <2>3. CASE views' = vs
      BY <1>1, <2>1, <2>3
    <2>4. CASE views' = Opens(vs, current, current)
      <3>1. /\ views' \in [Views -> View]
            /\ \A v \in Views :
                 /\ views'[v].phase = vs[v].phase /\ views'[v].dead = vs[v].dead
                 /\ vs[v].panel = "none" /\ views'[v].panel = "rendering"
                      => v = current /\ vs[v].phase \in {"after", "shown"}
        <4> DEFINE os == Opens(vs, current, current)
        <4>1. /\ os \in [Views -> View]
              /\ \A v \in Views :
                   /\ os[v].phase = vs[v].phase /\ os[v].dead = vs[v].dead
                   /\ vs[v].panel = "none" /\ os[v].panel = "rendering"
                        => v = current /\ vs[v].phase \in {"after", "shown"}
          BY <1>1, OpensShape
        <4> HIDE DEF os
        <4>2. views' = os
          BY <2>4 DEF os
        <4>3. QED
          BY <4>1, <4>2
      <3>2. QED
        BY <1>1, <2>1, <3>1
    <2>5. QED
      BY <2>2, <2>3, <2>4
  <1>3. CASE ~Stays(u)
    <2> DEFINE n == made + 1
               w == Fresh(Class(u), u = Panel)
    <2>1. made' = n /\ made < MaxViews /\ url' = u /\ Replaced(u) = n
      BY <1>3 DEF Goes, Replaced
    <2>2. n \in Views /\ n \in 0..MaxViews
      BY <1>1, <2>1 DEF Views
    <2>3. views' = [v \in Views |-> IF v = n THEN w
                                    ELSE IF v = current THEN [vs[v] EXCEPT !.dead = TRUE]
                                    ELSE vs[v]]
      BY <1>3 DEF Goes
    <2>4. w \in View /\ w.phase = "before" /\ w.dead = FALSE /\ w.panel = "none"
      BY FreshIsTyped
    <2> HIDE DEF w
    <2>5. \A v \in Views : /\ [vs[v] EXCEPT !.dead = TRUE] \in View
                           /\ [vs[v] EXCEPT !.dead = TRUE].phase = vs[v].phase
                           /\ [vs[v] EXCEPT !.dead = TRUE].panel = vs[v].panel
                           /\ [vs[v] EXCEPT !.dead = TRUE].dead = TRUE
                           /\ vs[v].dead \in BOOLEAN
      BY DEF View
    <2>6. views' \in [Views -> View]
      BY <2>3, <2>4, <2>5
    <2>7. views'[n] = w
      BY <2>2, <2>3
    <2>8. \A v \in Views \ {n} : /\ views'[v].phase = vs[v].phase
                                 /\ views'[v].panel = vs[v].panel
                                 /\ views'[v].dead = (vs[v].dead \/ v = current)
      BY <2>3, <2>5
    <2>9. \A v \in Views : views'[v].phase # "unused" => v <= made'
      BY <1>1, <2>1, <2>2, <2>8 DEF Views
    <2>10. \A v \in Views : ~(vs[v].panel = "none" /\ views'[v].panel = "rendering")
      BY <2>4, <2>7, <2>8
    <2>11. QED
      BY <2>1, <2>2, <2>4, <2>6, <2>7, <2>8, <2>9, <2>10
  <1>4. QED
    BY <1>2, <1>3

-----------------------------------------------------------------------------
(* Steps of one view.                                                      *)

\* What PanelsStartInCurrent says of a step.
PanelsOpenInCurrent ==
    \A v \in Views :
        views[v].panel = "none" /\ views'[v].panel = "rendering" => current' = v

Keeps == IInv' /\ PanelsOpenInCurrent

\* A view changes and is neither destroyed nor let go of.
LEMMA OneViewMoves ==
    ASSUME IInv, NEW v \in Views, NEW w \in View, views' = [views EXCEPT ![v] = w],
           w.dead = views[v].dead, w.phase # "unused" => views[v].phase # "unused",
           w.panel # "rendering" \/ views[v].panel # "none",
           UNCHANGED <<made, current, displayed, url>>
    PROVE  Keeps
  <1>1. TypeOK'
    BY DEF IInv, TypeOK
  <1>2. views'[v] = w /\ \A x \in Views \ {v} : views'[x] = views[x]
    BY DEF IInv, TypeOK
  <1>3. UsedAreMade' /\ LiveIsCurrent' /\ PanelsOpenInCurrent
    BY <1>2 DEF IInv, UsedAreMade, LiveIsCurrent, PanelsOpenInCurrent
  <1>4. QED
    BY <1>1, <1>3 DEF IInv, Keeps

\* A view settles: it stays as it is or is destroyed and not current any more.
LEMMA OneViewSettles ==
    ASSUME IInv, NEW v \in Views, NEW w \in View,
           views' = Settled([views EXCEPT ![v] = w], current', v),
           w.phase # "unused", views[v].phase # "unused", w.panel = views[v].panel,
           \/ current' = current /\ w.dead = views[v].dead
           \/ current' = NotShown(v, current) /\ w.dead = TRUE,
           displayed' \in Views \cup {None, ErrorPage}, UNCHANGED <<made, url>>
    PROVE  Keeps
  <1> DEFINE ws == [views EXCEPT ![v] = w]
  <1>1. ws \in [Views -> View] /\ ws[v] = w
        /\ \A x \in Views \ {v} : ws[x] = views[x]
    BY DEF IInv, TypeOK
  <1>2. current' \in Views \cup {None}
    BY DEF IInv, TypeOK, NotShown
  <1> HIDE DEF ws
  <1>3. views' = Settled(ws, current', v)
    BY DEF ws
  <1>4. /\ views' \in [Views -> View]
        /\ \A x \in Views :
             /\ views'[x].phase = ws[x].phase /\ views'[x].dead = ws[x].dead
             /\ ws[x].panel = "none" /\ views'[x].panel = "rendering" => x = current'
    <2> DEFINE os == Settled(ws, current', v)
    <2>1. /\ os \in [Views -> View]
          /\ \A x \in Views :
               /\ os[x].phase = ws[x].phase /\ os[x].dead = ws[x].dead
               /\ ws[x].panel = "none" /\ os[x].panel = "rendering" => x = current'
      BY <1>1, <1>2, SettledShape
    <2> HIDE DEF os
    <2>2. views' = os
      BY <1>3 DEF os
    <2>3. QED
      BY <2>1, <2>2
  <1>5. TypeOK'
    BY <1>2, <1>4 DEF IInv, TypeOK
  <1>6. UsedAreMade' /\ PanelsOpenInCurrent
    <2>1. \A x \in Views : (ws[x].phase # "unused" => views[x].phase # "unused")
                           /\ ws[x].panel = views[x].panel
      BY <1>1
    <2>2. UsedAreMade'
      BY <1>4, <2>1 DEF IInv, UsedAreMade
    <2>3. PanelsOpenInCurrent
      BY <1>4, <2>1 DEF PanelsOpenInCurrent
    <2>4. QED
      BY <2>2, <2>3
  <1>7. None \notin Views
    BY DEF Views
  <1>8. LiveIsCurrent'
    <2> SUFFICES ASSUME NEW x \in Views, views'[x].phase # "unused"
                 PROVE  ~views'[x].dead <=> current' = x
      BY DEF LiveIsCurrent
    <2>1. views'[x].dead = ws[x].dead /\ views[x].phase # "unused"
      BY <1>1, <1>4
    <2>2. ~views[x].dead <=> current = x
      BY <2>1 DEF IInv, LiveIsCurrent
    <2>3. CASE current' = current /\ w.dead = views[v].dead
      <3>1. ws[x].dead = views[x].dead
        BY <1>1, <2>3
      <3>2. QED
        BY <2>1, <2>2, <2>3, <3>1
    <2>4. CASE current' = NotShown(v, current) /\ w.dead = TRUE
      <3>1. CASE x = v
        <4>1. ws[x].dead = TRUE
          BY <1>1, <2>4, <3>1
        <4>2. current' # x
          BY <1>7, <2>4, <3>1 DEF NotShown
        <4>3. QED
          BY <2>1, <4>1, <4>2
      <3>2. CASE x # v
        <4>1. ws[x].dead = views[x].dead
          BY <1>1, <3>2
        <4>2. current' = x <=> current = x
          BY <1>7, <2>4, <3>2 DEF NotShown
        <4>3. QED
          BY <2>1, <2>2, <4>1, <4>2
      <3>3. QED
        BY <3>1, <3>2
    <2>5. QED
      BY <2>3, <2>4
  <1>9. QED
    BY <1>5, <1>6, <1>8 DEF IInv, Keeps

\* A view, or the user if vs is views, goes to u. If the view is destroyed it is
\* not current afterwards.
LEMMA OneViewGoes ==
    ASSUME IInv, NEW v \in Views, NEW w \in View, NEW u \in Urls,
           Goes([views EXCEPT ![v] = w], u),
           w.phase # "unused" => views[v].phase # "unused", w.panel = views[v].panel,
           \/ current' = Replaced(u) /\ w.dead = views[v].dead
           \/ current' = NotShown(v, Replaced(u)) /\ w.dead = TRUE
                /\ w.phase = "hidden",
           UNCHANGED displayed
    PROVE  Keeps
  <1> DEFINE ws == [views EXCEPT ![v] = w]
  <1>1. ws \in [Views -> View] /\ ws[v] = w
        /\ \A x \in Views \ {v} : ws[x] = views[x]
    BY DEF IInv, TypeOK
  <1>2. \A x \in Views : ws[x].phase # "unused" => x <= made
    BY <1>1 DEF IInv, UsedAreMade
  <1>3. Goes(ws, u) /\ TypeOK
    BY DEF IInv
  <1> HIDE DEF ws
  <1>4. /\ views' \in [Views -> View] /\ made' \in 0..MaxViews /\ url' \in Urls
        /\ Replaced(u) \in Views \cup {None}
        /\ \A x \in Views : views'[x].phase # "unused" => x <= made'
        /\ \A x \in Views :
             ws[x].panel = "none" /\ views'[x].panel = "rendering"
               => x = current /\ Replaced(u) = current
                    /\ ws[x].phase \in {"after", "shown"}
    BY <1>1, <1>2, <1>3, GoesShape
  <1>5. \/ /\ Replaced(u) = current
           /\ \A x \in Views : /\ views'[x].phase = ws[x].phase
                               /\ views'[x].dead = ws[x].dead
        \/ /\ Replaced(u) = made + 1 /\ made + 1 \in Views
           /\ ~views'[made + 1].dead
           /\ \A x \in Views \ {made + 1} :
                /\ views'[x].phase = ws[x].phase
                /\ views'[x].dead = (ws[x].dead \/ x = current)
    BY <1>1, <1>2, <1>3, GoesShape
  <1>6. None \notin Views /\ (w.phase # "unused" => v # made + 1)
    BY DEF IInv, TypeOK, UsedAreMade, Views
  <1>7. current' \in Views \cup {None}
    BY <1>4 DEF NotShown
  <1>8. TypeOK'
    BY <1>4, <1>7 DEF IInv, TypeOK
  <1>9. UsedAreMade'
    BY <1>4 DEF UsedAreMade
  <1>10. PanelsOpenInCurrent
    <2> SUFFICES ASSUME NEW x \in Views, views[x].panel = "none",
                        views'[x].panel = "rendering"
                 PROVE  current' = x
      BY DEF PanelsOpenInCurrent
    <2>1. ws[x].panel = "none"
      BY <1>1
    <2>2. x = current /\ Replaced(u) = current /\ ws[x].phase \in {"after", "shown"}
      BY <1>4, <2>1
    <2>3. CASE current' = Replaced(u)
      BY <2>2, <2>3
    <2>4. CASE current' = NotShown(v, Replaced(u)) /\ w.phase = "hidden"
      BY <1>1, <2>2, <2>4 DEF NotShown
    <2>5. QED
      BY <2>3, <2>4
  <1>11. LiveIsCurrent'
    <2> SUFFICES ASSUME NEW x \in Views, views'[x].phase # "unused"
                 PROVE  ~views'[x].dead <=> current' = x
      BY DEF LiveIsCurrent
    <2>1. \/ current' = Replaced(u) /\ (x = v => ws[x].dead = views[x].dead)
          \/ /\ current' = NotShown(v, Replaced(u)) /\ (x = v => ws[x].dead = TRUE)
             /\ w.phase # "unused"
      BY <1>1
    <2>2. x # v => ws[x].dead = views[x].dead
      BY <1>1
    <2>3. views[x].phase # "unused" => (~views[x].dead <=> current = x)
      BY DEF IInv, LiveIsCurrent
    <2>4. ws[x].phase # "unused" => views[x].phase # "unused"
      BY <1>1
    <2>5. ws[x].dead \in BOOLEAN /\ views'[x].dead \in BOOLEAN /\ views[x].dead \in BOOLEAN
      BY <1>1, <1>4 DEF IInv, TypeOK, View
    <2>6. CASE Replaced(u) = current /\ views'[x].phase = ws[x].phase
                 /\ views'[x].dead = ws[x].dead
      BY <1>6, <2>1, <2>2, <2>3, <2>4, <2>5, <2>6 DEF NotShown
    <2>7. CASE /\ Replaced(u) = made + 1 /\ made + 1 \in Views
               /\ ~views'[made + 1].dead
               /\ x # made + 1 => /\ views'[x].phase = ws[x].phase
                                  /\ views'[x].dead = (ws[x].dead \/ x = current)
      <3>1. current' = made + 1
        BY <1>6, <2>1, <2>7 DEF NotShown
      <3>2. CASE x = made + 1
        BY <2>7, <3>1, <3>2
      <3>3. CASE x # made + 1
        <4>1. views'[x].dead = (ws[x].dead \/ x = current) /\ views[x].phase # "unused"
          BY <2>4, <2>7, <3>3
        <4>2. ws[x].dead \/ x = current
          BY <2>1, <2>2, <2>3, <4>1
        <4>3. QED
          BY <3>1, <3>3, <4>1, <4>2
      <3>4. QED
        BY <3>2, <3>3
    <2>8. QED
      BY <1>5, <2>6, <2>7
  <1>12. QED
    BY <1>8, <1>9, <1>10, <1>11 DEF IInv, Keeps

-----------------------------------------------------------------------------
(* The actions.                                                            *)

LEMMA InitKeeps == Init => IInv
  <1> SUFFICES ASSUME Init PROVE IInv
    OBVIOUS
  <1> DEFINE w == [Fresh(Settings, FALSE) EXCEPT !.phase = "unused"]
  <1>1. w \in View /\ w.phase = "unused"
    BY DEF Fresh, View, Phases
  <1> HIDE DEF w
  <1>2. views = [v \in Views |-> w]
    BY DEF Init, w
  <1>3. views \in [Views -> View] /\ \A v \in Views : views[v].phase = "unused"
    BY <1>1, <1>2
  <1>4. TypeOK
    <2>1. 0 \in 0..MaxViews
      OBVIOUS
    <2>2. QED
      BY <1>3, <2>1 DEF Init, TypeOK
  <1>5. QED
    BY <1>3, <1>4 DEF IInv, UsedAreMade, LiveIsCurrent

LEMMA UserGoesKeeps ==
    ASSUME IInv, NEW u \in Urls, UserGoes(u)
    PROVE  Keeps
  <1>1. /\ views \in [Views -> View] /\ Goes(views, u) /\ TypeOK
        /\ \A v \in Views : views[v].phase # "unused" => v <= made
        /\ current' = Replaced(u) /\ displayed' = displayed
    BY DEF UserGoes, IInv, TypeOK, UsedAreMade
  <1>2. /\ views' \in [Views -> View] /\ made' \in 0..MaxViews /\ url' \in Urls
        /\ Replaced(u) \in Views \cup {None}
        /\ \A x \in Views : views'[x].phase # "unused" => x <= made'
        /\ \A x \in Views :
             views[x].panel = "none" /\ views'[x].panel = "rendering"
               => x = current /\ Replaced(u) = current
    BY <1>1, GoesShape
  <1>3. \/ /\ Replaced(u) = current
           /\ \A x \in Views : /\ views'[x].phase = views[x].phase
                               /\ views'[x].dead = views[x].dead
        \/ /\ Replaced(u) = made + 1 /\ made + 1 \in Views
           /\ ~views'[made + 1].dead
           /\ \A x \in Views \ {made + 1} :
                /\ views'[x].phase = views[x].phase
                /\ views'[x].dead = (views[x].dead \/ x = current)
    BY <1>1, GoesShape
  <1>4. TypeOK' /\ UsedAreMade' /\ PanelsOpenInCurrent
    BY <1>1, <1>2 DEF TypeOK, UsedAreMade, PanelsOpenInCurrent
  <1>5. LiveIsCurrent'
    <2> SUFFICES ASSUME NEW x \in Views, views'[x].phase # "unused"
                 PROVE  ~views'[x].dead <=> current' = x
      BY DEF LiveIsCurrent
    <2>1. views[x].phase # "unused" => (~views[x].dead <=> current = x)
      BY DEF IInv, LiveIsCurrent
    <2>2. views'[x].dead \in BOOLEAN /\ views[x].dead \in BOOLEAN
      BY <1>1, <1>2 DEF View
    <2>3. CASE Replaced(u) = current /\ views'[x].phase = views[x].phase
                 /\ views'[x].dead = views[x].dead
      BY <1>1, <2>1, <2>3
    <2>4. CASE /\ Replaced(u) = made + 1 /\ ~views'[made + 1].dead
               /\ x # made + 1 => /\ views'[x].phase = views[x].phase
                                  /\ views'[x].dead = (views[x].dead \/ x = current)
      BY <1>1, <2>1, <2>2, <2>4
    <2>5. QED
      BY <1>3, <2>3, <2>4
  <1>6. QED
    BY <1>4, <1>5 DEF IInv, Keeps

LEMMA RendersKeeps ==
    ASSUME IInv, NEW v \in Views, Renders(v)
    PROVE  Keeps
  <1> DEFINE w == [views[v] EXCEPT !.phase = "after"]
  <1>1. views[v] \in View
    BY DEF IInv, TypeOK
  <1>2. w \in View /\ w.phase = "after" /\ w.dead = views[v].dead
        /\ w.panel = views[v].panel
    BY <1>1 DEF View, Phases
  <1>3. views' = [views EXCEPT ![v] = w] /\ views[v].phase # "unused"
        /\ UNCHANGED <<made, current, displayed, url>>
    BY DEF Renders
  <1> HIDE DEF w
  <1>4. QED
    BY <1>2, <1>3, OneViewMoves

LEMMA RedirectsKeeps ==
    ASSUME IInv, NEW v \in Views, NEW u \in Urls, Redirects(v, u)
    PROVE  Keeps
  <1> DEFINE w == [views[v] EXCEPT !.phase = "hidden", !.moved = TRUE, !.dead = TRUE,
                                   !.opening = FALSE]
  <1>1. views[v] \in View
    BY DEF IInv, TypeOK
  <1>2. w \in View /\ w.phase = "hidden" /\ w.dead = TRUE /\ w.panel = views[v].panel
    BY <1>1 DEF View, Phases
  <1>3. [views EXCEPT ![v].phase = "hidden", ![v].moved = TRUE, ![v].dead = TRUE,
                      ![v].opening = FALSE] = [views EXCEPT ![v] = w]
    BY <1>1 DEF IInv, TypeOK, View
  <1>4. Goes([views EXCEPT ![v] = w], u) /\ views[v].phase # "unused"
        /\ current' = NotShown(v, Replaced(u)) /\ displayed' = displayed
    BY <1>3 DEF Redirects
  <1> HIDE DEF w
  <1>5. QED
    BY <1>2, <1>4, OneViewGoes

LEMMA HaltsKeeps ==
    ASSUME IInv, NEW v \in Views, NEW u \in Urls, Halts(v, u)
    PROVE  Keeps
  <1> DEFINE w == [views[v] EXCEPT !.phase = "halted", !.moved = TRUE]
  <1>1. views[v] \in View
    BY DEF IInv, TypeOK
  <1>2. w \in View /\ w.phase = "halted" /\ w.dead = views[v].dead
        /\ w.panel = views[v].panel
    BY <1>1 DEF View, Phases
  <1>3. [views EXCEPT ![v].phase = "halted", ![v].moved = TRUE] = [views EXCEPT ![v] = w]
    BY <1>1 DEF IInv, TypeOK, View
  <1>4. Goes([views EXCEPT ![v] = w], u) /\ views[v].phase # "unused"
        /\ current' = Replaced(u) /\ displayed' = displayed
    BY <1>3 DEF Halts
  <1> HIDE DEF w
  <1>5. QED
    BY <1>2, <1>4, OneViewGoes

LEMMA HidesKeeps ==
    ASSUME IInv, NEW v \in Views, Hides(v)
    PROVE  Keeps
  <1> DEFINE w == [views[v] EXCEPT !.phase = "hidden", !.dead = TRUE]
  <1>1. views[v] \in View
    BY DEF IInv, TypeOK
  <1>2. w \in View /\ w.phase = "hidden" /\ w.dead = TRUE /\ w.panel = views[v].panel
    BY <1>1 DEF View, Phases
  <1>3. [views EXCEPT ![v].phase = "hidden", ![v].dead = TRUE] = [views EXCEPT ![v] = w]
    BY <1>1 DEF IInv, TypeOK, View
  <1>4. views' = Settled([views EXCEPT ![v] = w], current', v)
        /\ views[v].phase # "unused" /\ current' = NotShown(v, current)
        /\ UNCHANGED <<made, url>>
    BY <1>3 DEF Hides
  <1>5. displayed' \in Views \cup {None, ErrorPage}
    BY DEF Hides, IInv, TypeOK
  <1> HIDE DEF w
  <1>6. QED
    BY <1>2, <1>4, <1>5, OneViewSettles

LEMMA ThrowsKeeps ==
    ASSUME IInv, NEW v \in Views, Throws(v)
    PROVE  Keeps
  <1> DEFINE w == [views[v] EXCEPT !.phase = "failed"]
  <1>1. views[v] \in View
    BY DEF IInv, TypeOK
  <1>2. w \in View /\ w.phase = "failed" /\ w.dead = views[v].dead
        /\ w.panel = views[v].panel
    BY <1>1 DEF View, Phases
  <1>3. views' = Settled([views EXCEPT ![v] = w], current', v)
        /\ views[v].phase # "unused" /\ current' = current
        /\ displayed' = ErrorPage /\ UNCHANGED <<made, url>>
    BY DEF Throws
  <1> HIDE DEF w
  <1>4. QED
    BY <1>2, <1>3, OneViewSettles

LEMMA DisplaysKeeps ==
    ASSUME IInv, NEW v \in Views, Displays(v)
    PROVE  Keeps
  <1> DEFINE w == [views[v] EXCEPT !.phase = "shown"]
  <1>1. views[v] \in View
    BY DEF IInv, TypeOK
  <1>2. w \in View /\ w.phase = "shown" /\ w.dead = views[v].dead
        /\ w.panel = views[v].panel
    BY <1>1 DEF View, Phases
  <1>3. views' = Settled([views EXCEPT ![v] = w], current', v)
        /\ views[v].phase # "unused" /\ current' = current
        /\ displayed' = v /\ UNCHANGED <<made, url>>
    BY DEF Displays
  <1> HIDE DEF w
  <1>4. QED
    BY <1>2, <1>3, OneViewSettles

LEMMA PanelRenderedKeeps ==
    ASSUME IInv, NEW v \in Views, PanelRendered(v)
    PROVE  Keeps
  <1> PICK p \in {"open", "none"} : views' = [views EXCEPT ![v].panel = p]
    BY DEF PanelRendered
  <1> DEFINE w == [views[v] EXCEPT !.panel = p]
  <1>1. views[v] \in View
    BY DEF IInv, TypeOK
  <1>2. w \in View /\ w.phase = views[v].phase /\ w.dead = views[v].dead
        /\ w.panel # "rendering"
    BY <1>1 DEF View
  <1>3. views' = [views EXCEPT ![v] = w] /\ UNCHANGED <<made, current, displayed, url>>
    BY DEF PanelRendered
  <1> HIDE DEF w
  <1>4. QED
    BY <1>2, <1>3, OneViewMoves

LEMMA FocusKeeps ==
    ASSUME IInv, NEW v \in Views, Focus(v)
    PROVE  Keeps
  <1> DEFINE w == [views[v] EXCEPT !.checking = TRUE]
  <1>1. views[v] \in View
    BY DEF IInv, TypeOK
  <1>2. w \in View /\ w.phase = views[v].phase /\ w.dead = views[v].dead
        /\ w.panel = views[v].panel
    BY <1>1 DEF View
  <1>3. views' = [views EXCEPT ![v] = w] /\ views[v].phase # "unused"
        /\ UNCHANGED <<made, current, displayed, url>>
    BY DEF Focus
  <1> HIDE DEF w
  <1>4. QED
    BY <1>2, <1>3, OneViewMoves

LEMMA CheckEndsKeeps ==
    ASSUME IInv, NEW v \in Views, CheckEnds(v)
    PROVE  Keeps
  <1> DEFINE w == [views[v] EXCEPT !.checking = FALSE]
             x == [views[v] EXCEPT !.checking = FALSE, !.moved = TRUE]
  <1>1. views[v] \in View
    BY DEF IInv, TypeOK
  <1>2. w \in View /\ w.phase = views[v].phase /\ w.dead = views[v].dead
        /\ w.panel = views[v].panel
    BY <1>1 DEF View
  <1>3. x \in View /\ x.phase = views[v].phase /\ x.dead = views[v].dead
        /\ x.panel = views[v].panel
    BY <1>1 DEF View
  <1>4. [views EXCEPT ![v].checking = FALSE, ![v].moved = TRUE] = [views EXCEPT ![v] = x]
    BY <1>1 DEF IInv, TypeOK, View
  <1>5. displayed' = displayed
    BY DEF CheckEnds
  <1>6. \/ views' = [views EXCEPT ![v] = w] /\ UNCHANGED <<made, current, url>>
        \/ \E u \in Pages : Goes([views EXCEPT ![v] = x], u) /\ current' = Replaced(u)
    BY <1>4 DEF CheckEnds
  <1> HIDE DEF w, x
  <1>7. CASE views' = [views EXCEPT ![v] = w] /\ UNCHANGED <<made, current, url>>
    BY <1>2, <1>5, <1>7, OneViewMoves
  <1>8. CASE \E u \in Pages : Goes([views EXCEPT ![v] = x], u) /\ current' = Replaced(u)
    <2>1. PICK u \in Urls : Goes([views EXCEPT ![v] = x], u) /\ current' = Replaced(u)
      BY <1>8 DEF Urls
    <2>2. QED
      BY <1>3, <1>5, <2>1, OneViewGoes
  <1>9. QED
    BY <1>6, <1>7, <1>8

LEMMA StutterKeeps ==
    ASSUME IInv, UNCHANGED vars
    PROVE  Keeps
  BY DEF vars, IInv, TypeOK, UsedAreMade, LiveIsCurrent, PanelsOpenInCurrent, Keeps

LEMMA NextKeeps ==
    ASSUME IInv, [Next]_vars
    PROVE  Keeps
  <1>1. ASSUME NEW u \in Urls, UserGoes(u)
        PROVE  Keeps
    BY <1>1, UserGoesKeeps
  <1>2. ASSUME NEW v \in Views,
               \/ Renders(v) \/ Hides(v) \/ Throws(v) \/ Displays(v)
               \/ PanelRendered(v) \/ Focus(v) \/ CheckEnds(v)
        PROVE  Keeps
    BY <1>2, RendersKeeps, HidesKeeps, ThrowsKeeps, DisplaysKeeps,
       PanelRenderedKeeps, FocusKeeps, CheckEndsKeeps
  <1>3. ASSUME NEW v \in Views, NEW u \in Urls, Redirects(v, u) \/ Halts(v, u)
        PROVE  Keeps
    BY <1>3, RedirectsKeeps, HaltsKeeps
  <1>4. QED
    BY <1>1, <1>2, <1>3, StutterKeeps DEF Next

LEMMA Invariance == Spec => []IInv
  <1>1. IInv /\ [Next]_vars => IInv'
    BY NextKeeps DEF Keeps
  <1>2. QED
    BY InitKeeps, <1>1, PTL DEF Spec

-----------------------------------------------------------------------------

\* Every reachable state is well typed: current and displayed name views that
\* were created.
THEOREM NavigationTypeCorrect == Spec => []TypeOK
  <1>1. IInv => TypeOK
    BY DEF IInv
  <1>2. QED
    BY Invariance, <1>1, PTL

\* Of all the views that were created only the current one has not been
\* destroyed, for any number of views that render at once. (app.js, showView)
THEOREM OnlyCurrentIsLive == Spec => []LiveIsCurrent
  <1>1. IInv => LiveIsCurrent
    BY DEF IInv
  <1>2. QED
    BY Invariance, <1>1, PTL

\* A panel is rendered into the settings view that is current when its turn
\* comes. (app.js, showChildView)
THEOREM PanelsOpenInCurrentView == Spec => PanelsStartInCurrent
  <1>1. IInv /\ [Next]_vars => [PanelsOpenInCurrent]_vars
    BY NextKeeps DEF Keeps
  <1>2. PanelsStartInCurrent <=> [][PanelsOpenInCurrent]_vars
    BY PTL DEF PanelsStartInCurrent, PanelsOpenInCurrent
  <1>3. QED
    BY Invariance, <1>1, <1>2, PTL DEF Spec
=============================================================================
