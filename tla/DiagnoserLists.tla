--------------------------- MODULE DiagnoserLists ---------------------------
(***************************************************************************)
(* One diagnoser in the drill-down of the DaaS page (DaaS.js): two icons,  *)
(* which expand and collapse the lists of its logs and of its reports.     *)
(* A list slides element by element, on timers; the timer of the page      *)
(* refreshes the icons and adds files meanwhile, with replies that may be  *)
(* older than the last one applied.                                        *)
(***************************************************************************)
EXTENDS Integers, Sequences

CONSTANTS MaxFiles,     \* bound on the files of a list
          MaxHandlers   \* bound on the click handlers of an icon (more count as so many)

ASSUME ListsAssumption == MaxFiles \in Nat /\ MaxHandlers \in Nat \ {0}

List == {"logs", "reports"}         \* a list and the icon above it
Expanded == [logs |-> "logsexpanded", reports |-> "reportsexpanded"]
Other == [logs |-> "reports", reports |-> "logs"]

VARIABLES
  files,        \* the server: the files of each list; they are listed in order
  finished,     \* the server: the collector, or the analyzer, is Complete
  class,        \* collapsed, transitioning, logsexpanded or reportsexpanded
  walk,         \* the transition: the list it is at, which way, and its goal
  shown,        \* the elements of each list, TRUE when displayed
  slides,       \* the slides under way, the one that ends first in front
  complete,     \* the icon is the log or report icon
  handlers      \* the click handlers bound to the icon

serverVars == <<files, finished>>
iconVars == <<complete, handlers>>
listsVars == <<serverVars, class, walk, shown, slides, iconVars>>

------------------------------------------------------------------------------
AtRest == [list |-> "logs", down |-> FALSE, at |-> 0, last |-> TRUE, goal |-> "collapsed"]
Node == [class |-> class, walk |-> walk]
Ended(goal) == [class |-> goal, walk |-> AtRest]

\* StartExpandingList: from the last element up; an empty list is complete at once.
StartExpanding(list) ==
  IF shown[list] = <<>> THEN Ended(Expanded[list])
  ELSE [class |-> "transitioning",
        walk |-> [list |-> list, down |-> TRUE, at |-> Len(shown[list]), last |-> FALSE,
                  goal |-> Expanded[list]]]

AfterCollapse(goal) ==
  IF goal = "collapsed" THEN Ended(goal)
  ELSE StartExpanding(CHOOSE l \in List : Expanded[l] = goal)

\* StartCollapsingList: from the first element down.
StartCollapsing(list, goal) ==
  IF shown[list] = <<>> THEN AfterCollapse(goal)
  ELSE [class |-> "transitioning",
        walk |-> [list |-> list, down |-> FALSE, at |-> 1, last |-> FALSE, goal |-> goal]]

\* Mutant: the other list stays open.
HandleOwnList(node, icon) ==
  CASE node.class = "transitioning"  -> node
    [] node.class = Expanded[icon]   -> StartCollapsing(icon, "collapsed")
    [] OTHER                         -> StartExpanding(icon)

\* The click handler of an icon.
Handle(node, icon) ==
  CASE node.class = "transitioning"         -> node
    [] node.class = "collapsed"             -> StartExpanding(icon)
    [] node.class = Expanded[icon]          -> StartCollapsing(icon, "collapsed")
    [] node.class = Expanded[Other[icon]]   -> StartCollapsing(Other[icon], Expanded[icon])

\* A click runs every handler that was bound to the icon.
Handled(icon) ==
  LET after[n \in 0..MaxHandlers] == IF n = 0 THEN Node ELSE Handle(after[n - 1], icon)
  IN after[handlers[icon]]

ClickIcon(icon) ==
  /\ handlers[icon] > 0
  /\ class' = Handled(icon).class /\ walk' = Handled(icon).walk
  /\ UNCHANGED <<serverVars, shown, slides, iconVars>>

------------------------------------------------------------------------------
(* CollapseList and ExpandList.                                            *)

Over == IF walk.down THEN Ended(walk.goal) ELSE AfterCollapse(walk.goal)

\* The slides of an element under way.
Slides(list, k) == {i \in DOMAIN slides : slides[i].list = list /\ slides[i].at = k}

\* Where it ends up when they are over: where the last one takes it.
Target(list, k) ==
  \/ Slides(list, k) = {} /\ shown[list][k]
  \/ \E i \in Slides(list, k) : slides[i].down /\ \A j \in Slides(list, k) : j <= i

\* The next element slides, 200 ms after the one before it.  An element that is
\* where the slide would take it does not slide, and if it is the last one of the
\* walk the walk is over.
Walk ==
  /\ class = "transitioning" /\ ~walk.last
  /\ LET next == IF walk.down THEN walk.at - 1 ELSE walk.at + 1
         lastOne == next \notin DOMAIN shown[walk.list]
         still == Slides(walk.list, walk.at) = {} /\ shown[walk.list][walk.at] = walk.down
     IN /\ slides' = IF still THEN slides
                     ELSE Append(slides, [list |-> walk.list, at |-> walk.at, down |-> walk.down])
        /\ IF lastOne /\ still
           THEN class' = Over.class /\ walk' = Over.walk
           ELSE /\ walk' = [walk EXCEPT !.at = IF lastOne THEN @ ELSE next, !.last = lastOne]
                /\ UNCHANGED class
  /\ UNCHANGED <<serverVars, shown, iconVars>>

\* Mutant: the slide of the last element does not complete the transition.
SlideOnly ==
  /\ slides # <<>>
  /\ slides' = Tail(slides)
  /\ shown' = [shown EXCEPT ![Head(slides).list][Head(slides).at] = Head(slides).down]
  /\ UNCHANGED <<class, walk, serverVars, iconVars>>

\* Slides take the same time: the first one that started ends first, at the latest
\* when the last element of the walk has slid.
SlideEnds ==
  /\ slides # <<>>
  /\ LET s == Head(slides)
         mine == walk.last /\ walk.list = s.list /\ walk.at = s.at /\ walk.down = s.down
     IN /\ slides' = Tail(slides)
        /\ shown' = [shown EXCEPT ![s.list][s.at] = s.down]
        /\ IF class = "transitioning" /\ mine
           THEN class' = Over.class /\ walk' = Over.walk
           ELSE UNCHANGED <<class, walk>>
  /\ UNCHANGED <<serverVars, iconVars>>

------------------------------------------------------------------------------
(* The server and the refresh.                                             *)

Produce(list) ==
  /\ files[list] < MaxFiles
  /\ files' = [files EXCEPT ![list] = @ + 1]
  /\ UNCHANGED <<finished, class, walk, shown, slides, iconVars>>

Finish(list) ==
  /\ ~finished[list]
  /\ finished' = [finished EXCEPT ![list] = TRUE]
  /\ UNCHANGED <<files, class, walk, shown, slides, iconVars>>

\* RefreshDiagnoserWide binds the handler whenever the icon changes to one that
\* opens a list.
RefreshDiagnoserWide(body) ==
  /\ complete' = [l \in List |-> body[l].complete]
  /\ handlers' = [l \in List |->
       IF ~complete[l] /\ body[l].complete /\ handlers[l] < MaxHandlers
       THEN handlers[l] + 1 ELSE handlers[l]]

\* Mutant: the files are appended also while the lists are moving.
RefreshMovingList(body) ==
  shown' = [l \in List |-> shown[l] \o [k \in 1..(body[l].files - Len(shown[l])) |-> FALSE]]

\* The missing files are appended, and not displayed, unless the lists are moving.
RefreshExpandableList(body) ==
  shown' = [l \in List |->
    IF class = "transitioning" THEN shown[l]
    ELSE shown[l] \o [k \in 1..(body[l].files - Len(shown[l])) |-> FALSE]]

RefreshSessionInDrilldown(body) ==
  /\ RefreshDiagnoserWide(body) /\ RefreshExpandableList(body)
  /\ UNCHANGED <<serverVars, class, walk, slides>>

\* What the server holds, and what it held when an earlier reply was sent.
Newest == [l \in List |-> [files |-> files[l], complete |-> finished[l]]]
Body == [List -> [files : 0..MaxFiles, complete : BOOLEAN]]
Held(body) == \A l \in List :
  body[l].files <= files[l] /\ (body[l].complete => finished[l])

\* PopulateSessionView fills the drill-down with the first reply.
ListsInit ==
  /\ files \in [List -> 0..MaxFiles] /\ finished \in [List -> BOOLEAN]
  /\ class = "collapsed" /\ walk = AtRest /\ slides = <<>>
  /\ shown = [l \in List |-> [k \in 1..files[l] |-> FALSE]]
  /\ complete = finished
  /\ handlers = [l \in List |-> IF finished[l] THEN 1 ELSE 0]

ListsNext ==
  \/ \E list \in List : Produce(list) \/ Finish(list) \/ ClickIcon(list)
  \/ \E body \in Body : Held(body) /\ RefreshSessionInDrilldown(body)
  \/ Walk
  \/ SlideEnds

ListsSpec == ListsInit /\ [][ListsNext]_listsVars

\* Timers fire and slides end; a refresh brings the newest reply again and again,
\* also between the transitions, however often the user starts one.
ListsFairness ==
  /\ WF_listsVars(Walk) /\ WF_listsVars(SlideEnds)
  /\ SF_listsVars(class # "transitioning" /\ RefreshSessionInDrilldown(Newest))

FairListsSpec == ListsSpec /\ ListsFairness

------------------------------------------------------------------------------
ListsTypeOK ==
  /\ files \in [List -> 0..MaxFiles] /\ finished \in [List -> BOOLEAN]
  /\ class \in {"collapsed", "transitioning", "logsexpanded", "reportsexpanded"}
  /\ walk \in [list : List, down : BOOLEAN, at : 0..MaxFiles, last : BOOLEAN,
                goal : {"collapsed", "logsexpanded", "reportsexpanded"}]
  /\ shown \in [List -> Seq(BOOLEAN)] /\ \A l \in List : Len(shown[l]) <= files[l]
  /\ slides \in Seq([list : List, at : 1..MaxFiles, down : BOOLEAN])
  /\ complete \in [List -> BOOLEAN] /\ handlers \in [List -> 0..MaxHandlers]

\* Outside a transition the list that is not expanded is gone, or on its way: the
\* logs and the reports of a diagnoser never stay on the screen together.
OneListShown ==
  \A l \in List : class \notin {"transitioning", Expanded[l]} =>
    \A k \in DOMAIN shown[l] : ~Target(l, k)

\* A list that was just expanded shows all it lists, even the files that were added
\* out of sight while it was expanded before.
ExpandedShowsAll ==
  [][\A l \in List : class # Expanded[l] /\ class' = Expanded[l] =>
       \A k \in DOMAIN shown[l] : shown'[l][k]]_listsVars

\* A transition ends, and leaves no slide behind for ever.
TransitionEnds == class = "transitioning" ~> class # "transitioning"

\* Files that a refresh passed over, because the lists moved, are listed later: the
\* lists catch up with the server (whose files are bounded) again and again.
EventuallyListed == []<>(\A l \in List : Len(shown[l]) = files[l])

\* Whatever the clicks, slides and refreshes do to each other, the lists come to rest
\* and catch up with the server.
ListsSettle == TransitionEnds /\ EventuallyListed

==============================================================================
