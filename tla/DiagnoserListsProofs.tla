------------------------ MODULE DiagnoserListsProofs ------------------------
(***************************************************************************)
(* Theorems about DiagnoserLists, for every bound on the files and on the  *)
(* click handlers.                                                         *)
(*                                                                         *)
(* The invariant is about where the elements end up when the slides under  *)
(* way are over.  While a list collapses, the elements behind the walk end *)
(* up hidden, and so does the whole other list; while one expands, exactly *)
(* the elements behind the walk end up displayed, and the slides down that *)
(* are under way are those of this walk, in its order, so that the last    *)
(* one is the last slide of all.                                           *)
(*                                                                         *)
(* Its parts take the elements and the slides as parameters: a step is     *)
(* judged by the ones after it.                                            *)
(***************************************************************************)
EXTENDS DiagnoserLists, SequenceTheorems, WellFoundedInduction, TLAPS

Goal == {"collapsed", "logsexpanded", "reportsexpanded"}
Class == Goal \cup {"transitioning"}
WalkType == [list : List, down : BOOLEAN, at : 0..MaxFiles, last : BOOLEAN, goal : Goal]
Slide == [list : List, at : 1..MaxFiles, down : BOOLEAN]

\* The lists are on the page, and only elements of theirs slide.
Placed(sh, sl) ==
  /\ sh \in [List -> Seq(BOOLEAN)] /\ \A l \in List : Len(sh[l]) <= MaxFiles
  /\ sl \in Seq(Slide) /\ \A i \in 1..Len(sl) : sl[i].at <= Len(sh[sl[i].list])

\* Target, of given elements and slides.
Own(sl, l, k) == {i \in 1..Len(sl) : sl[i].list = l /\ sl[i].at = k}
Goes(sh, sl, l, k) ==
  \/ Own(sl, l, k) = {} /\ sh[l][k]
  \/ \E i \in Own(sl, l, k) : sl[i].down /\ \A j \in Own(sl, l, k) : j <= i

Hidden(sh, sl, l) == \A k \in 1..Len(sh[l]) : ~Goes(sh, sl, l, k)
NoDowns(sl) == \A i \in 1..Len(sl) : ~sl[i].down

\* Between transitions nothing slides down, and the lists that are not expanded are
\* hidden.
Rests(sh, sl, node) == node.class # "transitioning" =>
  /\ NoDowns(sl) /\ node.walk = AtRest
  /\ \A l \in List : node.class # Expanded[l] => Hidden(sh, sl, l)

\* The walk has taken the element.
Passed(w, k) == IF w.down THEN k > w.at \/ (w.last /\ k = w.at)
                          ELSE k < w.at \/ (w.last /\ k = w.at)

Collapses(sh, sl, node) == node.class = "transitioning" /\ ~node.walk.down =>
  LET w == node.walk
  IN /\ NoDowns(sl) /\ Hidden(sh, sl, Other[w.list])
     /\ w.at \in 1..Len(sh[w.list]) /\ (w.last => w.at = Len(sh[w.list]))
     /\ \A k \in 1..Len(sh[w.list]) : Passed(w, k) => ~Goes(sh, sl, w.list, k)
     /\ w.goal \in {"collapsed", Expanded[Other[w.list]]}

Expands(sh, sl, node) == node.class = "transitioning" /\ node.walk.down =>
  LET w == node.walk
  IN /\ Hidden(sh, sl, Other[w.list])
     /\ w.at \in 1..Len(sh[w.list]) /\ (w.last => w.at = 1)
     /\ \A k \in 1..Len(sh[w.list]) : Goes(sh, sl, w.list, k) <=> Passed(w, k)
     /\ w.goal = Expanded[w.list]
     /\ w.last => Len(sl) > 0 /\ sl[Len(sl)] = [list |-> w.list, at |-> 1, down |-> TRUE]
     /\ \A i \in 1..Len(sl) : sl[i].down => sl[i].list = w.list /\ Passed(w, sl[i].at)
     /\ \A i, j \in 1..Len(sl) : i < j /\ sl[i].down /\ sl[j].down => sl[i].at > sl[j].at

NodeType == [class : Class, walk : WalkType]
NodeInv(sh, sl, node) ==
  /\ node \in NodeType
  /\ Rests(sh, sl, node) /\ Collapses(sh, sl, node) /\ Expands(sh, sl, node)

ListsInv ==
  /\ ListsTypeOK
  /\ Placed(shown, slides) /\ NodeInv(shown, slides, Node)

\* StartExpanding and AfterCollapse, of given elements.
Start(sh, list) ==
  IF sh[list] = <<>> THEN Ended(Expanded[list])
  ELSE [class |-> "transitioning",
        walk |-> [list |-> list, down |-> TRUE, at |-> Len(sh[list]), last |-> FALSE,
                  goal |-> Expanded[list]]]
After(sh, goal) ==
  IF goal = "collapsed" THEN Ended(goal)
  ELSE Start(sh, CHOOSE l \in List : Expanded[l] = goal)

-----------------------------------------------------------------------------
(* The two lists                                                           *)

\* There are two lists.
LEMMA TwoLists ==
  /\ List = {"logs", "reports"}
  /\ \A l \in List : Other[l] \in List /\ Other[l] # l /\ Expanded[l] \in Goal
                     /\ Expanded[l] # "collapsed" /\ Expanded[l] # "transitioning"
                     /\ Expanded[Other[l]] # Expanded[l] /\ Other[Other[l]] = l
  /\ \A l, m \in List : Expanded[l] = Expanded[m] => l = m
  /\ \A l, m \in List : m # l => m = Other[l]
BY DEF List, Other, Expanded, Goal

\* The list a goal is about.
LEMMA ListOfGoal ==
  ASSUME NEW l \in List PROVE (CHOOSE m \in List : Expanded[m] = Expanded[l]) = l
BY TwoLists

\* The control state at rest is a control state.
LEMMA EndedIsNode ==
  ASSUME NEW goal \in Goal
  PROVE  /\ Ended(goal) \in NodeType /\ Ended(goal).class = goal /\ Ended(goal).walk = AtRest
         /\ goal # "transitioning"
BY ListsAssumption DEF Ended, AtRest, NodeType, WalkType, Class, Goal, List

\* A list starts to expand when both lists are hidden; an empty one is expanded.
LEMMA StartInv ==
  ASSUME NEW sh, NEW sl, Placed(sh, sl), NoDowns(sl),
         \A l \in List : Hidden(sh, sl, l), NEW list \in List
  PROVE  /\ NodeInv(sh, sl, Start(sh, list))
         /\ \A l \in List : Start(sh, list).class = Expanded[l] => sh[l] = <<>>
<1> DEFINE node == Start(sh, list)
<1>1. CASE sh[list] = <<>>
  <2>1. node = Ended(Expanded[list])
    BY <1>1 DEF Start
  <2>2. node \in NodeType /\ node.class = Expanded[list] /\ node.walk = AtRest
        /\ node.class # "transitioning"
    BY <2>1, EndedIsNode, TwoLists
  <2> HIDE DEF node
  <2>3. NodeInv(sh, sl, node)
    BY <2>2 DEF NodeInv, Rests, Collapses, Expands
  <2>4. \A l \in List : node.class = Expanded[l] => sh[l] = <<>>
    BY <2>2, <1>1, TwoLists
  <2> QED
    BY <2>3, <2>4 DEF node
<1>2. CASE sh[list] # <<>>
  <2> DEFINE n == Len(sh[list])
  <2>1. n \in 1..MaxFiles
    BY <1>2, LenProperties, EmptySeq, ListsAssumption DEF Placed
  <2>2. /\ node.class = "transitioning" /\ node.walk.list = list /\ node.walk.down = TRUE
        /\ node.walk.at = n /\ node.walk.last = FALSE /\ node.walk.goal = Expanded[list]
    BY <1>2 DEF Start
  <2>3. node \in NodeType
    BY <1>2, <2>1, TwoLists DEF Start, NodeType, Class, WalkType
  <2> HIDE DEF node, n
  <2>4. \A k \in 1..Len(sh[list]) : ~Passed(node.walk, k) /\ ~Goes(sh, sl, list, k)
    BY <2>1, <2>2 DEF Passed, Hidden, n
  <2>5. Expands(sh, sl, node)
    BY <2>1, <2>2, <2>4, TwoLists DEF Expands, NoDowns, n
  <2>6. NodeInv(sh, sl, node)
    BY <2>2, <2>3, <2>5 DEF NodeInv, Rests, Collapses
  <2>7. \A l \in List : node.class # Expanded[l]
    BY <2>2, TwoLists
  <2> QED
    BY <2>6, <2>7 DEF node
<1> QED
  BY <1>1, <1>2

\* So it does when the other one has collapsed.
LEMMA AfterInv ==
  ASSUME NEW sh, NEW sl, Placed(sh, sl), NoDowns(sl),
         \A l \in List : Hidden(sh, sl, l), NEW goal \in Goal
  PROVE  /\ NodeInv(sh, sl, After(sh, goal))
         /\ \A l \in List : After(sh, goal).class = Expanded[l] => sh[l] = <<>>
<1>1. CASE goal = "collapsed"
  <2>1. After(sh, goal) = Ended(goal)
    BY <1>1 DEF After
  <2>2. \A l \in List : goal # Expanded[l]
    BY <1>1, TwoLists
  <2> QED
    BY <2>1, <2>2, EndedIsNode DEF NodeInv, Rests, Collapses, Expands
<1>2. CASE goal # "collapsed"
  <2>1. PICK l \in List : goal = Expanded[l]
    BY <1>2 DEF Goal, List, Expanded
  <2>2. After(sh, goal) = Start(sh, l)
    BY <1>2, <2>1, ListOfGoal DEF After
  <2> QED
    BY <2>2, StartInv
<1> QED
  BY <1>1, <1>2

\* The module's operators are these, of the elements that are shown.
LEMMA Named ==
  /\ \A l \in List : StartExpanding(l) = Start(shown, l)
  /\ \A goal : AfterCollapse(goal) = After(shown, goal)
BY DEF StartExpanding, Start, AfterCollapse, After

\* A list starts to collapse while the other one is hidden.
LEMMA StartCollapsingInv ==
  ASSUME Placed(shown, slides), NoDowns(slides), NEW list \in List,
         Hidden(shown, slides, Other[list]),
         NEW goal \in {"collapsed", Expanded[Other[list]]}
  PROVE  /\ NodeInv(shown, slides, StartCollapsing(list, goal))
         /\ \A l \in List : StartCollapsing(list, goal).class = Expanded[l] => shown[l] = <<>>
<1> DEFINE node == StartCollapsing(list, goal)
<1>0. goal \in Goal
  BY TwoLists DEF Goal
<1>1. CASE shown[list] = <<>>
  <2>1. node = After(shown, goal)
    BY <1>1, Named DEF StartCollapsing
  <2>2. Len(shown[list]) = 0
    BY <1>1
  <2>3. Hidden(shown, slides, list)
    BY <2>2 DEF Hidden
  <2>4. \A l \in List : Hidden(shown, slides, l)
    BY <2>3, TwoLists
  <2> QED
    BY <1>0, <2>1, <2>4, AfterInv
<1>2. CASE shown[list] # <<>>
  <2>1. Len(shown[list]) \in 1..MaxFiles
    BY <1>2, LenProperties, EmptySeq, ListsAssumption DEF Placed
  <2>2. /\ node.class = "transitioning" /\ node.walk.list = list /\ node.walk.down = FALSE
        /\ node.walk.at = 1 /\ node.walk.last = FALSE /\ node.walk.goal = goal
    BY <1>2 DEF StartCollapsing
  <2>3. node \in NodeType
    BY <1>0, <1>2, <2>1, ListsAssumption DEF StartCollapsing, NodeType, Class, WalkType
  <2> HIDE DEF node
  <2>4. \A k \in 1..Len(shown[list]) : ~Passed(node.walk, k)
    BY <2>1, <2>2 DEF Passed
  <2>5. Collapses(shown, slides, node)
    BY <2>1, <2>2, <2>4 DEF Collapses
  <2>6. NodeInv(shown, slides, node)
    BY <2>2, <2>3, <2>5 DEF NodeInv, Rests, Expands
  <2>7. \A l \in List : node.class # Expanded[l]
    BY <2>2, TwoLists
  <2> QED
    BY <2>6, <2>7 DEF node
<1> QED
  BY <1>1, <1>2


-----------------------------------------------------------------------------
(* Clicks                                                                  *)

\* A node that a click may lead to: no list was expanded by it but an empty one.
Clicked(node) ==
  /\ NodeInv(shown, slides, node)
  /\ \A l \in List : node.class = Expanded[l] => class = Expanded[l] \/ shown[l] = <<>>

\* One handler leads from such a node to such a node.
LEMMA HandleStep ==
  ASSUME Placed(shown, slides), NEW node, Clicked(node), NEW icon \in List
  PROVE  Clicked(Handle(node, icon))
<1>1. node.class \in Class
  BY DEF Clicked, NodeInv, NodeType
<1>2. CASE node.class = "transitioning"
  <2>1. Handle(node, icon) = node
    BY <1>2, TwoLists DEF Handle
  <2> QED
    BY <2>1
<1>3. CASE node.class = "collapsed"
  <2>1. Handle(node, icon) = Start(shown, icon)
    BY <1>3, Named, TwoLists DEF Handle
  <2>2. NoDowns(slides) /\ \A l \in List : Hidden(shown, slides, l)
    BY <1>3, TwoLists DEF Clicked, NodeInv, Rests
  <2> QED
    BY <2>1, <2>2, StartInv DEF Clicked
<1>4. CASE node.class = Expanded[icon]
  <2>1. Handle(node, icon) = StartCollapsing(icon, "collapsed")
    BY <1>4, TwoLists DEF Handle
  <2>2. NoDowns(slides) /\ Hidden(shown, slides, Other[icon])
    BY <1>4, TwoLists DEF Clicked, NodeInv, Rests
  <2> QED
    BY <2>1, <2>2, StartCollapsingInv DEF Clicked
<1>5. CASE node.class = Expanded[Other[icon]]
  <2>1. Handle(node, icon) = StartCollapsing(Other[icon], Expanded[icon])
    BY <1>5, TwoLists DEF Handle
  <2>2. NoDowns(slides) /\ Hidden(shown, slides, icon)
    BY <1>5, TwoLists DEF Clicked, NodeInv, Rests
  <2>3. Other[icon] \in List /\ Other[Other[icon]] = icon
    BY TwoLists
  <2>4. Clicked(StartCollapsing(Other[icon], Expanded[Other[Other[icon]]]))
    BY <2>2, <2>3, StartCollapsingInv DEF Clicked
  <2> QED
    BY <2>1, <2>3, <2>4
<1> QED
  <2>1. icon = "logs" \/ icon = "reports"
    BY TwoLists
  <2>2. \/ node.class = "transitioning" \/ node.class = "collapsed"
        \/ node.class = Expanded[icon] \/ node.class = Expanded[Other[icon]]
    BY <1>1, <2>1 DEF Class, Goal, Expanded, Other
  <2> QED
    BY <1>2, <1>3, <1>4, <1>5, <2>2

\* Every set of naturals that has an element has a least one.
LEMMA LeastElement ==
  ASSUME NEW S \in SUBSET Nat, S # {}
  PROVE  \E n \in S : \A m \in S : n <= m
<1> DEFINE R == {ss \in Nat \X Nat : ss[1] < ss[2]}
<1>1. IsWellFoundedOn(R, Nat)
  BY NatLessThanWellFounded DEF OpToRel
<1> HIDE DEF R
<1>2. PICK x \in S : \A y \in S : ~(<<y, x>> \in R)
  BY <1>1, WFMin, Zenon
<1>3. \A y \in S : ~(y < x)
  <2> TAKE y \in S
  <2>1. <<y, x>> \in R <=> y < x
    BY DEF R
  <2> QED
    BY <1>2, <2>1
<1> QED
  BY <1>3

\* The handlers of an icon run one after the other.
LEMMA HandledStep ==
  ASSUME Placed(shown, slides), Clicked(Node), NEW icon \in List,
         handlers[icon] \in 0..MaxHandlers
  PROVE  Clicked(Handled(icon))
<1> DEFINE N == 0..MaxHandlers
           F(g) == [n \in N |-> IF n = 0 THEN Node ELSE Handle(g[n - 1], icon)]
           Upto(m, g) == /\ g[0] = Node
                         /\ \A n \in 1..m : g[n] = Handle(g[n - 1], icon)
           Missed == {m \in N : ~\E g : Upto(m, g)}
<1>1. Missed = {}
  <2>1. SUFFICES ASSUME Missed # {} PROVE FALSE
    OBVIOUS
  <2>2. Missed \in SUBSET Nat
    OBVIOUS
  <2>3. PICK m \in Missed : \A i \in Missed : m <= i
    <3> HIDE DEF Missed
    <3> QED
      BY <2>1, <2>2, LeastElement
  <2>4. m # 0
    <3>1. Upto(0, [n \in {0} |-> Node])
      OBVIOUS
    <3> QED
      BY <3>1, <2>3
  <2>5. m \in N /\ m - 1 \in N /\ m - 1 \notin Missed
    <3>1. m \in N /\ m - 1 \in N /\ m \in Nat /\ ~(m <= m - 1)
      BY <2>3, <2>4, ListsAssumption
    <3> QED
      BY <2>3, <3>1
  <2>6. PICK g : Upto(m - 1, g)
    BY <2>5
  <2> DEFINE h == [n \in 0..m |-> IF n = m THEN Handle(g[m - 1], icon) ELSE g[n]]
  <2>7. Upto(m, h)
    BY <2>4, <2>5, <2>6
  <2> QED
    BY <2>3, <2>7
<1>2. PICK g : Upto(MaxHandlers, g)
  <2>1. MaxHandlers \in N
    BY ListsAssumption
  <2> QED
    BY <1>1, <2>1
<1> DEFINE f == [n \in N |-> g[n]]
           after == CHOOSE a : a = F(a)
<1>3. f = F(f)
  <2>1. \A n \in N : f[n] = F(f)[n]
    <3> TAKE n \in N
    <3>1. CASE n = 0
      BY <1>2, <3>1
    <3>2. CASE n # 0
      <4>1. n - 1 \in N /\ n \in 1..MaxHandlers
        BY <3>2, ListsAssumption
      <4> QED
        BY <1>2, <3>2, <4>1
    <3> QED
      BY <3>1, <3>2
  <2> QED
    BY <2>1
<1>4. after = F(after)
  BY <1>3
<1>5. Handled(icon) = after[handlers[icon]]
  BY DEF Handled
<1>6. after[0] = Node /\ \A n \in 1..MaxHandlers : after[n] = Handle(after[n - 1], icon)
  <2>1. \A n \in N : after[n] = IF n = 0 THEN Node ELSE Handle(after[n - 1], icon)
    BY <1>4
  <2>2. 0 \in N /\ \A n \in 1..MaxHandlers : n \in N /\ n # 0
    BY ListsAssumption
  <2> HIDE DEF after
  <2> QED
    BY <2>1, <2>2
<1> HIDE DEF after, f
<1> DEFINE Bad == {n \in N : ~Clicked(after[n])}
<1>7. Bad = {}
  <2>1. SUFFICES ASSUME Bad # {} PROVE FALSE
    OBVIOUS
  <2>2. Bad \in SUBSET Nat
    OBVIOUS
  <2>3. PICK m \in Bad : \A i \in Bad : m <= i
    <3> HIDE DEF Bad
    <3> QED
      BY <2>1, <2>2, LeastElement
  <2>4. m # 0
    BY <1>6, <2>3
  <2>5. m \in 1..MaxHandlers /\ m - 1 \in N /\ m \in Nat /\ ~(m <= m - 1)
    BY <2>3, <2>4, ListsAssumption
  <2>6. Clicked(after[m - 1])
    BY <2>3, <2>5
  <2> QED
    BY <1>6, <2>3, <2>5, <2>6, HandleStep
<1> QED
  BY <1>5, <1>7

-----------------------------------------------------------------------------
(* Slides                                                                  *)

\* An element ends up where the slide that starts last takes it.
LEMMA AppendGoes ==
  ASSUME NEW sh, NEW sl, Placed(sh, sl), NEW s \in Slide, s.at <= Len(sh[s.list])
  PROVE  /\ Placed(sh, Append(sl, s))
         /\ Len(Append(sl, s)) = Len(sl) + 1 /\ Append(sl, s)[Len(sl) + 1] = s
         /\ \A i \in 1..Len(sl) : Append(sl, s)[i] = sl[i]
         /\ Goes(sh, Append(sl, s), s.list, s.at) <=> s.down
         /\ \A l \in List : \A k \in 1..Len(sh[l]) :
              ~(l = s.list /\ k = s.at) => (Goes(sh, Append(sl, s), l, k) <=> Goes(sh, sl, l, k))
<1> DEFINE sn == Append(sl, s)
           n == Len(sl)
<1>1. n \in Nat /\ sl \in Seq(Slide)
  BY LenProperties DEF Placed
<1>2. /\ sn \in Seq(Slide) /\ Len(sn) = n + 1 /\ sn[n + 1] = s
      /\ \A i \in 1..n : sn[i] = sl[i]
  BY <1>1, AppendProperties
<1> HIDE DEF sn
<1>3. Placed(sh, sn)
  <2>1. \A i \in 1..(n + 1) : sn[i].at <= Len(sh[sn[i].list])
    <3> TAKE i \in 1..(n + 1)
    <3>1. CASE i = n + 1
      BY <1>2, <3>1
    <3>2. CASE i # n + 1
      <4>1. i \in 1..n
        BY <1>1, <3>2
      <4> QED
        BY <1>2, <4>1 DEF Placed
    <3> QED
      BY <3>1, <3>2
  <2> QED
    BY <1>2, <2>1 DEF Placed
<1> HIDE DEF n
<1>4. \A l, k : ~(l = s.list /\ k = s.at) => Own(sn, l, k) = Own(sl, l, k)
  <2> SUFFICES ASSUME NEW l, NEW k, ~(l = s.list /\ k = s.at)
               PROVE  Own(sn, l, k) = Own(sl, l, k)
    OBVIOUS
  <2>1. \A i \in 1..(n + 1) : sn[i].list = l /\ sn[i].at = k => i \in 1..n
    BY <1>1, <1>2
  <2>2. \A i \in 1..n : i \in 1..(n + 1)
    BY <1>1
  <2> QED
    BY <1>2, <2>1, <2>2 DEF Own, n
<1>5. \A l, k : ~(l = s.list /\ k = s.at) => (Goes(sh, sn, l, k) <=> Goes(sh, sl, l, k))
  <2> SUFFICES ASSUME NEW l, NEW k, ~(l = s.list /\ k = s.at)
               PROVE  Goes(sh, sn, l, k) <=> Goes(sh, sl, l, k)
    OBVIOUS
  <2>1. Own(sn, l, k) = Own(sl, l, k)
    BY <1>4
  <2>2. \A i \in Own(sl, l, k) : sn[i] = sl[i]
    BY <1>2 DEF Own, n
  <2> QED
    BY <2>1, <2>2 DEF Goes
<1>6. Goes(sh, sn, s.list, s.at) <=> s.down
  <2>1. n + 1 \in Own(sn, s.list, s.at) /\ \A j \in Own(sn, s.list, s.at) : j <= n + 1
    BY <1>1, <1>2 DEF Own, n
  <2>2. \A i \in Own(sn, s.list, s.at) :
          (\A j \in Own(sn, s.list, s.at) : j <= i) => i = n + 1
    BY <1>1, <2>1 DEF Own
  <2> QED
    BY <1>2, <2>1, <2>2 DEF Goes
<1> QED
  BY <1>2, <1>3, <1>5, <1>6 DEF sn, n

\* A slide that ends changes nothing about where the elements end up.
LEMMA PopGoes ==
  ASSUME NEW sh, NEW sl, Placed(sh, sl), Len(sl) > 0,
         NEW sn \in Seq(Slide), Len(sn) = Len(sl) - 1,
         \A i \in 1..(Len(sl) - 1) : sn[i] = sl[i + 1],
         NEW hn \in [List -> Seq(BOOLEAN)], \A l \in List : Len(hn[l]) = Len(sh[l]),
         \A l \in List : \A k \in 1..Len(sh[l]) :
           hn[l][k] = IF l = sl[1].list /\ k = sl[1].at THEN sl[1].down ELSE sh[l][k]
  PROVE  /\ Placed(hn, sn)
         /\ \A l \in List : \A k \in 1..Len(sh[l]) :
              Goes(hn, sn, l, k) <=> Goes(sh, sl, l, k)
<1> DEFINE s == sl[1]
           n == Len(sl)
<1>1. n \in Nat /\ sl \in Seq(Slide)
  BY LenProperties DEF Placed
<1>2. sn \in Seq(Slide) /\ Len(sn) = n - 1 /\ \A i \in 1..(n - 1) : sn[i] = sl[i + 1]
  OBVIOUS
<1>4. /\ hn \in [List -> Seq(BOOLEAN)] /\ \A l \in List : Len(hn[l]) = Len(sh[l])
      /\ \A l \in List : \A k \in 1..Len(sh[l]) :
           hn[l][k] = IF l = s.list /\ k = s.at THEN s.down ELSE sh[l][k]
  OBVIOUS
<1> HIDE DEF s
<1>5. Placed(hn, sn)
  <2>1. \A i \in 1..(n - 1) : sn[i].at <= Len(hn[sn[i].list])
    <3> TAKE i \in 1..(n - 1)
    <3>1. i + 1 \in 1..n /\ sn[i] = sl[i + 1]
      BY <1>1, <1>2
    <3>2. sl[i + 1] \in Slide /\ sl[i + 1].at <= Len(sh[sl[i + 1].list])
      BY <1>1, <3>1, ElementOfSeq DEF Placed
    <3> QED
      BY <1>4, <3>1, <3>2 DEF Slide
  <2> QED
    BY <1>2, <1>4, <2>1 DEF Placed
<1>6. ASSUME NEW l \in List, NEW k \in 1..Len(sh[l])
      PROVE  Goes(hn, sn, l, k) <=> Goes(sh, sl, l, k)
  <2> HIDE DEF n
  <2>1. \A i \in 1..(n - 1) : i \in Own(sn, l, k) <=> i + 1 \in Own(sl, l, k)
    BY <1>1, <1>2 DEF Own, n
  <2>2. Own(sn, l, k) \subseteq 1..(n - 1) /\ Own(sl, l, k) \subseteq 1..n
    BY <1>1, <1>2 DEF Own, n
  <2>3. \A i \in Own(sl, l, k) : i # 1 => i - 1 \in Own(sn, l, k)
    <3> TAKE i \in Own(sl, l, k)
    <3>1. i # 1 => i - 1 \in 1..(n - 1) /\ (i - 1) + 1 = i
      BY <1>1, <2>2
    <3> QED
      BY <2>1, <3>1
  <2>4. 1 \in Own(sl, l, k) <=> l = s.list /\ k = s.at
    BY <1>1 DEF Own, s, n
  <2>5. CASE Own(sn, l, k) = {}
    <3>1. \A i \in Own(sl, l, k) : i = 1
      BY <2>3, <2>5
    <3>2. CASE l = s.list /\ k = s.at
      <4>1. Own(sl, l, k) = {1}
        BY <2>4, <3>1, <3>2
      <4>2. Goes(sh, sl, l, k) <=> s.down
        BY <4>1 DEF Goes, s
      <4> QED
        BY <1>4, <2>5, <3>2, <4>2 DEF Goes
    <3>3. CASE ~(l = s.list /\ k = s.at)
      <4>1. Own(sl, l, k) = {}
        BY <2>4, <3>1, <3>3
      <4> QED
        BY <1>4, <2>5, <3>3, <4>1 DEF Goes
    <3> QED
      BY <3>2, <3>3
  <2>6. CASE Own(sn, l, k) # {}
    <3>1. PICK i0 \in Own(sn, l, k) : TRUE
      BY <2>6
    <3>2. i0 + 1 \in Own(sl, l, k) /\ i0 \in Nat /\ i0 >= 1
      BY <1>1, <2>1, <2>2, <3>1
    <3>3. ASSUME NEW i \in Own(sn, l, k), sn[i].down, \A j \in Own(sn, l, k) : j <= i
          PROVE  Goes(sh, sl, l, k)
      <4>1. i \in 1..(n - 1) /\ i + 1 \in Own(sl, l, k) /\ sl[i + 1].down
        BY <1>2, <2>1, <2>2, <3>3 DEF n
      <4>2. \A j \in Own(sl, l, k) : j <= i + 1
        <5> TAKE j \in Own(sl, l, k)
        <5>1. j = 1 \/ j - 1 <= i
          BY <2>3, <3>3
        <5>2. j \in Nat /\ i \in Nat
          BY <1>1, <2>2, <4>1
        <5> QED
          BY <5>1, <5>2
      <4> QED
        BY <4>1, <4>2 DEF Goes
    <3>4. ASSUME NEW i \in Own(sl, l, k), sl[i].down, \A j \in Own(sl, l, k) : j <= i
          PROVE  Goes(hn, sn, l, k)
      <4>1. i # 1 /\ i \in 1..n
        BY <1>1, <2>2, <3>2, <3>4
      <4>2. i - 1 \in Own(sn, l, k) /\ i - 1 \in 1..(n - 1) /\ (i - 1) + 1 = i
        BY <1>1, <2>3, <4>1
      <4>3. sn[i - 1].down
        BY <1>2, <3>4, <4>2 DEF n
      <4>4. \A j \in Own(sn, l, k) : j <= i - 1
        <5> TAKE j \in Own(sn, l, k)
        <5>1. j + 1 \in Own(sl, l, k) /\ j \in Nat
          BY <1>1, <2>1, <2>2
        <5>2. j + 1 <= i
          BY <3>4, <5>1
        <5> QED
          BY <4>1, <5>1, <5>2
      <4> QED
        BY <4>2, <4>3, <4>4 DEF Goes
    <3>5. Own(sl, l, k) # {}
      BY <3>2
    <3> QED
      BY <2>6, <3>3, <3>4, <3>5 DEF Goes
  <2> QED
    BY <2>5, <2>6
<1> QED
  BY <1>2, <1>4, <1>5, <1>6

-----------------------------------------------------------------------------
(* The steps of a transition                                               *)

\* What an expansion that ends must show.
ExpandedStep == \A l \in List : class # Expanded[l] /\ class' = Expanded[l] =>
  \A k \in 1..Len(shown[l]) : shown'[l][k]

\* The control state, as a record.
LEMMA NodeFields ==
  /\ Node.class = class /\ Node.walk = walk
  /\ \A node \in NodeType : node = [class |-> node.class, walk |-> node.walk]
BY DEF Node, NodeType

\* The slides and elements the lists are in, of a walk that goes on.
LEMMA WalkTypes ==
  ASSUME ListsInv
  PROVE  /\ walk \in WalkType /\ class \in Class /\ walk.list \in List
         /\ Placed(shown, slides) /\ Len(slides) \in Nat
         /\ \A l \in List : Len(shown[l]) \in Nat /\ Len(shown[l]) <= MaxFiles
         /\ NodeInv(shown, slides, Node)
<1>1. Node.walk \in WalkType /\ Node.class \in Class
  BY DEF ListsInv, NodeInv, NodeType
<1>2. walk \in WalkType /\ class \in Class
  BY <1>1, NodeFields
<1>3. walk.list \in List
  BY <1>2 DEF WalkType
<1> QED
  BY <1>2, <1>3, LenProperties DEF ListsInv, Placed

\* A walk that goes on is a walk.
LEMMA WalkMoves ==
  ASSUME NEW w \in WalkType, NEW a \in 0..MaxFiles, NEW last \in BOOLEAN
  PROVE  [w EXCEPT !.at = a, !.last = last] \in WalkType
BY DEF WalkType

\* A step of the walk of a list that collapses.
LEMMA WalkUp ==
  ASSUME ListsInv, Walk, ~walk.down
  PROVE  Placed(shown', slides') /\ NodeInv(shown', slides', Node') /\ ExpandedStep
<1> DEFINE w == walk
           n == Len(shown[w.list])
           s == [list |-> w.list, at |-> w.at, down |-> w.down]
           lastOne == (w.at + 1) \notin DOMAIN shown[w.list]
           still == Slides(w.list, w.at) = {} /\ shown[w.list][w.at] = w.down
<1>1. /\ class = "transitioning" /\ ~w.last /\ shown' = shown
      /\ slides' = IF still THEN slides ELSE Append(slides, s)
      /\ IF lastOne /\ still
         THEN class' = Over.class /\ walk' = Over.walk
         ELSE /\ walk' = [walk EXCEPT !.at = IF lastOne THEN @ ELSE w.at + 1, !.last = lastOne]
              /\ class' = class
  BY DEF Walk
<1>2. /\ w \in WalkType /\ w.list \in List /\ Placed(shown, slides) /\ Len(slides) \in Nat
      /\ n \in Nat /\ n <= MaxFiles /\ w.down = FALSE
  BY WalkTypes DEF WalkType
<1>3. /\ NoDowns(slides) /\ Hidden(shown, slides, Other[w.list])
      /\ w.at \in 1..n
      /\ \A k \in 1..n : k < w.at => ~Goes(shown, slides, w.list, k)
      /\ w.goal \in {"collapsed", Expanded[Other[w.list]]}
  <2>1. Collapses(shown, slides, Node) /\ Node.class = class /\ Node.walk = walk
    BY NodeFields DEF ListsInv, NodeInv
  <2> QED
    BY <1>1, <1>2, <2>1 DEF Collapses, Passed
<1>4. s \in Slide /\ s.list = w.list /\ s.at = w.at /\ s.down = FALSE
  <2>1. w.at \in 1..MaxFiles
    BY <1>2, <1>3, ListsAssumption
  <2> QED
    BY <1>2, <2>1 DEF Slide
<1>5. lastOne <=> w.at = n
  <2>1. DOMAIN shown[w.list] = 1..n
    BY <1>2 DEF Placed
  <2> QED
    BY <1>2, <1>3, <2>1
<1>6. /\ Placed(shown, slides') /\ NoDowns(slides') /\ Hidden(shown, slides', Other[w.list])
      /\ \A k \in 1..n : k <= w.at => ~Goes(shown, slides', w.list, k)
  <2>1. CASE still
    <3>1. Own(slides, w.list, w.at) = {} /\ ~shown[w.list][w.at]
      <4>1. DOMAIN slides = 1..Len(slides)
        BY <1>2 DEF Placed
      <4> QED
        BY <2>1, <1>2, <4>1 DEF Slides, Own
    <3>2. ~Goes(shown, slides, w.list, w.at)
      BY <3>1 DEF Goes
    <3>3. slides' = slides
      BY <1>1, <2>1
    <3>4. \A k \in 1..n : k <= w.at => k < w.at \/ k = w.at
      BY <1>2, <1>3
    <3> QED
      BY <1>2, <1>3, <3>2, <3>3, <3>4
  <2>2. CASE ~still
    <3>1. slides' = Append(slides, s)
      BY <1>1, <2>2
    <3> HIDE DEF s, still, lastOne
    <3>2. /\ Placed(shown, slides') /\ Len(slides') = Len(slides) + 1
          /\ slides'[Len(slides) + 1] = s
          /\ \A i \in 1..Len(slides) : slides'[i] = slides[i]
          /\ ~Goes(shown, slides', w.list, w.at)
          /\ \A l \in List : \A k \in 1..Len(shown[l]) :
               ~(l = w.list /\ k = w.at) => (Goes(shown, slides', l, k) <=> Goes(shown, slides, l, k))
      BY <1>2, <1>3, <1>4, <3>1, AppendGoes
    <3>3. NoDowns(slides')
      <4>1. \A i \in 1..Len(slides') : i \in 1..Len(slides) \/ i = Len(slides) + 1
        BY <1>2, <3>2
      <4> QED
        BY <1>3, <1>4, <3>2, <4>1 DEF NoDowns
    <3>4. Hidden(shown, slides', Other[w.list])
      BY <1>2, <1>3, <3>2, TwoLists DEF Hidden
    <3>5. \A k \in 1..n : k <= w.at => ~Goes(shown, slides', w.list, k)
      <4> TAKE k \in 1..n
      <4>1. CASE k = w.at
        BY <3>2, <4>1
      <4>2. CASE k # w.at
        BY <1>2, <1>3, <3>2, <4>2
      <4> QED
        BY <4>1, <4>2
    <3> QED
      BY <3>2, <3>3, <3>4, <3>5
  <2> QED
    BY <2>1, <2>2
<1>7. CASE lastOne /\ still
  <2>1. \A l \in List : Hidden(shown, slides', l)
    <3>1. Hidden(shown, slides', w.list)
      BY <1>5, <1>6, <1>7, <1>2 DEF Hidden
    <3> QED
      BY <1>2, <1>6, <3>1, TwoLists
  <2>2. Over = After(shown, w.goal) /\ w.goal \in Goal
    BY <1>2, <1>3, Named DEF Over, WalkType
  <2>3. NodeInv(shown, slides', Over) /\ \A l \in List : Over.class = Expanded[l] => shown[l] = <<>>
    BY <1>6, <2>1, <2>2, AfterInv
  <2>4. class' = Over.class /\ walk' = Over.walk
    BY <1>1, <1>7
  <2>5. Node' = Over
    BY <2>3, <2>4, NodeFields DEF Node, NodeInv
  <2>6. ExpandedStep
    <3> SUFFICES ASSUME NEW l \in List, class' = Expanded[l]
                 PROVE  \A k \in 1..Len(shown[l]) : shown'[l][k]
      BY DEF ExpandedStep
    <3>1. shown[l] = <<>>
      BY <2>3, <2>4
    <3> QED
      BY <3>1
  <2> QED
    BY <1>1, <1>6, <2>3, <2>5, <2>6
<1>8. CASE ~(lastOne /\ still)
  <2> DEFINE w2 == [walk EXCEPT !.at = IF lastOne THEN @ ELSE w.at + 1, !.last = lastOne]
  <2>1. walk' = w2 /\ class' = "transitioning"
    BY <1>1, <1>8
  <2>2. /\ w2.list = w.list /\ w2.down = FALSE /\ w2.goal = w.goal /\ w2.last = lastOne
        /\ w2.at = IF lastOne THEN w.at ELSE w.at + 1
    BY <1>2 DEF WalkType
  <2>3. w2 \in WalkType /\ w2.at \in 1..n /\ (w2.last => w2.at = n)
    <3> HIDE DEF lastOne, still
    <3>1. w2.at \in 1..n /\ (w2.last => w2.at = n)
      BY <1>2, <1>3, <1>5, <2>2
    <3>2. w2.at \in 0..MaxFiles /\ lastOne \in BOOLEAN
      BY <1>2, <3>1, ListsAssumption DEF lastOne
    <3> DEFINE a == IF lastOne THEN w.at ELSE w.at + 1
    <3>3. w2 = [w EXCEPT !.at = a, !.last = lastOne] /\ a \in 0..MaxFiles
      BY <2>2, <3>2
    <3> HIDE DEF w, a
    <3>4. w2 \in WalkType
      BY <1>2, <3>2, <3>3, WalkMoves
    <3> QED
      BY <3>1, <3>4
  <2> HIDE DEF w2, lastOne, still
  <2>4. \A k \in 1..n : Passed(w2, k) => k <= w.at
    BY <1>2, <1>3, <2>2 DEF Passed
  <2>5. Node' = [class |-> "transitioning", walk |-> w2]
    BY <2>1 DEF Node
  <2>6. Node'.class = "transitioning" /\ Node'.walk = w2 /\ Node' \in NodeType
    BY <2>3, <2>5 DEF NodeType, Class
  <2> DEFINE node == Node'
  <2>7. node.class = "transitioning" /\ node.walk = w2 /\ node \in NodeType
    BY <2>6
  <2> HIDE DEF node
  <2>8. Collapses(shown, slides', node)
    BY <1>3, <1>6, <2>2, <2>3, <2>4, <2>7 DEF Collapses
  <2>9. NodeInv(shown, slides', node)
    BY <2>2, <2>7, <2>8 DEF NodeInv, Rests, Expands
  <2>10. ExpandedStep
    BY <2>1, TwoLists DEF ExpandedStep
  <2> QED
    BY <1>1, <1>6, <2>9, <2>10 DEF node
<1> QED
  BY <1>7, <1>8

\* A step of the walk of a list that expands: the element is not where it should be.
LEMMA WalkDown ==
  ASSUME ListsInv, Walk, walk.down
  PROVE  Placed(shown', slides') /\ NodeInv(shown', slides', Node') /\ ExpandedStep
<1> DEFINE w == walk
           n == Len(shown[w.list])
           m == Len(slides)
           s == [list |-> w.list, at |-> w.at, down |-> w.down]
           lastOne == (w.at - 1) \notin DOMAIN shown[w.list]
           still == Slides(w.list, w.at) = {} /\ shown[w.list][w.at] = w.down
<1>1. /\ class = "transitioning" /\ ~w.last /\ shown' = shown
      /\ slides' = IF still THEN slides ELSE Append(slides, s)
      /\ IF lastOne /\ still
         THEN class' = Over.class /\ walk' = Over.walk
         ELSE /\ walk' = [walk EXCEPT !.at = IF lastOne THEN @ ELSE w.at - 1, !.last = lastOne]
              /\ class' = class
  BY DEF Walk
<1>2. /\ w \in WalkType /\ w.list \in List /\ Placed(shown, slides) /\ m \in Nat
      /\ n \in Nat /\ n <= MaxFiles /\ w.down = TRUE /\ w.last = FALSE
  BY <1>1, WalkTypes DEF WalkType
<1>3. /\ Hidden(shown, slides, Other[w.list])
      /\ w.at \in 1..n
      /\ \A k \in 1..n : Goes(shown, slides, w.list, k) <=> k > w.at
      /\ w.goal = Expanded[w.list]
      /\ \A i \in 1..m : slides[i].down => slides[i].list = w.list /\ slides[i].at > w.at
      /\ \A i, j \in 1..m : i < j /\ slides[i].down /\ slides[j].down => slides[i].at > slides[j].at
  <2>1. Expands(shown, slides, Node) /\ Node.class = class /\ Node.walk = walk
    BY NodeFields DEF ListsInv, NodeInv
  <2> QED
    BY <1>1, <1>2, <2>1 DEF Expands, Passed
<1>4. s \in Slide /\ s.list = w.list /\ s.at = w.at /\ s.down = TRUE
  <2>1. w.at \in 1..MaxFiles
    BY <1>2, <1>3, ListsAssumption
  <2> QED
    BY <1>2, <2>1 DEF Slide
<1>5. DOMAIN shown[w.list] = 1..n /\ DOMAIN slides = 1..m
  BY <1>2 DEF Placed
<1>6. lastOne <=> w.at = 1
  BY <1>2, <1>3, <1>5
<1>7. ~still
  <2> SUFFICES ASSUME still PROVE FALSE
    OBVIOUS
  <2>1. Own(slides, w.list, w.at) = {} /\ shown[w.list][w.at]
    BY <1>2, <1>5 DEF Slides, Own
  <2>2. Goes(shown, slides, w.list, w.at)
    BY <2>1 DEF Goes
  <2> QED
    BY <1>2, <1>3, <2>2
<1>8. slides' = Append(slides, s)
  BY <1>1, <1>7
<1> DEFINE w2 == [walk EXCEPT !.at = IF lastOne THEN @ ELSE w.at - 1, !.last = lastOne]
<1>9. walk' = w2 /\ class' = "transitioning"
  BY <1>1, <1>7
<1>10. /\ w2.list = w.list /\ w2.down = TRUE /\ w2.goal = w.goal /\ w2.last = lastOne
       /\ w2.at = IF lastOne THEN w.at ELSE w.at - 1
  BY <1>2 DEF WalkType
<1>11. w2 \in WalkType /\ w2.at \in 1..n /\ (w2.last => w2.at = 1)
  <2> HIDE DEF lastOne, still
  <2>1. w2.at \in 1..n /\ (w2.last => w2.at = 1)
    BY <1>2, <1>3, <1>6, <1>10
  <2>2. w2.at \in 0..MaxFiles /\ lastOne \in BOOLEAN
    BY <1>2, <2>1, ListsAssumption DEF lastOne
  <2> DEFINE a == IF lastOne THEN w.at ELSE w.at - 1
  <2>3. w2 = [w EXCEPT !.at = a, !.last = lastOne] /\ a \in 0..MaxFiles
    BY <1>10, <2>2
  <2> HIDE DEF w, a
  <2>4. w2 \in WalkType
    BY <1>2, <2>2, <2>3, WalkMoves
  <2> QED
    BY <2>1, <2>4
<1>12. /\ Placed(shown, slides') /\ Len(slides') = m + 1
       /\ slides'[m + 1] = s
       /\ \A i \in 1..m : slides'[i] = slides[i]
       /\ Goes(shown, slides', w.list, w.at)
       /\ \A l \in List : \A k \in 1..Len(shown[l]) :
            ~(l = w.list /\ k = w.at) => (Goes(shown, slides', l, k) <=> Goes(shown, slides, l, k))
  <2> HIDE DEF s, still, lastOne, w2
  <2> QED
    BY <1>2, <1>3, <1>4, <1>8, AppendGoes
<1> HIDE DEF w2, lastOne, still, s
<1>13. \A k \in Nat : Passed(w2, k) <=> k >= w.at
  BY <1>2, <1>3, <1>6, <1>10 DEF Passed
<1>14. Hidden(shown, slides', Other[w.list])
  BY <1>2, <1>3, <1>12, TwoLists DEF Hidden
<1>15. \A k \in 1..n : Goes(shown, slides', w.list, k) <=> Passed(w2, k)
  <2> TAKE k \in 1..n
  <2>1. CASE k = w.at
    BY <1>3, <1>12, <1>13, <2>1
  <2>2. CASE k # w.at
    BY <1>2, <1>3, <1>12, <1>13, <2>2
  <2> QED
    BY <2>1, <2>2
<1>16. \A i \in 1..(m + 1) : i \in 1..m \/ i = m + 1
  BY <1>2
<1>17. \A i \in 1..m : slides[i].at \in Nat
  <2>1. \A i \in 1..m : slides[i] \in Slide
    BY <1>2, ElementOfSeq DEF Placed
  <2> QED
    BY <2>1 DEF Slide
<1>18. \A i \in 1..(m + 1) : slides'[i].down => slides'[i].list = w.list /\ Passed(w2, slides'[i].at)
  <2> TAKE i \in 1..(m + 1)
  <2>1. CASE i = m + 1
    BY <1>3, <1>4, <1>12, <1>13, <2>1
  <2>2. CASE i \in 1..m
    BY <1>2, <1>3, <1>12, <1>13, <1>17, <2>2
  <2> QED
    BY <1>16, <2>1, <2>2
<1>19. \A i, j \in 1..(m + 1) :
         i < j /\ slides'[i].down /\ slides'[j].down => slides'[i].at > slides'[j].at
  <2> SUFFICES ASSUME NEW i \in 1..(m + 1), NEW j \in 1..(m + 1), i < j,
                      slides'[i].down, slides'[j].down
               PROVE  slides'[i].at > slides'[j].at
    OBVIOUS
  <2>1. i \in 1..m
    BY <1>2
  <2>2. CASE j = m + 1
    BY <1>3, <1>4, <1>12, <2>1, <2>2
  <2>3. CASE j \in 1..m
    BY <1>3, <1>12, <2>1, <2>3
  <2> QED
    BY <1>16, <2>2, <2>3
<1>20. w2.last => Len(slides') > 0 /\ slides'[Len(slides')] = [list |-> w.list, at |-> 1, down |-> TRUE]
  <2>1. w2.last => s = [list |-> w.list, at |-> 1, down |-> TRUE]
    BY <1>2, <1>6, <1>10 DEF s
  <2> QED
    BY <1>2, <1>12, <2>1
<1> DEFINE node == Node'
<1>21. node.class = "transitioning" /\ node.walk = w2 /\ node \in NodeType
  <2>1. Node' = [class |-> "transitioning", walk |-> w2]
    BY <1>9 DEF Node
  <2> QED
    BY <1>11, <2>1 DEF NodeType, Class
<1> HIDE DEF node
<1>22. Expands(shown, slides', node)
  BY <1>3, <1>10, <1>11, <1>12, <1>14, <1>15, <1>18, <1>19, <1>20, <1>21 DEF Expands
<1>23. NodeInv(shown, slides', node)
  BY <1>10, <1>21, <1>22 DEF NodeInv, Rests, Collapses
<1>24. ExpandedStep
  BY <1>9, TwoLists DEF ExpandedStep
<1> QED
  BY <1>1, <1>12, <1>23, <1>24 DEF node

\* What the parts of the invariant keep when the first slide ends, but for the end of
\* the walk.
LEMMA PopKeeps ==
  ASSUME NEW sh, NEW sl, NEW hn, NEW sn, NEW node, NodeInv(sh, sl, node), Placed(sh, sl),
         Len(sl) > 0, Len(sn) = Len(sl) - 1, \A i \in 1..(Len(sl) - 1) : sn[i] = sl[i + 1],
         \A l \in List : Len(hn[l]) = Len(sh[l]),
         \A l \in List : \A k \in 1..Len(sh[l]) : Goes(hn, sn, l, k) <=> Goes(sh, sl, l, k),
         node.class = "transitioning" /\ node.walk.down /\ node.walk.last => Len(sl) > 1
  PROVE  NodeInv(hn, sn, node)
<1>1. Len(sl) \in Nat /\ node.walk.list \in List
  BY LenProperties DEF Placed, NodeInv, NodeType, WalkType
<1>2. \A l \in List : Hidden(sh, sl, l) => Hidden(hn, sn, l)
  BY DEF Hidden
<1>3. \A i \in 1..Len(sn) : i + 1 \in 1..Len(sl) /\ sn[i] = sl[i + 1]
  BY <1>1
<1>4. NoDowns(sl) => NoDowns(sn)
  BY <1>3 DEF NoDowns
<1>5. Other[node.walk.list] \in List
  BY <1>1, TwoLists
<1>6. Rests(hn, sn, node)
  BY <1>2, <1>4 DEF NodeInv, Rests
<1>7. Collapses(hn, sn, node)
  BY <1>1, <1>2, <1>4, <1>5 DEF NodeInv, Collapses
<1>8. Expands(hn, sn, node)
  <2> DEFINE w == node.walk
  <2> SUFFICES ASSUME node.class = "transitioning", w.down
               PROVE  Expands(hn, sn, node)
    BY DEF Expands
  <2>1. /\ Hidden(sh, sl, Other[w.list])
        /\ w.at \in 1..Len(sh[w.list]) /\ (w.last => w.at = 1)
        /\ \A k \in 1..Len(sh[w.list]) : Goes(sh, sl, w.list, k) <=> Passed(w, k)
        /\ w.goal = Expanded[w.list]
        /\ w.last => sl[Len(sl)] = [list |-> w.list, at |-> 1, down |-> TRUE]
        /\ \A i \in 1..Len(sl) : sl[i].down => sl[i].list = w.list /\ Passed(w, sl[i].at)
        /\ \A i, j \in 1..Len(sl) : i < j /\ sl[i].down /\ sl[j].down => sl[i].at > sl[j].at
    BY DEF NodeInv, Expands
  <2>2. w.last => Len(sn) > 0 /\ sn[Len(sn)] = [list |-> w.list, at |-> 1, down |-> TRUE]
    <3>1. w.last => Len(sn) \in 1..(Len(sl) - 1) /\ Len(sn) + 1 = Len(sl)
      BY <1>1
    <3> QED
      BY <2>1, <3>1
  <2>3. \A i \in 1..Len(sn) : sn[i].down => sn[i].list = w.list /\ Passed(w, sn[i].at)
    BY <1>3, <2>1
  <2>4. \A i, j \in 1..Len(sn) : i < j /\ sn[i].down /\ sn[j].down => sn[i].at > sn[j].at
    <3> SUFFICES ASSUME NEW i \in 1..Len(sn), NEW j \in 1..Len(sn), i < j, sn[i].down, sn[j].down
                 PROVE  sn[i].at > sn[j].at
      OBVIOUS
    <3>1. i + 1 \in 1..Len(sl) /\ j + 1 \in 1..Len(sl) /\ i + 1 < j + 1
      BY <1>1, <1>3
    <3> QED
      BY <1>3, <2>1, <3>1
  <2>5. \A k \in 1..Len(hn[w.list]) : Goes(hn, sn, w.list, k) <=> Passed(w, k)
    BY <1>1, <2>1
  <2>6. Hidden(hn, sn, Other[w.list]) /\ w.at \in 1..Len(hn[w.list])
    BY <1>1, <1>2, <1>5, <2>1
  <2> QED
    BY <2>1, <2>2, <2>3, <2>4, <2>5, <2>6 DEF Expands
<1> QED
  BY <1>6, <1>7, <1>8 DEF NodeInv

\* A slide that ends leaves the lists as long as they are, and everything where it
\* ends up.
LEMMA SlideEndsFacts ==
  ASSUME ListsInv, SlideEnds
  PROVE  /\ Placed(shown', slides')
         /\ \A l \in List : Len(shown'[l]) = Len(shown[l])
         /\ Len(slides') = Len(slides) - 1
         /\ \A i \in 1..(Len(slides) - 1) : slides'[i] = slides[i + 1]
         /\ \A l \in List : \A k \in 1..Len(shown[l]) :
              Goes(shown', slides', l, k) <=> Goes(shown, slides, l, k)
<1> DEFINE hn == shown'
           s == slides[1]
           n == Len(slides)
<1>1. Placed(shown, slides) /\ Len(slides) > 0 /\ Head(slides) = s
  BY EmptySeq, WalkTypes DEF SlideEnds, Placed
<1>2. hn = [shown EXCEPT ![s.list][s.at] = s.down]
  BY <1>1 DEF SlideEnds
<1>3. s \in Slide /\ s.at \in 1..Len(shown[s.list])
  <2>1. 1 \in 1..n
    BY <1>1, LenProperties DEF Placed
  <2>2. s \in Slide
    BY <1>1, <2>1, ElementOfSeq DEF Placed
  <2>3. s.at <= Len(shown[s.list])
    BY <1>1, <2>1 DEF Placed
  <2> HIDE DEF s
  <2>4. s.at \in Nat /\ 1 <= s.at /\ s.list \in List /\ Len(shown[s.list]) \in Nat
    BY <1>1, <2>2, ListsAssumption DEF Slide, Placed
  <2> QED
    BY <2>2, <2>3, <2>4
<1>4. /\ hn \in [List -> Seq(BOOLEAN)] /\ \A l \in List : Len(hn[l]) = Len(shown[l])
      /\ \A l \in List : \A k \in 1..Len(shown[l]) :
           hn[l][k] = IF l = s.list /\ k = s.at THEN s.down ELSE shown[l][k]
  <2> DEFINE old == shown[s.list]
             new == [old EXCEPT ![s.at] = s.down]
  <2>1. s.list \in List /\ s.down \in BOOLEAN
    BY <1>3 DEF Slide
  <2>2. old \in Seq(BOOLEAN) /\ s.at \in 1..Len(old)
    BY <1>1, <1>3, <2>1 DEF Placed
  <2>3. /\ new \in Seq(BOOLEAN) /\ Len(new) = Len(old)
        /\ \A k \in 1..Len(old) : new[k] = IF k = s.at THEN s.down ELSE old[k]
    <3> HIDE DEF old, s
    <3> QED
      BY <2>1, <2>2, ExceptSeq
  <2>4. hn = [shown EXCEPT ![s.list] = new]
    BY <1>2
  <2> HIDE DEF new, s
  <2>5. hn[s.list] = new /\ \A l \in List \ {s.list} : hn[l] = shown[l]
    BY <1>1, <2>1, <2>4 DEF Placed
  <2>6. hn \in [List -> Seq(BOOLEAN)]
    BY <1>1, <2>1, <2>3, <2>4 DEF Placed
  <2> QED
    BY <2>3, <2>5, <2>6
<1> HIDE DEF hn
<1> DEFINE sn == slides'
<1>5. /\ sn \in Seq(Slide) /\ Len(sn) = Len(slides) - 1
      /\ \A i \in 1..(Len(slides) - 1) : sn[i] = slides[i + 1]
  <2>1. sn = Tail(slides)
    BY DEF SlideEnds
  <2> QED
    BY <1>1, <2>1, HeadTailProperties, EmptySeq DEF Placed
<1> HIDE DEF sn
<1>6. /\ Placed(hn, sn)
      /\ \A l \in List : \A k \in 1..Len(shown[l]) :
           Goes(hn, sn, l, k) <=> Goes(shown, slides, l, k)
  BY <1>1, <1>4, <1>5, PopGoes
<1> QED
  BY <1>4, <1>5, <1>6 DEF hn, sn

\* The slide that ends is the last one of its walk, or one of many.
LEMMA SlideEndsStep ==
  ASSUME ListsInv, SlideEnds
  PROVE  Placed(shown', slides') /\ NodeInv(shown', slides', Node') /\ ExpandedStep
<1> DEFINE w == walk
           n == Len(shown[w.list])
           m == Len(slides)
           s == Head(slides)
           mine == w.last /\ w.list = s.list /\ w.at = s.at /\ w.down = s.down
<1>1. /\ slides # <<>> /\ slides' = Tail(slides)
      /\ shown' = [shown EXCEPT ![s.list][s.at] = s.down]
      /\ IF class = "transitioning" /\ mine
         THEN class' = Over.class /\ walk' = Over.walk
         ELSE class' = class /\ walk' = walk
  BY DEF SlideEnds
<1>2. /\ w \in WalkType /\ w.list \in List /\ Placed(shown, slides) /\ m \in Nat
      /\ n \in Nat /\ n <= MaxFiles /\ class \in Class /\ NodeInv(shown, slides, Node)
  BY WalkTypes
<1>3. m > 0 /\ m \in Nat /\ s = slides[1]
  BY <1>1, <1>2, EmptySeq DEF Placed
<1>4. /\ Placed(shown', slides')
      /\ \A l \in List : Len(shown'[l]) = Len(shown[l])
      /\ Len(slides') = m - 1 /\ \A i \in 1..(m - 1) : slides'[i] = slides[i + 1]
      /\ \A l \in List : \A k \in 1..Len(shown[l]) :
           Goes(shown', slides', l, k) <=> Goes(shown, slides, l, k)
  BY SlideEndsFacts
<1> HIDE DEF s
<1>5. CASE class = "transitioning" /\ mine /\ w.down
  <2>1. /\ Hidden(shown, slides, Other[w.list]) /\ w.at = 1
        /\ \A k \in 1..n : Goes(shown, slides, w.list, k) <=> Passed(w, k)
        /\ w.goal = Expanded[w.list]
        /\ slides[m] = [list |-> w.list, at |-> 1, down |-> TRUE]
        /\ \A i, j \in 1..m : i < j /\ slides[i].down /\ slides[j].down => slides[i].at > slides[j].at
    <3>1. Expands(shown, slides, Node) /\ Node.class = class /\ Node.walk = walk
      BY NodeFields DEF ListsInv, NodeInv
    <3> QED
      BY <1>5, <3>1 DEF Expands
  <2>2. m = 1
    <3> SUFFICES ASSUME m # 1 PROVE FALSE
      OBVIOUS
    <3>1. 1 \in 1..m /\ m \in 1..m /\ 1 < m
      <4>1. m \in Nat /\ m > 0 /\ m # 1
        BY <1>3
      <4> HIDE DEF m
      <4> QED
        BY <4>1
    <3>2. slides[1].down /\ slides[1].at = 1 /\ slides[m].down /\ slides[m].at = 1
      BY <1>3, <1>5, <2>1
    <3>3. slides[1].at > slides[m].at
      BY <2>1, <3>1, <3>2
    <3> QED
      BY <3>2, <3>3
  <2>3. Len(slides') = 0
    BY <1>4, <2>2
  <2>4. \A l, k : Own(slides', l, k) = {}
    BY <2>3 DEF Own
  <2>5. \A l \in List : \A k \in 1..Len(shown[l]) : shown'[l][k] <=> Goes(shown, slides, l, k)
    BY <1>4, <2>4 DEF Goes
  <2>6. \A k \in 1..n : shown'[w.list][k]
    BY <1>2, <1>5, <2>1, <2>5 DEF Passed
  <2>7. Over = Ended(Expanded[w.list]) /\ Expanded[w.list] \in Goal
    BY <1>2, <1>5, <2>1, TwoLists DEF Over
  <2>8. /\ Over \in NodeType /\ Over.class = Expanded[w.list] /\ Over.walk = AtRest
        /\ Over.class # "transitioning"
    BY <2>7, EndedIsNode
  <2>9. Node' = Over /\ class' = Expanded[w.list]
    BY <1>1, <1>5, <2>8, NodeFields DEF Node
  <2> DEFINE node == Over
             hn == shown'
             sn == slides'
  <2>10. NoDowns(sn) /\ \A l \in List : l # w.list => Hidden(hn, sn, l)
    <3>1. Hidden(hn, sn, Other[w.list])
      BY <1>2, <1>4, <2>1, TwoLists DEF Hidden
    <3> QED
      BY <1>2, <2>3, <3>1, TwoLists DEF NoDowns
  <2>11. node \in NodeType /\ node.class = Expanded[w.list] /\ node.walk = AtRest
         /\ node.class # "transitioning"
    BY <2>8
  <2> HIDE DEF node, hn, sn
  <2>12. NodeInv(hn, sn, node)
    BY <1>2, <2>10, <2>11, TwoLists DEF NodeInv, Rests, Collapses, Expands
  <2>13. ExpandedStep
    BY <1>2, <2>6, <2>9, TwoLists DEF ExpandedStep
  <2> QED
    BY <1>4, <2>9, <2>12, <2>13 DEF node, hn, sn
<1>6. CASE class = "transitioning" /\ mine /\ ~w.down
  <2>1. /\ NoDowns(slides) /\ Hidden(shown, slides, Other[w.list]) /\ w.at = n
        /\ \A k \in 1..n : Passed(w, k) => ~Goes(shown, slides, w.list, k)
        /\ w.goal \in Goal
    <3>1. Collapses(shown, slides, Node) /\ Node.class = class /\ Node.walk = walk
      BY NodeFields DEF ListsInv, NodeInv
    <3> QED
      BY <1>2, <1>6, <3>1 DEF Collapses, WalkType
  <2>2. Hidden(shown, slides, w.list)
    BY <1>2, <1>6, <2>1 DEF Hidden, Passed
  <2>3. \A l \in List : Hidden(shown', slides', l)
    <3>1. \A l \in List : Hidden(shown, slides, l)
      BY <1>2, <2>1, <2>2, TwoLists
    <3> QED
      BY <1>4, <3>1 DEF Hidden
  <2>4. NoDowns(slides')
    <3>1. \A i \in 1..(m - 1) : i + 1 \in 1..m
      BY <1>2
    <3> QED
      BY <1>4, <2>1, <3>1 DEF NoDowns
  <2>5. After(shown, w.goal) = After(shown', w.goal)
    <3>1. \A l \in List : shown[l] = <<>> <=> shown'[l] = <<>>
      BY <1>2, <1>4, EmptySeq DEF Placed
    <3>2. \A l \in List : Start(shown, l) = Start(shown', l)
      BY <1>4, <3>1 DEF Start
    <3>3. CASE w.goal = "collapsed"
      BY <3>3 DEF After
    <3>4. CASE w.goal # "collapsed"
      <4>1. PICK l \in List : w.goal = Expanded[l]
        BY <2>1, <3>4 DEF Goal, List, Expanded
      <4> QED
        BY <3>2, <3>4, <4>1, ListOfGoal DEF After
    <3> QED
      BY <3>3, <3>4
  <2>6. Over = After(shown', w.goal)
    BY <1>6, <2>5, Named DEF Over
  <2> DEFINE hn == shown'
             sn == slides'
             node == Over
  <2>7. node = After(hn, w.goal) /\ Placed(hn, sn) /\ NoDowns(sn) /\ \A l \in List : Hidden(hn, sn, l)
    BY <1>4, <2>3, <2>4, <2>6
  <2> HIDE DEF hn, sn, node
  <2>8. NodeInv(hn, sn, node) /\ \A l \in List : node.class = Expanded[l] => hn[l] = <<>>
    BY <2>1, <2>7, AfterInv
  <2>9. class' = node.class /\ walk' = node.walk
    BY <1>1, <1>6 DEF node
  <2>10. Node' = node
    BY <2>8, <2>9, NodeFields DEF Node, NodeInv
  <2>11. ExpandedStep
    <3> SUFFICES ASSUME NEW l \in List, class' = Expanded[l]
                 PROVE  \A k \in 1..Len(shown[l]) : shown'[l][k]
      BY DEF ExpandedStep
    <3>1. shown'[l] = <<>>
      BY <2>8, <2>9 DEF hn
    <3>2. Len(shown[l]) = 0
      BY <1>4, <3>1
    <3> QED
      BY <3>2
  <2> QED
    BY <1>4, <2>8, <2>10, <2>11 DEF hn, sn
<1>7. CASE ~(class = "transitioning" /\ mine)
  <2>1. Node' = Node /\ class' = class
    BY <1>1, <1>7 DEF Node
  <2>2. Node.class = "transitioning" /\ Node.walk.down /\ Node.walk.last => m > 1
    <3> SUFFICES ASSUME class = "transitioning", w.down, w.last, ~(m > 1) PROVE FALSE
      BY NodeFields
    <3>1. Expands(shown, slides, Node) /\ Node.class = class /\ Node.walk = walk
      BY NodeFields DEF ListsInv, NodeInv
    <3>2. slides[m] = [list |-> w.list, at |-> 1, down |-> TRUE] /\ w.at = 1
      BY <3>1 DEF Expands
    <3>3. m = 1
      <4>1. m \in Nat /\ m > 0 /\ ~(m > 1)
        BY <1>3
      <4> HIDE DEF m
      <4> QED
        BY <4>1
    <3>4. w.down = TRUE
      BY <1>2 DEF WalkType
    <3> QED
      <4>1. s = [list |-> w.list, at |-> 1, down |-> TRUE]
        BY <1>3, <3>2, <3>3
      <4>2. w.list = s.list /\ w.at = s.at /\ w.down = s.down
        BY <3>2, <3>4, <4>1
      <4> QED
        BY <1>7, <4>2
  <2> DEFINE node == Node
             hn == shown'
             sn == slides'
  <2> HIDE DEF node, hn, sn
  <2>3. NodeInv(hn, sn, node)
    BY <1>2, <1>3, <1>4, <2>2, PopKeeps DEF node, hn, sn
  <2>4. ExpandedStep
    BY <2>1 DEF ExpandedStep
  <2> QED
    BY <1>4, <2>1, <2>3, <2>4 DEF node, hn, sn
<1> QED
  BY <1>2, <1>5, <1>6, <1>7 DEF WalkType

-----------------------------------------------------------------------------
(* The refresh                                                             *)

\* The files a refresh appends to a list, and does not display.
LEMMA AppendHidden ==
  ASSUME NEW q \in Seq(BOOLEAN), NEW f \in Nat
  PROVE  LET r == q \o [k \in 1..(f - Len(q)) |-> FALSE]
         IN /\ r \in Seq(BOOLEAN) /\ Len(r) = (IF f >= Len(q) THEN f ELSE Len(q))
            /\ \A k \in 1..Len(q) : r[k] = q[k]
            /\ \A k \in 1..Len(r) : k > Len(q) => ~r[k]
<1> DEFINE n == Len(q)
           d == IF f >= n THEN f - n ELSE 0
           t == [k \in 1..(f - n) |-> FALSE]
           r == q \o t
<1>1. n \in Nat /\ d \in Nat
  BY LenProperties
<1>2. t = [k \in 1..d |-> FALSE]
  <2>1. 1..(f - n) = 1..d
    BY <1>1
  <2> QED
    BY <2>1
<1> HIDE DEF t
<1>3. t \in Seq(BOOLEAN) /\ Len(t) = d /\ \A k \in 1..d : t[k] = FALSE
  BY <1>1, <1>2
<1> HIDE DEF d, n
<1>4. /\ q \o t \in Seq(BOOLEAN) /\ Len(q \o t) = Len(q) + Len(t)
      /\ \A i \in 1..(Len(q) + Len(t)) : (q \o t)[i] = IF i <= Len(q) THEN q[i] ELSE t[i - Len(q)]
  BY <1>3, ConcatProperties
<1>5. r \in Seq(BOOLEAN) /\ Len(r) = n + d
      /\ \A i \in 1..(n + d) : r[i] = IF i <= n THEN q[i] ELSE t[i - n]
  BY <1>3, <1>4 DEF n
<1>6. \A k \in 1..n : r[k] = q[k]
  BY <1>1, <1>5
<1>7. \A k \in 1..(n + d) : k > n => ~r[k]
  <2> TAKE k \in 1..(n + d)
  <2>1. k > n => k - n \in 1..d /\ ~(k <= n)
    BY <1>1
  <2> QED
    BY <1>3, <1>5, <2>1
<1>8. n + d = IF f >= n THEN f ELSE n
  BY <1>1 DEF d
<1> HIDE DEF r
<1>9. Len(r) = (IF f >= Len(q) THEN f ELSE Len(q))
  BY <1>5, <1>8 DEF n
<1>10. \A k \in 1..Len(r) : k > Len(q) => ~r[k]
  BY <1>5, <1>7 DEF n
<1>11. \A k \in 1..Len(q) : r[k] = q[k]
  BY <1>6 DEF n
<1> QED
  BY <1>5, <1>9, <1>10, <1>11 DEF r, t, n

\* A refresh adds hidden elements between the transitions, and nothing during one.
LEMMA RefreshStep ==
  ASSUME ListsInv, NEW body \in Body, Held(body), RefreshSessionInDrilldown(body)
  PROVE  ListsInv' /\ ExpandedStep
<1>1. UNCHANGED <<files, finished, class, walk, slides>>
  BY DEF RefreshSessionInDrilldown, serverVars
<1>2. /\ shown' = [l \in List |->
           IF class = "transitioning" THEN shown[l]
           ELSE shown[l] \o [k \in 1..(body[l].files - Len(shown[l])) |-> FALSE]]
      /\ complete' = [l \in List |-> body[l].complete]
      /\ handlers' = [l \in List |->
           IF ~complete[l] /\ body[l].complete /\ handlers[l] < MaxHandlers
           THEN handlers[l] + 1 ELSE handlers[l]]
  BY DEF RefreshSessionInDrilldown, RefreshDiagnoserWide, RefreshExpandableList
<1>3. \A l \in List : body[l].files \in 0..MaxFiles /\ body[l].complete \in BOOLEAN
                      /\ body[l].files <= files[l]
  BY DEF Body, Held
<1>4. /\ ListsTypeOK /\ Placed(shown, slides) /\ NodeInv(shown, slides, Node)
      /\ \A l \in List : /\ shown[l] \in Seq(BOOLEAN) /\ Len(shown[l]) \in Nat
                         /\ Len(shown[l]) <= files[l] /\ files[l] \in 0..MaxFiles
  BY LenProperties DEF ListsInv, ListsTypeOK
<1>5. /\ shown' \in [List -> Seq(BOOLEAN)]
      /\ \A l \in List :
           /\ Len(shown[l]) <= Len(shown'[l]) /\ Len(shown'[l]) <= files[l]
           /\ \A k \in 1..Len(shown[l]) : shown'[l][k] = shown[l][k]
           /\ \A k \in 1..Len(shown'[l]) : k > Len(shown[l]) => ~shown'[l][k]
      /\ class = "transitioning" => shown' = shown
  <2>1. CASE class = "transitioning"
    <3>1. shown' = shown
      BY <1>2, <2>1 DEF ListsInv, Placed
    <3> QED
      BY <1>4, <3>1 DEF Placed
  <2>2. CASE class # "transitioning"
    <3>1. ASSUME NEW l \in List
          PROVE  /\ shown'[l] \in Seq(BOOLEAN)
                 /\ Len(shown[l]) <= Len(shown'[l]) /\ Len(shown'[l]) <= files[l]
                 /\ \A k \in 1..Len(shown[l]) : shown'[l][k] = shown[l][k]
                 /\ \A k \in 1..Len(shown'[l]) : k > Len(shown[l]) => ~shown'[l][k]
      <4> DEFINE q == shown[l]
                 f == body[l].files
                 r == q \o [k \in 1..(f - Len(q)) |-> FALSE]
      <4>1. shown'[l] = r
        BY <1>2, <2>2
      <4>2. q \in Seq(BOOLEAN) /\ f \in Nat /\ f <= files[l] /\ Len(q) <= files[l]
            /\ Len(q) \in Nat /\ files[l] \in Nat
        BY <1>3, <1>4, ListsAssumption
      <4>3. /\ r \in Seq(BOOLEAN) /\ Len(r) = (IF f >= Len(q) THEN f ELSE Len(q))
            /\ \A k \in 1..Len(q) : r[k] = q[k]
            /\ \A k \in 1..Len(r) : k > Len(q) => ~r[k]
        <5> HIDE DEF q, f
        <5> QED
          BY <4>2, AppendHidden
      <4> HIDE DEF q, f, r
      <4>4. Len(q) <= Len(r) /\ Len(r) <= files[l]
        BY <4>2, <4>3
      <4> QED
        BY <4>1, <4>3, <4>4 DEF q
    <3>2. shown' \in [List -> Seq(BOOLEAN)]
      <4>1. \A l \in List : shown'[l] \in Seq(BOOLEAN)
        BY <3>1
      <4> QED
        BY <1>2, <4>1
    <3> QED
      BY <2>2, <3>1, <3>2
  <2> QED
    BY <2>1, <2>2
<1>6. \A l \in List : Len(shown'[l]) \in Nat /\ Len(shown'[l]) <= MaxFiles
  <2>1. \A l \in List : Len(shown'[l]) \in Nat
    BY <1>5, LenProperties
  <2> QED
    BY <1>4, <1>5, <2>1, ListsAssumption
<1>7. \A i \in 1..Len(slides) : slides[i] \in Slide
  BY <1>4, ElementOfSeq DEF Placed
<1>8. Placed(shown', slides')
  <2>1. \A i \in 1..Len(slides) : slides[i].at <= Len(shown'[slides[i].list])
    <3> TAKE i \in 1..Len(slides)
    <3>1. slides[i].list \in List /\ slides[i].at \in Nat
      BY <1>7 DEF Slide
    <3>2. slides[i].at <= Len(shown[slides[i].list])
      BY <1>4 DEF Placed
    <3> QED
      BY <1>4, <1>5, <1>6, <3>1, <3>2
  <2> QED
    BY <1>1, <1>4, <1>5, <1>6, <2>1 DEF Placed
<1>9. NodeInv(shown', slides', Node')
  <2>1. Node' = Node
    BY <1>1 DEF Node
  <2>2. CASE class = "transitioning"
    BY <1>1, <1>4, <1>5, <2>1, <2>2
  <2>3. CASE class # "transitioning"
    <3>1. ASSUME NEW l \in List, Hidden(shown, slides, l)
          PROVE  Hidden(shown', slides, l)
      <4> SUFFICES ASSUME NEW k \in 1..Len(shown'[l])
                   PROVE  ~Goes(shown', slides, l, k)
        BY DEF Hidden
      <4>1. CASE k <= Len(shown[l])
        <5>1. k \in 1..Len(shown[l])
          BY <1>4, <1>6, <4>1
        <5>2. ~Goes(shown, slides, l, k) /\ shown'[l][k] = shown[l][k]
          BY <1>5, <3>1, <5>1 DEF Hidden
        <5> QED
          BY <5>2 DEF Goes
      <4>2. CASE ~(k <= Len(shown[l]))
        <5>1. k > Len(shown[l])
          BY <1>4, <1>6, <4>2
        <5>2. ~shown'[l][k]
          BY <1>5, <5>1
        <5>3. Own(slides, l, k) = {}
          BY <1>4, <4>2 DEF Placed, Own
        <5> QED
          BY <5>2, <5>3 DEF Goes
      <4> QED
        BY <4>1, <4>2
    <3> DEFINE node == Node
               hn == shown'
    <3>2. node.class # "transitioning" /\ NodeInv(shown, slides, node)
      BY <1>4, <2>3, NodeFields
    <3> HIDE DEF node, hn
    <3>3. NodeInv(hn, slides, node)
      BY <3>1, <3>2 DEF NodeInv, Rests, Collapses, Expands, hn
    <3> QED
      BY <1>1, <2>1, <3>3 DEF node, hn
  <2> QED
    BY <2>2, <2>3
<1>10. complete' \in [List -> BOOLEAN] /\ handlers' \in [List -> 0..MaxHandlers]
  <2>1. \A l \in List : handlers[l] \in 0..MaxHandlers
    BY <1>4 DEF ListsTypeOK
  <2>2. \A l \in List : handlers'[l] \in 0..MaxHandlers
    BY <1>2, <2>1, ListsAssumption
  <2> QED
    BY <1>2, <1>3, <2>2
<1>11. ListsTypeOK'
  BY <1>1, <1>4, <1>5, <1>10 DEF ListsTypeOK
<1> QED
  BY <1>1, <1>8, <1>9, <1>11 DEF ListsInv, ExpandedStep

-----------------------------------------------------------------------------
(* The theorems                                                            *)

\* At first both lists are hidden.
LEMMA InitListsInv == ListsInit => ListsInv
<1> SUFFICES ASSUME ListsInit PROVE ListsInv
  OBVIOUS
<1>1. \A l \in List : files[l] \in 0..MaxFiles /\ files[l] \in Nat
  BY ListsAssumption DEF ListsInit
<1>2. \A l \in List : shown[l] = [k \in 1..files[l] |-> FALSE]
  BY DEF ListsInit
<1>3. \A l \in List : shown[l] \in Seq(BOOLEAN) /\ Len(shown[l]) = files[l]
                      /\ \A k \in 1..Len(shown[l]) : ~shown[l][k]
  <2> TAKE l \in List
  <2> DEFINE f == files[l]
             q == [k \in 1..f |-> FALSE]
  <2>1. shown[l] = q /\ f \in Nat
    BY <1>1, <1>2
  <2> HIDE DEF f
  <2>2. q \in Seq(BOOLEAN) /\ Len(q) = f /\ \A k \in 1..f : q[k] = FALSE
    BY <2>1
  <2> HIDE DEF q
  <2> QED
    BY <2>1, <2>2 DEF f
<1>4. shown \in [List -> Seq(BOOLEAN)]
  BY <1>3 DEF ListsInit
<1>5. slides = <<>> /\ Len(slides) = 0 /\ slides \in Seq(Slide)
  BY DEF ListsInit
<1>6. Placed(shown, slides)
  BY <1>1, <1>3, <1>4, <1>5 DEF Placed
<1>7. Node = Ended("collapsed") /\ "collapsed" \in Goal
  BY DEF Node, Ended, ListsInit, Goal
<1>8. \A l \in List : Hidden(shown, slides, l)
  BY <1>3, <1>5 DEF Hidden, Goes, Own
<1>9. NodeInv(shown, slides, Node)
  <2> DEFINE node == Node
  <2>1. node \in NodeType /\ node.class = "collapsed" /\ node.walk = AtRest
    BY <1>7, EndedIsNode
  <2> HIDE DEF node
  <2>2. NoDowns(slides)
    BY <1>5 DEF NoDowns
  <2>3. NodeInv(shown, slides, node)
    BY <1>8, <2>1, <2>2 DEF NodeInv, Rests, Collapses, Expands
  <2> QED
    BY <2>3 DEF node
<1>10. ListsTypeOK
  <2>1. walk \in WalkType /\ class \in Class
    BY <1>9, NodeFields DEF NodeInv, NodeType
  <2>2. handlers \in [List -> 0..MaxHandlers]
    BY ListsAssumption DEF ListsInit
  <2>3. \A l \in List : Len(shown[l]) <= files[l]
    BY <1>1, <1>3
  <2> QED
    BY <1>4, <1>5, <2>1, <2>2, <2>3 DEF ListsInit, ListsTypeOK, WalkType, Class, Goal, Slide
<1> QED
  BY <1>6, <1>9, <1>10 DEF ListsInv

\* What a step of the lists must keep and show.
GoodListsStep == ListsInv' /\ ExpandedStep

\* A step that is judged by where the elements end up keeps the types, too.
LEMMA TypesFollow ==
  ASSUME ListsInv, Placed(shown', slides'), NodeInv(shown', slides', Node'),
         \A l \in List : Len(shown'[l]) = Len(shown[l]),
         UNCHANGED <<files, finished, complete, handlers>>
  PROVE  ListsInv'
<1>1. Node' = [class |-> class', walk |-> walk']
  BY DEF Node
<1>2. Node' \in NodeType
  BY DEF NodeInv
<1>3. class' \in Class /\ walk' \in WalkType
  BY <1>1, <1>2 DEF NodeType
<1>4. \A l \in List : Len(shown'[l]) <= files'[l]
  BY DEF ListsInv, ListsTypeOK
<1>5. ListsTypeOK'
  BY <1>3, <1>4 DEF ListsInv, ListsTypeOK, Placed, Class, Goal, WalkType, Slide
<1> QED
  BY <1>5 DEF ListsInv

\* Every step keeps the invariant, and an expansion that it ends shows all.
LEMMA ListsStep == ASSUME ListsInv, [ListsNext]_listsVars PROVE GoodListsStep
<1>1. CASE UNCHANGED listsVars
  <2>1. /\ UNCHANGED <<files, finished, class, walk, shown, slides, complete, handlers>>
        /\ Node' = Node
    BY <1>1 DEF listsVars, serverVars, iconVars, Node
  <2> QED
    BY <2>1 DEF GoodListsStep, ListsInv, ListsTypeOK, ExpandedStep
<1>2. ASSUME NEW list \in List, Produce(list) PROVE GoodListsStep
  <2>1. /\ UNCHANGED <<finished, class, walk, shown, slides, complete, handlers>> /\ Node' = Node
        /\ files' = [files EXCEPT ![list] = @ + 1] /\ files[list] < MaxFiles
    BY <1>2 DEF Produce, iconVars, Node
  <2>2. \A l \in List : files[l] \in 0..MaxFiles /\ Len(shown[l]) \in Nat /\ Len(shown[l]) <= files[l]
    BY LenProperties DEF ListsInv, ListsTypeOK
  <2>3. files' \in [List -> 0..MaxFiles] /\ \A l \in List : files[l] <= files'[l]
    BY <2>1, <2>2, ListsAssumption DEF ListsInv, ListsTypeOK
  <2>4. \A l \in List : Len(shown[l]) <= files'[l]
    <3> TAKE l \in List
    <3>1. files[l] <= files'[l] /\ files'[l] \in Nat /\ files[l] \in Nat
      BY <2>2, <2>3
    <3> QED
      BY <2>2, <3>1
  <2> QED
    BY <2>1, <2>3, <2>4 DEF GoodListsStep, ListsInv, ListsTypeOK, ExpandedStep
<1>3. ASSUME NEW list \in List, Finish(list) PROVE GoodListsStep
  <2>1. /\ UNCHANGED <<files, class, walk, shown, slides, complete, handlers>> /\ Node' = Node
        /\ finished' \in [List -> BOOLEAN]
    BY <1>3 DEF Finish, iconVars, Node, ListsInv, ListsTypeOK
  <2> QED
    BY <2>1 DEF GoodListsStep, ListsInv, ListsTypeOK, ExpandedStep
<1>4. ASSUME NEW icon \in List, ClickIcon(icon) PROVE GoodListsStep
  <2>1. /\ UNCHANGED <<files, finished, shown, slides, complete, handlers>>
        /\ class' = Handled(icon).class /\ walk' = Handled(icon).walk
    BY <1>4 DEF ClickIcon, serverVars, iconVars
  <2>2. Clicked(Node)
    BY NodeFields DEF ListsInv, Clicked
  <2>3. Clicked(Handled(icon))
    BY <2>2, HandledStep DEF ListsInv, ListsTypeOK
  <2>4. Node' = Handled(icon)
    BY <2>1, <2>3, NodeFields DEF Node, Clicked, NodeInv
  <2>5. ListsInv'
    BY <2>1, <2>3, <2>4, TypesFollow DEF Clicked, ListsInv
  <2>6. ExpandedStep
    <3> SUFFICES ASSUME NEW l \in List, class # Expanded[l], class' = Expanded[l]
                 PROVE  \A k \in 1..Len(shown[l]) : shown'[l][k]
      BY DEF ExpandedStep
    <3>1. shown[l] = <<>>
      BY <2>1, <2>3 DEF Clicked
    <3> QED
      BY <3>1
  <2> QED
    BY <2>5, <2>6 DEF GoodListsStep
<1>5. ASSUME NEW body \in Body, Held(body), RefreshSessionInDrilldown(body) PROVE GoodListsStep
  BY <1>5, RefreshStep DEF GoodListsStep
<1>6. CASE Walk
  <2>1. Placed(shown', slides') /\ NodeInv(shown', slides', Node') /\ ExpandedStep
    BY <1>6, WalkUp, WalkDown
  <2>2. UNCHANGED <<files, finished, shown, complete, handlers>>
    BY <1>6 DEF Walk, serverVars, iconVars
  <2> QED
    BY <2>1, <2>2, TypesFollow DEF GoodListsStep
<1>7. CASE SlideEnds
  <2>1. Placed(shown', slides') /\ NodeInv(shown', slides', Node') /\ ExpandedStep
    BY <1>7, SlideEndsStep
  <2>2. UNCHANGED <<files, finished, complete, handlers>>
    BY <1>7 DEF SlideEnds, serverVars, iconVars
  <2>3. \A l \in List : Len(shown'[l]) = Len(shown[l])
    BY <1>7, SlideEndsFacts
  <2> QED
    BY <2>1, <2>2, <2>3, TypesFollow DEF GoodListsStep
<1> QED
  BY <1>1, <1>2, <1>3, <1>4, <1>5, <1>6, <1>7 DEF ListsNext

\* The invariant holds, and every expansion that ends shows all.
LEMMA ListsInvariant == ListsSpec => []ListsInv /\ [][ExpandedStep]_listsVars
<1>1. ListsInit => ListsInv
  BY InitListsInv
<1>2. ListsInv /\ [ListsNext]_listsVars => ListsInv' /\ ExpandedStep
  BY ListsStep DEF GoodListsStep
<1> QED
  BY <1>1, <1>2, PTL DEF ListsSpec

\* The lists are type correct: no list is longer than that of the server.
THEOREM ListsTypeCorrect == ListsSpec => []ListsTypeOK
<1>1. ListsInv => ListsTypeOK
  BY DEF ListsInv
<1> QED
  BY <1>1, ListsInvariant, PTL

\* Outside a transition the list that is not expanded is hidden or on its way,
\* whatever was clicked, refreshed and bound to the icons while the lists moved.
THEOREM OneListIsShown == ListsSpec => []OneListShown
<1>1. ASSUME ListsInv PROVE OneListShown
  <2> SUFFICES ASSUME NEW l \in List, class \notin {"transitioning", Expanded[l]},
                      NEW k \in DOMAIN shown[l]
               PROVE  ~Target(l, k)
    BY DEF OneListShown
  <2>1. DOMAIN shown[l] = 1..Len(shown[l]) /\ DOMAIN slides = 1..Len(slides)
    BY <1>1 DEF ListsInv, Placed
  <2>2. Hidden(shown, slides, l)
    BY <1>1, NodeFields DEF ListsInv, NodeInv, Rests
  <2>3. Slides(l, k) = Own(slides, l, k)
    BY <2>1 DEF Slides, Own
  <2>4. Target(l, k) <=> Goes(shown, slides, l, k)
    BY <2>3 DEF Target, Goes
  <2> QED
    BY <2>1, <2>2, <2>4 DEF Hidden
<1>2. ListsInv => OneListShown
  BY <1>1
<1> QED
  BY <1>2, ListsInvariant, PTL

\* The step that ends the expansion of a list leaves all of it displayed, the files
\* that were added out of sight as well.
THEOREM ExpansionsShowAll == ListsSpec => ExpandedShowsAll
<1>1. ASSUME ListsInv, ExpandedStep
      PROVE  \A l \in List : class # Expanded[l] /\ class' = Expanded[l] =>
               \A k \in DOMAIN shown[l] : shown'[l][k]
  <2>1. \A l \in List : DOMAIN shown[l] = 1..Len(shown[l])
    BY <1>1 DEF ListsInv, Placed
  <2> QED
    BY <1>1, <2>1 DEF ExpandedStep
<1>2. ListsInv /\ ExpandedStep =>
        \A l \in List : class # Expanded[l] /\ class' = Expanded[l] =>
          \A k \in DOMAIN shown[l] : shown'[l][k]
  BY <1>1
<1> QED
  BY <1>2, ListsInvariant, PTL DEF ExpandedShowsAll
=============================================================================
