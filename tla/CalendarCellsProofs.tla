---------------------------- MODULE CalendarCellsProofs ----------------------------
(***************************************************************************)
(* Whatever is selected, in whatever order, and whichever months and weeks *)
(* are dragged through, the calendar draws the runs of selected dates: for *)
(* any dates, months and weeks.                                            *)
(***************************************************************************)
EXTENDS CalendarCells, TLAPS

CellsInv == TypeOK /\ CellsAreConfigured

LEMMA SelectionTypeIsType ==
    ASSUME NEW selection, NEW day
    PROVE  SelectionTypeOf(selection, day) \in SelectionType
  BY DEF SelectionTypeOf, SelectionType

\* Once the cells of some dates are configured for the new selection and no
\* other cell comes on screen, all cells on screen are configured for it.
LEMMA RedrawConfigures ==
    ASSUME CellsInv, NEW shown \in SUBSET Day, NEW fresh \in SUBSET shown,
           Redraw(shown, fresh, selectedDates'), Visible' = shown,
           pages' \in SUBSET Page, selectedDates' \in SUBSET Day, today' \in Day,
           selectedDates' = selectedDates \/ fresh = shown,
           shown \ fresh \subseteq Visible
    PROVE  CellsInv'
<1>1. TypeOK'
  <2>1. drawn' \in [Day -> SelectionType]
    BY SelectionTypeIsType DEF Redraw, CellsInv, TypeOK, SelectionType
  <2>2. circled' \in SUBSET Day /\ circled' \subseteq Visible'
    BY DEF Redraw, CellsInv, TypeOK
  <2>3. \A day \in Day \ Visible' : drawn'[day] = "none"
    BY DEF Redraw
  <2> QED
    BY <2>1, <2>2, <2>3 DEF TypeOK
<1>2. CellsAreConfigured'
  <2> SUFFICES ASSUME NEW day \in shown
               PROVE  drawn'[day] = SelectionTypeOf(selectedDates', day)
    BY DEF CellsAreConfigured
  <2>1. CASE day \in fresh
    BY <2>1 DEF Redraw
  <2>2. CASE day \notin fresh
    <3>1. drawn'[day] = drawn[day] /\ day \in Visible /\ selectedDates' = selectedDates
      BY <2>2 DEF Redraw
    <3> QED
      BY <3>1 DEF CellsInv, CellsAreConfigured
  <2> QED
    BY <2>1, <2>2
<1> QED
  BY <1>1, <1>2 DEF CellsInv

LEMMA VisibleDates ==
    ASSUME NEW shown \in SUBSET Page
    PROVE  UNION shown \subseteq Day
  BY PageAssumption DEF Page

LEMMA CellsInit == Init => CellsInv
<1> SUFFICES ASSUME Init PROVE CellsInv
  OBVIOUS
<1>1. PICK month \in Months : today \in month /\ pages = {month}
  BY DEF Init
<1>2. Visible = month /\ month \subseteq Day
  BY <1>1, PageAssumption DEF Visible
<1>3. TypeOK
  BY <1>1, <1>2 DEF Init, TypeOK, Page, SelectionType
<1>4. CellsAreConfigured
  BY <1>2 DEF Init, CellsAreConfigured, SelectionTypeOf
<1> QED
  BY <1>3, <1>4 DEF CellsInv

LEMMA CellsStep == CellsInv /\ [Next]_vars => CellsInv'
<1> SUFFICES ASSUME CellsInv, [Next]_vars PROVE CellsInv'
  OBVIOUS
<1>1. Visible \subseteq Day /\ pages \in SUBSET Page
  BY VisibleDates DEF CellsInv, TypeOK, Visible
<1>2. ASSUME NEW day \in Day, SelectDate(day) \/ DeselectDate(day)
      PROVE  CellsInv'
  <2>1. /\ Redraw(Visible, Visible, selectedDates') /\ pages' = pages /\ today' = today
        /\ selectedDates' \in SUBSET Day
    BY <1>2 DEF SelectDate, DeselectDate, ConfigureVisibleCells, CellsInv, TypeOK
  <2>2. Visible' = Visible
    BY <2>1 DEF Visible
  <2> QED
    BY <1>1, <2>1, <2>2, RedrawConfigures DEF CellsInv, TypeOK
<1>3. ASSUME NEW page \in Page, DragIn(page)
      PROVE  CellsInv'
  <2>1. /\ pages' = pages \cup {page} /\ Redraw(UNION pages', page, selectedDates')
        /\ selectedDates' = selectedDates /\ today' = today
    BY <1>3 DEF DragIn, WillDisplay
  <2>2. Visible' = Visible \cup page /\ Visible' = UNION pages'
    BY <2>1 DEF Visible
  <2>3. page \subseteq Day
    BY PageAssumption DEF Page
  <2> QED
    BY <1>1, <2>1, <2>2, <2>3, RedrawConfigures DEF CellsInv, TypeOK
<1>4. ASSUME NEW page \in Page, DragEnd(page)
      PROVE  CellsInv'
  <2>1. /\ pages' = {page} /\ page \in pages /\ Redraw(UNION pages', {}, selectedDates')
        /\ selectedDates' = selectedDates /\ today' = today
    BY <1>4 DEF DragEnd, WillDisplay
  <2>2. Visible' = page /\ UNION pages' = page /\ page \subseteq Visible
    BY <2>1 DEF Visible
  <2> QED
    BY <1>1, <2>1, <2>2, RedrawConfigures DEF CellsInv, TypeOK
<1>5. ASSUME NEW page \in Page, SetScope(page)
      PROVE  CellsInv'
  <2>1. /\ pages' = {page} /\ Redraw(UNION pages', page, selectedDates')
        /\ selectedDates' = selectedDates /\ today' = today
    BY <1>5 DEF SetScope, WillDisplay
  <2>2. Visible' = page /\ UNION pages' = page /\ page \subseteq Day
    BY <2>1, PageAssumption DEF Visible, Page
  <2> QED
    BY <1>1, <2>1, <2>2, RedrawConfigures DEF CellsInv, TypeOK
<1>6. CASE ReloadData
  <2>1. /\ pages' = pages /\ Redraw(UNION pages', Visible, selectedDates')
        /\ selectedDates' = selectedDates /\ today' = today
    BY <1>6 DEF ReloadData, WillDisplay
  <2>2. Visible' = Visible /\ UNION pages' = Visible
    BY <2>1 DEF Visible
  <2> QED
    BY <1>1, <2>1, <2>2, RedrawConfigures DEF CellsInv, TypeOK
<1>7. CASE Midnight
  BY <1>7 DEF Midnight, CellsInv, TypeOK, CellsAreConfigured, Visible
<1>8. CASE UNCHANGED vars
  BY <1>8 DEF vars, CellsInv, TypeOK, CellsAreConfigured, Visible
<1> QED
  BY <1>2, <1>3, <1>4, <1>5, <1>6, <1>7, <1>8 DEF Next

\* Cells classified one by one draw the runs.
LEMMA ConfiguredCellsDrawRuns == CellsInv => RunsAreDrawn
<1> SUFFICES ASSUME CellsInv PROVE RunsAreDrawn
  OBVIOUS
<1>1. ASSUME NEW first \in Day, NEW last \in Day, first <= last, IsRun(first, last),
             NEW day \in (first..last) \cap Visible
      PROVE  drawn[day] = PlaceInRun(first, last, day)
  <2>1. /\ first \in Int /\ last \in Int /\ day \in Int
        /\ first <= day /\ day <= last /\ day \in selectedDates
    BY <1>1, DayAssumption DEF IsRun
  <2>2. drawn[day] = SelectionTypeOf(selectedDates, day)
    BY <1>1 DEF CellsInv, CellsAreConfigured
  <2>3. day - 1 \in selectedDates <=> day # first
    BY <1>1, <2>1 DEF IsRun
  <2>4. day + 1 \in selectedDates <=> day # last
    BY <1>1, <2>1 DEF IsRun
  <2> QED
    BY <2>1, <2>2, <2>3, <2>4 DEF SelectionTypeOf, PlaceInRun
<1>2. \A day \in Visible \ selectedDates : drawn[day] = "none"
  BY DEF CellsInv, CellsAreConfigured, SelectionTypeOf
<1> QED
  BY <1>1, <1>2 DEF RunsAreDrawn

\* What is on screen is drawn, and nothing else (TypeOK), always.
THEOREM CellsTypeCorrect == Spec => []TypeOK
<1>1. CellsInv => TypeOK
  BY DEF CellsInv
<1> QED
  BY <1>1, CellsInit, CellsStep, PTL DEF Spec

\* Every run of selected dates on screen is always drawn as one bar or disc
\* (configure, configureVisibleCells, willDisplay).
THEOREM RunsAreAlwaysDrawn == Spec => []RunsAreDrawn
  BY CellsInit, CellsStep, ConfiguredCellsDrawRuns, PTL DEF Spec

\* A tap leaves no circle on screen but today's (configureVisibleCells).
THEOREM CircleAlwaysFollowsTap == Spec => CircleFollowsTap
<1>1. CellsInv /\ [Next]_vars =>
          [selectedDates' # selectedDates => circled' \cap Visible' = {today} \cap Visible]_vars
  <2> SUFFICES ASSUME CellsInv, Next, selectedDates' # selectedDates
               PROVE  circled' \cap Visible' = {today} \cap Visible
    BY DEF vars
  <2>1. PICK day \in Day : SelectDate(day) \/ DeselectDate(day)
    BY DEF Next, DragIn, DragEnd, SetScope, ReloadData, Midnight
  <2>2. Redraw(Visible, Visible, selectedDates') /\ pages' = pages
    BY <2>1 DEF SelectDate, DeselectDate, ConfigureVisibleCells
  <2> QED
    BY <2>2 DEF Redraw, Visible
<1> QED
  BY <1>1, CellsInit, CellsStep, PTL DEF Spec, CircleFollowsTap
================================================================================
