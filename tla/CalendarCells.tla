------------------------------ MODULE CalendarCells ------------------------------
(***************************************************************************)
(* How the calendar draws the selected dates: a date alone is a disc, a    *)
(* run of consecutive dates is a bar with round ends.  No cell is drawn    *)
(* from what its neighbours look like: each is classified by itself when   *)
(* it comes on screen, and all that are on screen whenever a date is       *)
(* tapped.  The calendar shows a month or a week, and two neighbouring     *)
(* ones while a finger drags it; dates are numbered.                       *)
(***************************************************************************)
EXTENDS Integers

CONSTANTS
    Day,        \* the dates
    Months,     \* the pages of the month scope, sets of dates
    Weeks       \* the pages of the week scope

ASSUME DayAssumption == Day \subseteq Int
ASSUME PageAssumption == Months \subseteq SUBSET Day /\ Weeks \subseteq SUBSET Day

VARIABLES
    selectedDates,  \* FSCalendar's selected dates
    pages,          \* the pages of which cells are on screen
    drawn,          \* per date: what the selection layer of its cell shows
    circled,        \* the dates whose cell shows today's circle
    today           \* the date

vars == <<selectedDates, pages, drawn, circled, today>>

SelectionType == {"none", "single", "leftBorder", "middle", "rightBorder"}

Page == Months \cup Weeks
Visible == UNION pages

\* The types of the variables; and only what is on screen is drawn.
TypeOK ==
    /\ selectedDates \in SUBSET Day
    /\ pages \in SUBSET Page
    /\ drawn \in [Day -> SelectionType]
    /\ circled \in SUBSET Day
    /\ today \in Day
    /\ circled \subseteq Visible /\ \A day \in Day \ Visible : drawn[day] = "none"

\* A fault: the date before decides alone.
ByPreviousDate(selection, day) ==
    IF day \notin selection THEN "none"
    ELSE IF day - 1 \in selection THEN "rightBorder"
    ELSE IF day + 1 \in selection THEN "leftBorder" ELSE "single"

\* configure: none unless the date is selected; a neighbour that is selected
\* too takes the round end on its side.
SelectionTypeOf(selection, day) ==
    IF day \notin selection THEN "none"
    ELSE CASE day - 1 \in selection /\ day + 1 \in selection      -> "middle"
           [] day - 1 \in selection /\ day + 1 \notin selection   -> "rightBorder"
           [] day - 1 \notin selection /\ day + 1 \in selection   -> "leftBorder"
           [] OTHER                                               -> "single"

\* Cells are on screen for the dates shown; those of the dates in fresh are
\* configured for a selection, the others stay as they are.
Redraw(shown, fresh, selection) ==
    /\ drawn' = [day \in Day |->
           CASE day \in fresh          -> SelectionTypeOf(selection, day)
             [] day \in shown \ fresh  -> drawn[day]
             [] OTHER                  -> "none"]
    /\ circled' = ({today} \cap fresh) \cup (circled \cap (shown \ fresh))

\* The calendar opens on the month, with nothing selected.
Init ==
    /\ selectedDates = {}
    /\ today \in Day
    /\ \E month \in Months : today \in month /\ pages = {month}
    /\ drawn = [day \in Day |-> "none"]
    /\ circled = {today}

\* A fault: only the cell that was tapped is configured.
ConfigureTapped(day) == Redraw(Visible, {day}, selectedDates')

\* configureVisibleCells, after a tap on a date.
ConfigureVisibleCells(day) == Redraw(Visible, Visible, selectedDates')

SelectDate(day) ==
    /\ day \in Visible \ selectedDates
    /\ selectedDates' = selectedDates \cup {day}
    /\ ConfigureVisibleCells(day)
    /\ UNCHANGED <<pages, today>>

DeselectDate(day) ==
    /\ day \in Visible \cap selectedDates
    /\ selectedDates' = selectedDates \ {day}
    /\ ConfigureVisibleCells(day)
    /\ UNCHANGED <<pages, today>>

\* A fault: cells are used again as they were last drawn.
Reuse(days) ==
    /\ \E type \in SelectionType : drawn' = [day \in Day |->
           IF day \in days THEN type ELSE drawn[day]]
    /\ UNCHANGED circled

\* willDisplay: cells that come on screen are configured.
WillDisplay(days) == Redraw(UNION pages', days, selectedDates)

\* A finger drags a neighbouring page of the same scope in.
DragIn(page) ==
    /\ \E scope \in {Months, Weeks} : pages \cup {page} \subseteq scope
    /\ \E shown \in pages : pages = {shown} /\ shown # page
    /\ \E i \in page, j \in Visible : i = j + 1 \/ j = i + 1
    /\ pages' = pages \cup {page}
    /\ WillDisplay(page)
    /\ UNCHANGED <<selectedDates, today>>

\* The drag ends on one of the two pages.
DragEnd(page) ==
    /\ page \in pages /\ pages # {page}
    /\ pages' = {page}
    /\ WillDisplay({})
    /\ UNCHANGED <<selectedDates, today>>

\* The scope gesture shows a week of the month or the month of the week:
\* all cells are loaded again.
SetScope(page) ==
    /\ \E shown \in pages : pages = {shown} /\ shown \cap page # {}
    /\ ~\E scope \in {Months, Weeks} : pages \cup {page} \subseteq scope
    /\ pages' = {page}
    /\ WillDisplay(page)
    /\ UNCHANGED <<selectedDates, today>>

\* calendarData's didSet: reloadData displays all cells again.
ReloadData ==
    /\ UNCHANGED <<selectedDates, pages, today>>
    /\ WillDisplay(Visible)

Midnight ==
    /\ today + 1 \in Day
    /\ today' = today + 1
    /\ UNCHANGED <<selectedDates, pages, drawn, circled>>

Next ==
    \/ \E day \in Day : SelectDate(day) \/ DeselectDate(day)
    \/ \E page \in Page : DragIn(page) \/ DragEnd(page) \/ SetScope(page)
    \/ ReloadData
    \/ Midnight

Spec == Init /\ [][Next]_vars

(***************************************************************************)
(* Properties.                                                             *)
(***************************************************************************)
\* A run of selected dates that no selected date prolongs.
IsRun(first, last) ==
    /\ first..last \subseteq selectedDates
    /\ first - 1 \notin selectedDates /\ last + 1 \notin selectedDates

PlaceInRun(first, last, day) ==
    IF first = last THEN "single"
    ELSE CASE day = first -> "leftBorder" [] day = last -> "rightBorder" [] OTHER -> "middle"

\* On screen every run of selected dates is one bar with two round ends, or
\* a disc, and nothing else is drawn, although cells are configured one by
\* one and at different times (configure, configureVisibleCells,
\* willDisplay).
RunsAreDrawn ==
    /\ \A first \in Day, last \in Day : first <= last /\ IsRun(first, last) =>
           \A day \in (first..last) \cap Visible : drawn[day] = PlaceInRun(first, last, day)
    /\ \A day \in Visible \ selectedDates : drawn[day] = "none"

\* However many midnights have passed, once a date is tapped there is no
\* circle on screen but today's.
CircleFollowsTap ==
    [][selectedDates' # selectedDates => circled' \cap Visible' = {today} \cap Visible]_vars

\* What holds cell by cell.
CellsAreConfigured ==
    \A day \in Visible : drawn[day] = SelectionTypeOf(selectedDates, day)
================================================================================
