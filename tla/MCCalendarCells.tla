------------------------------ MODULE MCCalendarCells ------------------------------
(* Nine days: two months, and weeks of four days, one across the months. *)
EXTENDS CalendarCells

TwoMonths  == {1..5, 6..9}
ThreeWeeks == {1..3, 4..7, 8..9}
================================================================================
