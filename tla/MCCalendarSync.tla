--------------------------- MODULE MCCalendarSync ---------------------------
(***************************************************************************)
(* CalendarSync on the events 1..MaxEvent.                                 *)
(***************************************************************************)
EXTENDS CalendarSync

CONSTANT MaxEvent

CalendarEvents == 1..MaxEvent
=============================================================================
