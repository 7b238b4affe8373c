------------------------------ MODULE MCArithmetic ------------------------------
(***************************************************************************)
(* The arithmetic of dates and of delays, in one run: a behaviour walks    *)
(* the calendar, makes one retried call, or runs the ticker.               *)
(***************************************************************************)
EXTENDS CalendarTime, Delays

VARIABLE subject

vars == <<subject, calendar, call, ticker>>

SomePolicy ==
  CHOOSE p \in [base_delay: BaseDelays, max_delay: MaxDelays, max_attempts: MaxAttempts] : TRUE

MCInit ==
  \/ /\ subject = "calendar"
     /\ CalendarInit /\ CallInit /\ policy = SomePolicy /\ TickerInit /\ expires_in = 0
  \/ /\ subject = "call"
     /\ CalendarInit /\ CallInit /\ TickerInit /\ expires_in = 0
  \/ /\ subject = "ticker"
     /\ CalendarInit /\ CallInit /\ policy = SomePolicy /\ TickerInit

MCNext ==
  \/ subject = "calendar" /\ CalendarNext /\ UNCHANGED <<subject, call, ticker>>
  \/ subject = "call" /\ CallNext /\ UNCHANGED <<subject, calendar, ticker>>
  \/ subject = "ticker" /\ TickerNext /\ UNCHANGED <<subject, calendar, call>>

MCSpec == MCInit /\ [][MCNext]_vars

-------------------------------------------------------------------------------
(* Timestamps around the ends of a month *)

Zones ==
  {[sign |-> 1, hours |-> 0, minutes |-> 0], [sign |-> 1, hours |-> 5, minutes |-> 45],
   [sign |-> 1, hours |-> 23, minutes |-> 59], [sign |-> -1, hours |-> 0, minutes |-> 1],
   [sign |-> -1, hours |-> 23, minutes |-> 59], [sign |-> -1, hours |-> 24, minutes |-> 0]}

Fractions == {<<>>, <<5>>, <<9, 9, 9>>}

\* Every offset at every time of day, and every fraction beside a few of them.
MCTexts ==
  [day: {0, 1, 28, 29, 30, 31}, hour: {0, 23, 24}, minute: {0, 59}, second: {59, 60},
   zone: Zones, fraction: {<<0, 7>>}]
  \cup
  [day: {1, 29}, hour: {12}, minute: {0}, second: {59},
   zone: {[sign |-> 1, hours |-> 5, minutes |-> 45]}, fraction: Fractions]

\* Seconds since the epoch have 32 bits in TLC, which they keep to from 1902 to 2037;
\* counted in hundredths, within half a year of the epoch.
MCComparedYears == 1902..2037
MCComparedDays == -150..150

=============================================================================
