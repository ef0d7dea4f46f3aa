------------------------------ MODULE Activity ------------------------------
(***************************************************************************)
(* The activity log, the statistics dialog and the streak line of the main *)
(* menu, composed with the streak of module Streak: a handler first logs   *)
(* the review or the new card, in a transaction that stamps it with the    *)
(* time, and calls update_streak later.  The statistics read the log in    *)
(* two ways, by local date (the calendar) and by a range of instants (the  *)
(* counts of the week and the month).                                      *)
(*                                                                         *)
(* Dates are numbered from the first day of a week that begins a month and *)
(* a year, months from 0; weeks, months and years are all of one length.   *)
(* Of several activities logged in one unit of time one is kept.           *)
(***************************************************************************)
EXTENDS Streak, FiniteSets, FiniteSetsExt

CONSTANTS WeekLength, MonthLength, MonthsPerYear,
          MaxPaged,    \* bound: how far the user pages
          MaxChanges   \* bound: moves to another timezone and deleted cards

ASSUME CalendarAssumption ==
  WeekLength \in Nat \ {0} /\ MonthLength \in Nat \ {0} /\ MonthsPerYear \in Nat \ {0}

\* Clocks are put back, but not to before a midnight that has struck.
ASSUME DatesAssumption ==
  \A z \in Zones, s, t \in 0..MaxClock : s <= t => DateAt(s, z) <= DateAt(t, z)

VARIABLES
  logs,      \* when the activities were logged whose cards still exist
  entry,     \* per chat: when its handler logged its activity, if it did
  stats,     \* per chat: the statistics dialog, its data and the month on screen
  changes,   \* moves and deletions so far
  excused    \* history: a log is missing, or has another date than its streak

activity == <<logs, entry, stats, changes, excused>>
allVars == <<vars, activity>>

Closed == [window |-> "closed"]
Unset == Never

ActivityInit ==
  /\ Init
  /\ logs = {} /\ entry = [c \in Chats |-> Never]
  /\ stats = [c \in Chats |-> Closed]
  /\ changes = 0 /\ excused = FALSE

-----------------------------------------------------------------------------
(* What the getters compute.                                               *)

MonthOf(d) == d \div MonthLength
WeekOf(d) == d \div WeekLength
Today == LocalDate(zone)

\* Faulty form of LocalDay: the day of the timestamp as it is stored, in UTC.
LocalDayUTC(t, z) == t \div DayLength

\* get_active_days: the day of func.timezone(tz, created_at).
LocalDay(t, z) == DateAt(t, z)

ActiveDays(month, z) == {d \in {LocalDay(t, z) : t \in logs} : MonthOf(d) = month}

\* build_calendar_days, for a date of the month on screen.
Marker(d, z) ==
  IF d \in ActiveDays(MonthOf(d), z) THEN "fire"
  ELSE IF d = LocalDate(z) THEN IF user.current > 0 THEN "warning" ELSE "inactive"
  ELSE IF MonthOf(d) = MonthOf(LocalDate(z)) /\ d > LocalDate(z) THEN "empty"
  ELSE "inactive"

\* Faulty form of Instant: today's offset, whatever it was on that date.
InstantByNow(d, z) == d * DayLength - Offset[z][clock]

\* datetime.combine(d, time.min, tzinfo=zone) in UTC: when date d begins.
Instant(d, z) ==
  Min({t \in 0..clock : LocalTime(t, z) >= d * DayLength})

CountFrom(d, z) ==
  LET start == Instant(d, z) IN Cardinality({t \in logs : t >= start /\ t < clock})

\* get_review_counts: the range begins on Monday, or on the first.
WeekCount(z) == LET today == LocalDate(z) IN CountFrom(today - (today % WeekLength), z)
MonthCount(z) == LET today == LocalDate(z) IN CountFrom(today - (today % MonthLength), z)

\* main_menu_getter.
MenuFlame == user.current > 0 /\ user.last = Today
MenuWarning == user.current > 0 /\ user.last # Today

-----------------------------------------------------------------------------
(* Activities.                                                             *)

\* From the review or the lookup dialog, so not while the statistics are open.
Begin(c) == stats[c] = Closed /\ Arrive(c) /\ UNCHANGED activity

\* StatsService.log_activity.
Log(c) ==
  /\ call[c].pc = "arrived" /\ entry[c] = Never
  /\ logs' = logs \cup {clock}
  /\ entry' = [entry EXCEPT ![c] = clock]
  /\ UNCHANGED <<vars, stats, changes, excused>>

\* Midnight may fall between the log and the date; and a rating in a session
\* without cards goes on without a log.
AskDate(c) ==
  /\ Call(c)
  /\ excused' = (excused \/ entry[c] = Never \/ DateAt(entry[c], call[c].zone) # call'[c].today)
  /\ entry' = [entry EXCEPT ![c] = Never]
  /\ UNCHANGED <<logs, stats, changes>>

UpdateStreak(c) == (Read(c) \/ Write(c)) /\ UNCHANGED activity

\* The handler was not to update the streak, or failed.
Stop(c) ==
  /\ Abandon(c)
  /\ entry' = [entry EXCEPT ![c] = Never]
  /\ UNCHANGED <<logs, stats, changes, excused>>

\* The logs of a card are deleted with it (ondelete="CASCADE").
DeleteCard(t) ==
  /\ changes < MaxChanges
  /\ logs' = logs \ {t}
  /\ changes' = changes + 1 /\ excused' = TRUE
  /\ UNCHANGED <<vars, entry, stats>>

Move(z) ==
  /\ changes < MaxChanges
  /\ SetTimezone(z)
  /\ changes' = changes + 1 /\ excused' = TRUE
  /\ UNCHANGED <<logs, entry, stats>>

-----------------------------------------------------------------------------
(* The statistics dialog.  Year and month are unset until the user pages.  *)

Year(data) == IF data.year = Unset THEN MonthOf(Today) \div MonthsPerYear ELSE data.year
Month(data) == IF data.month = Unset THEN (MonthOf(Today) % MonthsPerYear) + 1 ELSE data.month

Asked(data) == Year(data) * MonthsPerYear + Month(data) - 1

\* overview_getter.
Rendered(data) == [data EXCEPT !.window = "overview", !.shown = Asked(data)]

Show(c, data) ==
  /\ call[c] = Idle
  /\ stats' = [stats EXCEPT ![c] = data]
  /\ UNCHANGED <<vars, logs, entry, changes, excused>>

OpenStats(c) ==
  /\ stats[c] = Closed
  /\ Show(c, Rendered([window |-> "overview", year |-> Unset, month |-> Unset, shown |-> Unset]))

\* Faulty form of Before: a year is never left.
BeforeSameYear(data) ==
  [data EXCEPT !.month = IF Month(data) = 1 THEN MonthsPerYear ELSE Month(data) - 1]

Before(data) ==
  IF Month(data) = 1 THEN [data EXCEPT !.year = Year(data) - 1, !.month = MonthsPerYear]
  ELSE [data EXCEPT !.month = Month(data) - 1]

After(data) ==
  IF Month(data) = MonthsPerYear THEN [data EXCEPT !.year = Year(data) + 1, !.month = 1]
  ELSE [data EXCEPT !.month = Month(data) + 1]

Near(data) == Asked(data) - MonthOf(Today) \in -MaxPaged..MaxPaged

PrevMonth(c) ==
  /\ stats[c].window = "overview" /\ Near(Before(stats[c]))
  /\ Show(c, Rendered(Before(stats[c])))
NextMonth(c) ==
  /\ stats[c].window = "overview" /\ Near(After(stats[c]))
  /\ Show(c, Rendered(After(stats[c])))

\* SwitchTo the statistics of the decks, which are read only, and back.
ToDecks(c) ==
  /\ stats[c].window = "overview"
  /\ Show(c, [stats[c] EXCEPT !.window = "decks", !.shown = Unset])
FromDecks(c) ==
  /\ stats[c].window = "decks"
  /\ Show(c, Rendered(stats[c]))

BackToMenu(c) ==
  /\ stats[c] # Closed
  /\ Show(c, Closed)

ActivityNext ==
  \/ \E c \in Chats :
       \/ Begin(c) \/ Log(c) \/ AskDate(c) \/ UpdateStreak(c) \/ Stop(c)
       \/ OpenStats(c) \/ PrevMonth(c) \/ NextMonth(c) \/ ToDecks(c) \/ FromDecks(c)
       \/ BackToMenu(c)
  \/ \E t \in logs : DeleteCard(t)
  \/ \E z \in Zones : Move(z)
  \/ Tick /\ UNCHANGED activity

ActivitySpec == ActivityInit /\ [][ActivityNext]_allVars

-----------------------------------------------------------------------------

\* The counts, taken over a range of instants, are the activities whose local
\* dates are in this week or month up to now, in whatever timezone: none near
\* midnight or a change of the clocks is counted twice, or not at all.
CountsMatchDates ==
  \A z \in Zones :
    LET today == LocalDate(z)
        Dated(Period(_)) ==
          Cardinality({t \in logs : t < clock /\ Period(DateAt(t, z)) = Period(today)})
    IN  WeekCount(z) = Dated(WeekOf) /\ MonthCount(z) = Dated(MonthOf)

\* The calendar, the menu and the streak agree: every day of the current streak
\* is marked in the calendar, today with it when the menu shows the flame, and
\* today's date never warns without the menu.  Excused are days whose log was deleted with its
\* card, was never written, or fell on the other side of midnight, and those
\* dated before the user moved.
CalendarTellsStreak ==
  ~ excused =>
    /\ user.last # Never =>
         \A d \in (user.last - user.current + 1)..user.last : Marker(d, zone) = "fire"
    /\ MenuFlame => Marker(Today, zone) = "fire"
    /\ Marker(Today, zone) = "warning" => MenuWarning

\* Paging shows the month before or after the one on screen, across years,
\* unless the month, or a year the user has not left, has ended meanwhile.
MonthAsPaged ==
  [][\A c \in Chats :
       stats[c].window = "overview" /\ stats[c].shown = Asked(stats[c]) =>
         /\ PrevMonth(c) => stats'[c].shown = stats[c].shown - 1
         /\ NextMonth(c) => stats'[c].shown = stats[c].shown + 1]_allVars
=============================================================================
