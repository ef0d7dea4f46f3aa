------------------------------- MODULE Streak -------------------------------
(***************************************************************************)
(* The daily streak of one user (UserService.update_streak).  A handler    *)
(* that ends a review session or adds a card computes the user's local     *)
(* date from the timezone the middleware read when the update arrived      *)
(* (infra/tg/middlewares.py), and hands it to update_streak, which reads   *)
(* the user's row and later writes it back without a lock.  Several chats  *)
(* of the user may be doing this at once, across midnight, and while the   *)
(* timezone is being changed in the settings.                              *)
(***************************************************************************)
EXTENDS Integers

CONSTANTS
  Chats,      \* the chats the user talks to the bot in
  DayLength,  \* clock units in a day
  Never,      \* last_activity_date before the first activity (NULL)
  Zones,      \* the timezones the user may choose
  Offset,     \* the offset of each from UTC at each time, daylight saving included
  MaxClock    \* bound: the clock

ASSUME DayLengthAssumption == DayLength \in Nat \ {0}
ASSUME NeverAssumption == Never \notin Int
ASSUME MaxClockAssumption == MaxClock \in Nat
ASSUME OffsetAssumption == Offset \in [Zones -> [0..MaxClock -> Int]]

VARIABLES
  user,       \* the streak columns of the users row
  zone,       \* its timezone column
  clock,      \* UTC time
  call,       \* per chat: the handler that is about to update the streak
  days,       \* history: the dates on which an update was committed
  disturbed   \* history: an update overwrote a newer row, or went back in time

vars == <<user, zone, clock, call, days, disturbed>>

Users == [current : Nat, longest : Nat, last : Int \cup {Never}]

Idle == [pc |-> "idle"]

Calls ==
       {Idle}
  \cup [pc : {"arrived"}, zone : Zones]
  \cup [pc : {"called"}, today : Int]
  \cup [pc : {"read"}, today : Int, row : Users]

TypeOK ==
  /\ user \in Users
  /\ zone \in Zones
  /\ clock \in 0..MaxClock
  /\ call \in [Chats -> Calls]
  /\ days \subseteq Int
  /\ disturbed \in BOOLEAN

\* datetime.now(ZoneInfo(z)).date(), at any time.
LocalTime(t, z) == t + Offset[z][t]
DateAt(t, z) == LocalTime(t, z) \div DayLength
LocalDate(z) == DateAt(clock, z)

Greater(a, b) == IF a >= b THEN a ELSE b

\* Faulty form of NextStreak: any later day continues the streak.
NextStreakNoGap(row, today) ==
  IF row.last # Never /\ row.last < today THEN row.current + 1 ELSE 1

NextStreak(row, today) ==
  IF row.last = today - 1 THEN row.current + 1 ELSE 1

\* Faulty form of Advanced: the record is replaced, not raised.
AdvancedForgetsRecord(row, today) ==
  [current |-> NextStreak(row, today), longest |-> NextStreak(row, today), last |-> today]

Advanced(row, today) ==
  [current |-> NextStreak(row, today),
   longest |-> Greater(row.longest, NextStreak(row, today)),
   last    |-> today]

\* Faulty form of NewUser: the streak columns have no default.
NewUserWithoutDefaults == [current |-> Never, longest |-> Never, last |-> Never]

NewUser == [current |-> 0, longest |-> 0, last |-> Never]

Init ==
  /\ user = NewUser
  /\ zone \in Zones
  /\ clock = 0
  /\ call = [c \in Chats |-> Idle]
  /\ days = {}
  /\ disturbed = FALSE

\* UserMiddleware reads the user before the handler runs.
Arrive(c) ==
  /\ call[c] = Idle
  /\ call' = [call EXCEPT ![c] = [pc |-> "arrived", zone |-> zone]]
  /\ UNCHANGED <<user, zone, clock, days, disturbed>>

\* The handler has logged what it had to, and asks what day it is.
Call(c) ==
  /\ call[c].pc = "arrived"
  /\ call' = [call EXCEPT ![c] = [pc |-> "called", today |-> LocalDate(call[c].zone)]]
  /\ UNCHANGED <<user, zone, clock, days, disturbed>>

\* update_streak reads the row; the second activity of a day ends here.
Read(c) ==
  /\ call[c].pc = "called"
  /\ call' = [call EXCEPT ![c] =
       IF user.last = call[c].today THEN Idle
       ELSE [pc |-> "read", today |-> call[c].today, row |-> user]]
  /\ UNCHANGED <<user, zone, clock, days, disturbed>>

Write(c) ==
  LET today == call[c].today
  IN  /\ call[c].pc = "read"
      /\ user' = Advanced(call[c].row, today)
      /\ call' = [call EXCEPT ![c] = Idle]
      /\ days' = days \cup {today}
      /\ disturbed' = (disturbed \/ user # call[c].row
                         \/ (user.last # Never /\ today < user.last))
      /\ UNCHANGED <<zone, clock>>

\* The handler fails or the process dies; nothing was committed by it.
Abandon(c) ==
  /\ call[c] # Idle
  /\ call' = [call EXCEPT ![c] = Idle]
  /\ UNCHANGED <<user, zone, clock, days, disturbed>>

\* on_tz_confirmed, from whichever chat shows the settings.
SetTimezone(z) ==
  /\ z # zone
  /\ zone' = z
  /\ UNCHANGED <<user, clock, call, days, disturbed>>

Tick ==
  /\ clock < MaxClock
  /\ clock' = clock + 1
  /\ UNCHANGED <<user, zone, call, days, disturbed>>

Next ==
  \/ \E c \in Chats : Arrive(c) \/ Call(c) \/ Read(c) \/ Write(c) \/ Abandon(c)
  \/ \E z \in Zones : SetTimezone(z)
  \/ Tick

Spec == Init /\ [][Next]_vars

-----------------------------------------------------------------------------

\* No interleaving of chats, midnight or change of timezone ever inflates a
\* streak: the current streak is a run of consecutive active days that ends on
\* the last active day, and the record was really reached by some run.
StreakEarned ==
  /\ user.current <= user.longest
  /\ IF user.last = Never THEN user.current = 0
     ELSE user.current >= 1 /\ (user.last - user.current + 1)..user.last \subseteq days
  /\ user.longest > 0 => \E d \in days : d..(d + user.longest - 1) \subseteq days

StreakIsMaximal ==
  ~ disturbed /\ user.last # Never =>
    /\ user.last - user.current \notin days
    /\ \A d \in days : d <= user.last

RecordIsLongestRun ==
  ~ disturbed =>
    \A first, last \in days :
      first <= last /\ first..last \subseteq days => last - first + 1 <= user.longest

\* Unless an update overwrote a newer row or went back in time, the streak is
\* exact: it is the whole run that ends on the latest active day, no active day
\* is later, and the record is the longest run the user ever had.
StreakIsExact == StreakIsMaximal /\ RecordIsLongestRun
=============================================================================
