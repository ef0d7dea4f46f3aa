--------------------------- MODULE ActivityProofs ---------------------------
(***************************************************************************)
(* Proofs about Streak, and about Activity composed with it, for any chats, *)
(* zones, clocks and calendars.  What StreakEarned says of the users row    *)
(* has to be said of every row a handler holds between its read and its     *)
(* write (Backed): that old row is what the next write is computed from.    *)
(* That the calendar tells the streak follows from it, since a day of       *)
(* activity comes from a log (Logged); that the counts match the dates,     *)
(* from dates that do not go back.                                          *)
(***************************************************************************)
EXTENDS Activity, WellFoundedInduction, TLAPS

\* A row is backed by a history when the days it boasts of are in it.
Backed(row, active) ==
  /\ row.current <= row.longest
  /\ row.last = Never => row.current = 0
  /\ row.last # Never =>
       row.current >= 1 /\ (row.last - row.current + 1)..row.last \subseteq active
  /\ row.longest > 0 => \E d \in active : d..(d + row.longest - 1) \subseteq active

ReadsBacked ==
  \A c \in Chats : call[c].pc = "read" =>
    Backed(call[c].row, days) /\ call[c].row.last # call[c].today

\* Nothing is active before the first update, which is never undone.
NeverMeansNone == user.last = Never => days = {}

Inv ==
  /\ TypeOK
  /\ Backed(user, days)
  /\ ReadsBacked
  /\ NeverMeansNone
  /\ StreakIsMaximal
  /\ RecordIsLongestRun

-----------------------------------------------------------------------------

\* Adding a day to a backed row yields a row backed by the longer history:
\* either the run is extended by the day after it, or a run of one day starts.
LEMMA AdvancedBacked ==
  ASSUME NEW row \in Users, NEW today \in Int, NEW active \in SUBSET Int,
         Backed(row, active)
  PROVE  Advanced(row, today) \in Users /\ Backed(Advanced(row, today), active \cup {today})
<1> DEFINE n == NextStreak(row, today)
           new == Advanced(row, today)
           longer == active \cup {today}
<1>1. /\ row.current \in Nat /\ row.longest \in Nat /\ row.last \in Int \cup {Never}
      /\ Never \notin Int
  BY NeverAssumption DEF Users
<1>2. /\ n \in Nat /\ n >= 1
      /\ n = 1 \/ (row.last = today - 1 /\ n = row.current + 1)
  BY <1>1 DEF NextStreak
<1>3. (today - n + 1)..today \subseteq longer
  <2>1. CASE n = 1
    BY <2>1
  <2>2. CASE row.last = today - 1 /\ n = row.current + 1
    <3>1. row.last \in Int /\ (row.last - row.current + 1)..row.last \subseteq active
      BY <1>1, <2>2 DEF Backed
    <3>2. (today - n + 1)..today \subseteq ((row.last - row.current + 1)..row.last) \cup {today}
      BY <1>1, <2>2, <3>1
    <3> QED  BY <3>1, <3>2
  <2> QED  BY <1>2, <2>1, <2>2
<1> HIDE DEF n
<1>4. /\ new = [current |-> n, longest |-> Greater(row.longest, n), last |-> today]
      /\ Greater(row.longest, n) \in Nat
      /\ Greater(row.longest, n) >= n
      /\ Greater(row.longest, n) = n \/ Greater(row.longest, n) = row.longest
  BY <1>1, <1>2 DEF Advanced, Greater, n
<1>5. new \in Users /\ new.current = n /\ new.last = today
      /\ new.longest = Greater(row.longest, n)
  BY <1>2, <1>4 DEF Users
<1> HIDE DEF new
<1>6. new.longest > 0 => \E d \in longer : d..(d + new.longest - 1) \subseteq longer
  <2>1. CASE new.longest = n
    <3>1. today - n + 1 \in longer
      BY <1>2, <1>3
    <3>2. (today - n + 1) + n - 1 = today
      BY <1>2
    <3> QED  BY <1>3, <2>1, <3>1, <3>2
  <2>2. CASE new.longest = row.longest
    BY <2>2 DEF Backed
  <2> QED  BY <1>4, <1>5, <2>1, <2>2
<1>7. new.current <= new.longest /\ new.last # Never /\ new.current >= 1
  BY <1>1, <1>2, <1>4, <1>5
<1>8. Backed(new, longer)
  BY <1>3, <1>5, <1>6, <1>7 DEF Backed
<1> QED  BY <1>5, <1>8 DEF new

\* A backed row stays backed: active days are never forgotten.
LEMMA BackedKept ==
  ASSUME NEW row, NEW active, NEW longer, Backed(row, active), active \subseteq longer
  PROVE  Backed(row, longer)
BY DEF Backed

\* The write of a handler that read the current row, on a day after its last:
\* the new streak is again the whole run up to the latest day.
LEMMA WriteExact ==
  ASSUME TypeOK, NEW today \in Int,
         StreakIsMaximal, RecordIsLongestRun, NeverMeansNone,
         ~ disturbed, user.last # Never => user.last < today,
         user' = Advanced(user, today), days' = days \cup {today}
  PROVE  StreakIsMaximal' /\ RecordIsLongestRun'
<1>1. /\ user.current \in Nat /\ user.longest \in Nat /\ user.last \in Int \cup {Never}
      /\ Never \notin Int /\ days \subseteq Int
  BY NeverAssumption DEF TypeOK, Users
<1> DEFINE n == NextStreak(user, today)
<1>2. user' \in Users /\ user'.current = n /\ user'.last = today
      /\ user'.longest = Greater(user.longest, n) /\ n \in Nat /\ n >= 1
      /\ user'.longest >= user.longest /\ user'.longest >= n
  BY <1>1 DEF Advanced, NextStreak, Greater, Users
<1>3. \A d \in days : d < today
  BY <1>1 DEF StreakIsMaximal, NeverMeansNone
<1>4. today - n \notin days'
  <2>1. CASE user.last = today - 1
    <3>1. n = user.current + 1 /\ user.last - user.current \notin days
      BY <1>1, <2>1 DEF NextStreak, StreakIsMaximal
    <3> QED  BY <1>1, <2>1, <3>1
  <2>2. CASE user.last # today - 1
    <3>1. n = 1
      BY <2>2 DEF NextStreak
    <3>2. today - 1 \notin days
      BY <1>1, <2>2 DEF StreakIsMaximal, NeverMeansNone
    <3> QED  BY <3>1, <3>2
  <2> QED  BY <2>1, <2>2
<1> HIDE DEF n
<1>5. StreakIsMaximal'
  <2>1. user'.last - user'.current \notin days'
    BY <1>2, <1>4
  <2>2. \A d \in days' : d <= user'.last
    BY <1>1, <1>2, <1>3
  <2> QED  BY <2>1, <2>2 DEF StreakIsMaximal
<1>6. ASSUME NEW first \in days', NEW last \in days',
             first <= last, first..last \subseteq days'
      PROVE  last - first + 1 <= user'.longest
  <2>0. first \in Int /\ last \in Int /\ user'.longest \in Nat
    BY <1>1, <1>2, <1>6 DEF Users
  <2>1. CASE last = today
    <3>1. first > today - n
      <4>1. SUFFICES ASSUME first <= today - n PROVE FALSE
        BY <1>2, <2>0
      <4>2. today - n \in first..last
        BY <1>2, <2>0, <2>1, <4>1
      <4> QED  BY <1>4, <1>6, <4>2
    <3> QED  BY <1>2, <2>0, <2>1, <3>1
  <2>2. CASE last # today
    <3>1. last \in days /\ last < today
      BY <1>3, <1>6, <2>2
    <3>2. first \in days /\ first..last \subseteq days
      BY <1>6, <2>0, <3>1
    <3>3. last - first + 1 <= user.longest
      BY <1>6, <3>1, <3>2 DEF RecordIsLongestRun
    <3> QED  BY <1>1, <1>2, <2>0, <3>3
  <2> QED  BY <2>1, <2>2
<1>7. RecordIsLongestRun'
  BY <1>6 DEF RecordIsLongestRun
<1> QED  BY <1>5, <1>7

-----------------------------------------------------------------------------

LEMMA InitInv == Init => Inv
<1> SUFFICES ASSUME Init PROVE Inv
  OBVIOUS
<1> USE DEF Init, NewUser
<1>1. TypeOK
  <2>1. clock \in 0..MaxClock
    BY MaxClockAssumption
  <2>2. user \in Users
    BY DEF Users
  <2>3. call \in [Chats -> Calls]
    BY DEF Calls, Idle
  <2> QED  BY <2>1, <2>2, <2>3 DEF TypeOK
<1>2. Backed(user, days) /\ ReadsBacked /\ NeverMeansNone
  BY DEF Backed, ReadsBacked, NeverMeansNone, Idle
<1>3. StreakIsMaximal /\ RecordIsLongestRun
  BY DEF StreakIsMaximal, RecordIsLongestRun
<1> QED  BY <1>1, <1>2, <1>3 DEF Inv

\* A step that leaves the row and the history alone keeps everything, as long
\* as no chat gains a row that is not backed.
LEMMA RowKept ==
  ASSUME Inv, TypeOK', ReadsBacked', UNCHANGED <<user, days, disturbed>>
  PROVE  Inv'
BY DEF Inv, Backed, NeverMeansNone, StreakIsMaximal, RecordIsLongestRun

\* A chat that is not holding a row after the step adds nothing to ReadsBacked.
LEMMA OthersBacked ==
  ASSUME Inv, NEW c \in Chats, NEW next,
         call' = [call EXCEPT ![c] = next], next.pc # "read", days' = days
  PROVE  ReadsBacked'
<1>1. SUFFICES ASSUME NEW d \in Chats, call'[d].pc = "read"
               PROVE  Backed(call'[d].row, days') /\ call'[d].row.last # call'[d].today
  BY DEF ReadsBacked
<1>2. d # c /\ call'[d] = call[d]
  BY <1>1 DEF Inv, TypeOK
<1> QED  BY <1>1, <1>2 DEF Inv, ReadsBacked, Backed

\* The local date is a whole number of days.
LEMMA LocalDateType ==
  ASSUME TypeOK, NEW z \in Zones
  PROVE  LocalDate(z) \in Int
<1>1. clock \in 0..MaxClock /\ clock \in Int
  BY MaxClockAssumption DEF TypeOK
<1>2. Offset[z][clock] \in Int
  BY <1>1, OffsetAssumption
<1> QED  BY <1>1, <1>2, DayLengthAssumption DEF LocalDate, DateAt, LocalTime

LEMMA ArriveInv == ASSUME Inv, NEW c \in Chats, Arrive(c) PROVE Inv'
<1> DEFINE next == [pc |-> "arrived", zone |-> zone]
<1>1. /\ call' = [call EXCEPT ![c] = next] /\ next \in Calls /\ next.pc # "read"
      /\ UNCHANGED <<user, zone, clock, days, disturbed>>
  BY DEF Arrive, Calls, Inv, TypeOK
<1>2. TypeOK'
  BY <1>1 DEF Inv, TypeOK
<1> QED  BY <1>1, <1>2, OthersBacked, RowKept

LEMMA CallInv == ASSUME Inv, NEW c \in Chats, Call(c) PROVE Inv'
<1> DEFINE next == [pc |-> "called", today |-> LocalDate(call[c].zone)]
<1>1. call[c].zone \in Zones
  BY DEF Call, Inv, TypeOK, Calls, Idle
<1>2. /\ call' = [call EXCEPT ![c] = next] /\ next \in Calls /\ next.pc # "read"
      /\ UNCHANGED <<user, zone, clock, days, disturbed>>
  BY <1>1, LocalDateType DEF Call, Calls, Inv
<1>3. TypeOK'
  BY <1>2 DEF Inv, TypeOK
<1> QED  BY <1>2, <1>3, OthersBacked, RowKept

LEMMA ReadInv == ASSUME Inv, NEW c \in Chats, Read(c) PROVE Inv'
<1> DEFINE today == call[c].today
           held == [pc |-> "read", today |-> today, row |-> user]
<1>1. today \in Int /\ call[c].pc = "called" /\ user \in Users
  BY DEF Read, Inv, TypeOK, Calls, Idle
<1>2. /\ call' = [call EXCEPT ![c] = IF user.last = today THEN Idle ELSE held]
      /\ UNCHANGED <<user, zone, clock, days, disturbed>>
  BY DEF Read
<1>3. held \in Calls /\ Idle \in Calls /\ Idle.pc # "read"
  BY <1>1 DEF Calls, Idle
<1>4. TypeOK'
  BY <1>2, <1>3 DEF Inv, TypeOK
<1>5. ReadsBacked'
  <2>1. CASE user.last = today
    BY <1>2, <1>3, <2>1, OthersBacked
  <2>2. CASE user.last # today
    <3>1. SUFFICES ASSUME NEW d \in Chats, call'[d].pc = "read"
                   PROVE  Backed(call'[d].row, days') /\ call'[d].row.last # call'[d].today
      BY DEF ReadsBacked
    <3>2. CASE d = c
      <4>1. call'[d].row = user /\ call'[d].today = today
        BY <1>2, <2>2, <3>2 DEF Inv, TypeOK
      <4> QED  BY <1>2, <2>2, <4>1 DEF Inv, Backed
    <3>3. CASE d # c
      <4>1. call'[d] = call[d]
        BY <1>2, <3>3 DEF Inv, TypeOK
      <4> QED  BY <1>2, <3>1, <4>1 DEF Inv, ReadsBacked, Backed
    <3> QED  BY <3>2, <3>3
  <2> QED  BY <2>1, <2>2
<1> QED  BY <1>2, <1>4, <1>5, RowKept

LEMMA WriteInv == ASSUME Inv, NEW c \in Chats, Write(c) PROVE Inv'
<1> DEFINE today == call[c].today
           old == call[c].row
<1>1. /\ today \in Int /\ old \in Users /\ call[c].pc = "read"
      /\ Backed(old, days) /\ old.last # today
  BY DEF Write, Inv, TypeOK, Calls, Idle, ReadsBacked
<1>2. /\ user' = Advanced(old, today)
      /\ call' = [call EXCEPT ![c] = Idle]
      /\ days' = days \cup {today}
      /\ disturbed' = (disturbed \/ user # old \/ (user.last # Never /\ today < user.last))
      /\ UNCHANGED <<zone, clock>>
  BY DEF Write
<1> HIDE DEF today, old
<1>3. user' \in Users /\ Backed(user', days')
  BY <1>1, <1>2, AdvancedBacked DEF Inv, TypeOK
<1>4. TypeOK'
  BY <1>1, <1>2, <1>3 DEF Inv, TypeOK, Calls
<1>5. ReadsBacked'
  <2>1. SUFFICES ASSUME NEW d \in Chats, call'[d].pc = "read"
                 PROVE  Backed(call'[d].row, days') /\ call'[d].row.last # call'[d].today
    BY DEF ReadsBacked
  <2>2. d # c /\ call'[d] = call[d]
    BY <1>2, <2>1 DEF Inv, TypeOK, Idle
  <2>3. Backed(call[d].row, days) /\ call[d].row.last # call[d].today
    BY <2>1, <2>2 DEF Inv, ReadsBacked
  <2> QED  BY <1>2, <2>2, <2>3, BackedKept
<1>6. NeverMeansNone'
  <2>1. user'.last = today /\ today # Never
    BY <1>1, <1>2, NeverAssumption DEF Advanced
  <2> QED  BY <2>1 DEF NeverMeansNone
<1>7. StreakIsMaximal' /\ RecordIsLongestRun'
  <2>1. CASE disturbed'
    BY <2>1 DEF StreakIsMaximal, RecordIsLongestRun
  <2>2. CASE ~ disturbed'
    <3>1. ~ disturbed /\ user = old /\ (user.last # Never => user.last < today)
      <4>1. ~ disturbed /\ user = old /\ ~ (user.last # Never /\ today < user.last)
        BY <1>2, <2>2
      <4>2. user.last \in Int \cup {Never}
        BY DEF Inv, TypeOK, Users
      <4> QED  BY <1>1, <4>1, <4>2
    <3> QED  BY <1>1, <1>2, <3>1, WriteExact DEF Inv
  <2> QED  BY <2>1, <2>2
<1> QED  BY <1>3, <1>4, <1>5, <1>6, <1>7 DEF Inv

LEMMA AbandonInv == ASSUME Inv, NEW c \in Chats, Abandon(c) PROVE Inv'
<1>1. /\ call' = [call EXCEPT ![c] = Idle] /\ Idle \in Calls /\ Idle.pc # "read"
      /\ UNCHANGED <<user, zone, clock, days, disturbed>>
  BY DEF Abandon, Calls, Idle
<1>2. TypeOK'
  BY <1>1 DEF Inv, TypeOK
<1> QED  BY <1>1, <1>2, OthersBacked, RowKept

LEMMA EnvironmentInv ==
  ASSUME Inv, Tick \/ (\E z \in Zones : SetTimezone(z)) \/ UNCHANGED vars
  PROVE  Inv'
<1>1. UNCHANGED <<user, call, days, disturbed>>
  BY DEF Tick, SetTimezone, vars
<1>2. TypeOK'
  <2>1. clock' \in 0..MaxClock
    BY MaxClockAssumption DEF Tick, SetTimezone, vars, Inv, TypeOK
  <2>2. zone' \in Zones
    BY DEF Tick, SetTimezone, vars, Inv, TypeOK
  <2> QED  BY <1>1, <2>1, <2>2 DEF Inv, TypeOK
<1>3. ReadsBacked'
  BY <1>1 DEF Inv, ReadsBacked, Backed
<1> QED  BY <1>1, <1>2, <1>3, RowKept

LEMMA NextInv == Inv /\ [Next]_vars => Inv'
<1> SUFFICES ASSUME Inv, [Next]_vars PROVE Inv'
  OBVIOUS
<1>1. ASSUME NEW c \in Chats,
             Arrive(c) \/ Call(c) \/ Read(c) \/ Write(c) \/ Abandon(c)
      PROVE  Inv'
  BY <1>1, ArriveInv, CallInv, ReadInv, WriteInv, AbandonInv
<1>2. CASE Tick \/ (\E z \in Zones : SetTimezone(z)) \/ UNCHANGED vars
  BY <1>2, EnvironmentInv
<1> QED  BY <1>1, <1>2 DEF Next

\* The streak's invariant holds in every reachable state, whichever chats' calls
\* of update_streak read and write the user's row around each other.
THEOREM Invariance == Spec => []Inv
BY InitInv, NextInv, PTL DEF Spec

\* The user's row, the calls under way and the histories keep their types.
THEOREM TypeCorrect == Spec => []TypeOK
BY Invariance, PTL DEF Inv

\* No interleaving, midnight or change of timezone ever inflates a streak.
THEOREM StreaksAreEarned == Spec => []StreakEarned
<1>1. Inv => StreakEarned
  BY DEF Inv, Backed, StreakEarned
<1> QED  BY <1>1, Invariance, PTL

\* An undisturbed streak is the whole run up to the latest active day.
THEOREM StreaksAreMaximal == Spec => []StreakIsMaximal
BY Invariance, PTL DEF Inv

\* An undisturbed record is the longest run of active days there ever was.
THEOREM RecordsAreLongestRuns == Spec => []RecordIsLongestRun
BY Invariance, PTL DEF Inv

\* Without a lost or a belated update the streak says exactly what happened.
THEOREM StreaksAreExact == Spec => []StreakIsExact
BY Invariance, PTL DEF Inv, StreakIsExact

-----------------------------------------------------------------------------
(* Activity: log, streak and statistics together.                          *)

\* Data of the statistics dialog.
Overviews == [window : {"overview", "decks"}, year : Int \cup {Never}, month : Int \cup {Never},
              shown : Int \cup {Never}]

ActivityTypes ==
  /\ logs \subseteq 0..MaxClock /\ entry \in [Chats -> Int \cup {Never}]
  /\ stats \in [Chats -> {Closed} \cup Overviews]
  /\ excused \in BOOLEAN

\* The date was the local date of a log.
Logged(d) == \E t \in logs : LocalDay(t, zone) = d

\* Of an activity under way: its log is there until the date is asked, and the
\* date is a log's after that.
Tracked ==
  /\ \A d \in days : Logged(d)
  /\ \A c \in Chats :
       /\ call[c].pc = "arrived" => call[c].zone = zone
       /\ call[c].pc \in {"called", "read"} => Logged(call[c].today)
       /\ entry[c] # Never => entry[c] \in logs

ActivityInv == Inv /\ ActivityTypes /\ (~ excused => Tracked)

LEMMA Numbers ==
  ASSUME TypeOK
  PROVE  /\ clock \in Nat /\ clock <= MaxClock /\ MaxClock \in Nat /\ Never \notin Int
         /\ DayLength \in Nat /\ DayLength > 0 /\ MonthLength \in Nat /\ MonthLength > 0
         /\ WeekLength \in Nat /\ WeekLength > 0 /\ MonthsPerYear \in Nat /\ MonthsPerYear > 0
         /\ \A z \in Zones, t \in 0..clock : LocalTime(t, z) \in Int /\ DateAt(t, z) \in Int
         /\ Today \in Int /\ MonthOf(Today) \in Int
<1>1. /\ clock \in Nat /\ clock <= MaxClock /\ MaxClock \in Nat /\ Never \notin Int
      /\ DayLength \in Nat /\ DayLength > 0 /\ MonthLength \in Nat /\ MonthLength > 0
      /\ WeekLength \in Nat /\ WeekLength > 0 /\ MonthsPerYear \in Nat /\ MonthsPerYear > 0
  BY MaxClockAssumption, DayLengthAssumption, NeverAssumption, CalendarAssumption DEF TypeOK
<1>2. ASSUME NEW z \in Zones, NEW t \in 0..clock
      PROVE  LocalTime(t, z) \in Int /\ DateAt(t, z) \in Int
  <2>1. t \in 0..MaxClock /\ t \in Int
    BY <1>1
  <2>2. Offset[z][t] \in Int
    BY <2>1, OffsetAssumption
  <2> QED
    BY <1>1, <2>1, <2>2 DEF LocalTime, DateAt
<1>3. Today \in Int
  BY LocalDateType DEF Today, TypeOK
<1>4. MonthOf(Today) \in Int
  BY <1>1, <1>3 DEF MonthOf
<1> QED
  BY <1>1, <1>2, <1>3, <1>4

LEMMA ActivityInitInv == ActivityInit => ActivityInv
<1> SUFFICES ASSUME ActivityInit PROVE ActivityInv
  OBVIOUS
<1>1. Inv
  BY InitInv DEF ActivityInit
<1>2. ActivityTypes
  BY DEF ActivityInit, ActivityTypes
<1>3. Tracked
  BY DEF ActivityInit, Init, Tracked, Idle
<1> QED
  BY <1>1, <1>2, <1>3 DEF ActivityInv

\* Every step of the composition is a step of the streak, or leaves it alone.
LEMMA StepOfStreak == [ActivityNext]_allVars => [Next]_vars
<1> SUFFICES ASSUME [ActivityNext]_allVars PROVE [Next]_vars
  OBVIOUS
<1>1. ASSUME NEW c \in Chats, Begin(c) \/ AskDate(c) \/ UpdateStreak(c) \/ Stop(c) PROVE Next
  BY <1>1 DEF Begin, AskDate, UpdateStreak, Stop, Next
<1>2. ASSUME NEW c \in Chats,
             Log(c) \/ OpenStats(c) \/ PrevMonth(c) \/ NextMonth(c) \/ ToDecks(c)
               \/ FromDecks(c) \/ BackToMenu(c)
      PROVE  UNCHANGED vars
  BY <1>2 DEF Log, OpenStats, PrevMonth, NextMonth, ToDecks, FromDecks, BackToMenu, Show
<1>3. ASSUME NEW t \in logs, DeleteCard(t) PROVE UNCHANGED vars
  BY <1>3 DEF DeleteCard
<1>4. ASSUME NEW z \in Zones, Move(z) PROVE Next
  BY <1>4 DEF Move, Next
<1>5. CASE Tick
  BY <1>5 DEF Next
<1>6. CASE UNCHANGED allVars
  BY <1>6 DEF allVars
<1> QED
  BY <1>1, <1>2, <1>3, <1>4, <1>5, <1>6 DEF ActivityNext

\* The composition implements the streak: whatever is proved of the streak alone
\* holds when activities are logged and statistics are read.
THEOREM ImplementsStreak == ActivitySpec => Spec
<1>1. ActivityInit => Init
  BY DEF ActivityInit
<1> QED
  BY <1>1, StepOfStreak, PTL DEF ActivitySpec, Spec

\* What the statistics dialog computes has the type of its data.
LEMMA Overview ==
  ASSUME TypeOK, NEW data \in Overviews
  PROVE  /\ Year(data) \in Int /\ Month(data) \in Int /\ Asked(data) \in Int
         /\ Rendered(data) \in Overviews /\ Rendered(data).shown = Asked(data)
<1>1. /\ MonthOf(Today) \in Int /\ MonthsPerYear \in Nat /\ MonthsPerYear > 0
      /\ data.year \in Int \cup {Never} /\ data.month \in Int \cup {Never}
  BY Numbers DEF Overviews
<1>2. /\ MonthOf(Today) \div MonthsPerYear \in Int /\ MonthOf(Today) % MonthsPerYear \in Int
  BY <1>1
<1>3. Year(data) \in Int /\ Month(data) \in Int
  BY <1>1, <1>2 DEF Year, Month, Unset
<1>4. Asked(data) \in Int
  BY <1>1, <1>3 DEF Asked
<1>5. Rendered(data) \in Overviews /\ Rendered(data).shown = Asked(data)
  BY <1>4 DEF Rendered, Overviews
<1> QED
  BY <1>3, <1>4, <1>5

\* A month earlier, or later, is asked for.
LEMMA Paged ==
  ASSUME TypeOK, NEW data \in Overviews
  PROVE  /\ Before(data) \in Overviews /\ Asked(Before(data)) = Asked(data) - 1
         /\ After(data) \in Overviews /\ Asked(After(data)) = Asked(data) + 1
<1> DEFINE y == Year(data)
           m == Month(data)
           n == MonthsPerYear
<1>1. y \in Int /\ m \in Int /\ n \in Nat /\ Never \notin Int
  BY Overview, Numbers
<1>2. Asked(data) = y * n + m - 1
  BY DEF Asked
<1>3. (y - 1) * n = y * n - n /\ (y + 1) * n = y * n + n /\ y * n \in Int
  BY <1>1
<1>4. ASSUME NEW x \in Int PROVE /\ [data EXCEPT !.month = x] \in Overviews
                                 /\ Asked([data EXCEPT !.month = x]) = y * n + x - 1
  <2> DEFINE e == [data EXCEPT !.month = x]
  <2>1. e \in Overviews /\ e.month = x /\ e.year = data.year
    BY DEF Overviews
  <2>2. Month(e) = x /\ Year(e) = y
    BY <1>1, <2>1 DEF Month, Year, Unset
  <2> QED
    BY <2>1, <2>2 DEF Asked
<1>5. ASSUME NEW x \in Int, NEW z \in Int
      PROVE  /\ [data EXCEPT !.year = z, !.month = x] \in Overviews
             /\ Asked([data EXCEPT !.year = z, !.month = x]) = z * n + x - 1
  <2> DEFINE e == [data EXCEPT !.year = z, !.month = x]
  <2>1. e \in Overviews /\ e.month = x /\ e.year = z
    BY DEF Overviews
  <2>2. Month(e) = x /\ Year(e) = z
    BY <1>1, <2>1 DEF Month, Year, Unset
  <2> QED
    BY <2>1, <2>2 DEF Asked
<1> DEFINE before == y - 1
           after == y + 1
           less == m - 1
           more == m + 1
<1>6. before \in Int /\ after \in Int /\ less \in Int /\ more \in Int /\ 1 \in Int /\ n \in Int
  BY <1>1
<1>7. before * n = y * n - n /\ after * n = y * n + n /\ less = m - 1 /\ more = m + 1
  BY <1>3
<1> HIDE DEF y, m, n, before, after, less, more
<1>8. Before(data) \in Overviews /\ Asked(Before(data)) = Asked(data) - 1
  <2>1. CASE m = 1
    <3>1. Before(data) = [data EXCEPT !.year = before, !.month = n]
      BY <2>1 DEF Before, y, m, n, before
    <3>2. Before(data) \in Overviews /\ Asked(Before(data)) = before * n + n - 1
      BY <1>5, <1>6, <3>1
    <3> QED
      BY <1>1, <1>2, <1>3, <1>7, <2>1, <3>2
  <2>2. CASE m # 1
    <3>1. Before(data) = [data EXCEPT !.month = less]
      BY <2>2 DEF Before, m, less
    <3>2. Before(data) \in Overviews /\ Asked(Before(data)) = y * n + less - 1
      BY <1>4, <1>6, <3>1
    <3> QED
      BY <1>1, <1>2, <1>3, <1>7, <3>2
  <2> QED
    BY <2>1, <2>2
<1>9. After(data) \in Overviews /\ Asked(After(data)) = Asked(data) + 1
  <2>1. CASE m = n
    <3>1. After(data) = [data EXCEPT !.year = after, !.month = 1]
      BY <2>1 DEF After, y, m, n, after
    <3>2. After(data) \in Overviews /\ Asked(After(data)) = after * n + 1 - 1
      BY <1>5, <1>6, <3>1
    <3> QED
      BY <1>1, <1>2, <1>3, <1>7, <2>1, <3>2
  <2>2. CASE m # n
    <3>1. After(data) = [data EXCEPT !.month = more]
      BY <2>2 DEF After, m, n, more
    <3>2. After(data) \in Overviews /\ Asked(After(data)) = y * n + more - 1
      BY <1>4, <1>6, <3>1
    <3> QED
      BY <1>1, <1>2, <1>3, <1>7, <3>2
  <2> QED
    BY <2>1, <2>2
<1> QED
  BY <1>8, <1>9

LEMMA ShowKeeps ==
  ASSUME ActivityInv, NEW c \in Chats, NEW data \in {Closed} \cup Overviews, Show(c, data)
  PROVE  ActivityTypes' /\ (~ excused' => Tracked')
<1>1. /\ user' = user /\ zone' = zone /\ clock' = clock /\ call' = call /\ days' = days
      /\ logs' = logs /\ entry' = entry /\ excused' = excused
      /\ stats' = [stats EXCEPT ![c] = data]
  BY DEF Show, vars
<1>2. ActivityTypes'
  BY <1>1 DEF ActivityInv, ActivityTypes
<1>3. Tracked => Tracked'
  BY <1>1 DEF Tracked, Logged
<1> QED
  BY <1>1, <1>2, <1>3 DEF ActivityInv

LEMMA PressKeeps ==
  ASSUME ActivityInv, NEW c \in Chats,
         OpenStats(c) \/ PrevMonth(c) \/ NextMonth(c) \/ ToDecks(c) \/ FromDecks(c) \/ BackToMenu(c)
  PROVE  ActivityTypes' /\ (~ excused' => Tracked')
<1>1. stats[c] \in {Closed} \cup Overviews /\ TypeOK
  BY DEF ActivityInv, ActivityTypes, Inv
<1>2. ASSUME stats[c].window \in {"overview", "decks"} PROVE stats[c] \in Overviews
  BY <1>1, <1>2 DEF Closed
<1>3. CASE OpenStats(c)
  <2> DEFINE data == [window |-> "overview", year |-> Unset, month |-> Unset, shown |-> Unset]
  <2>1. data \in Overviews
    BY DEF Overviews, Unset
  <2> HIDE DEF data
  <2>2. Rendered(data) \in Overviews
    BY <1>1, <2>1, Overview
  <2>3. Show(c, Rendered(data))
    BY <1>3 DEF OpenStats, data
  <2> QED
    BY <2>2, <2>3, ShowKeeps
<1>4. CASE PrevMonth(c) \/ NextMonth(c)
  <2>1. stats[c] \in Overviews
    BY <1>2, <1>4 DEF PrevMonth, NextMonth
  <2>2. Rendered(Before(stats[c])) \in Overviews /\ Rendered(After(stats[c])) \in Overviews
    BY <1>1, <2>1, Paged, Overview
  <2>3. Show(c, Rendered(Before(stats[c]))) \/ Show(c, Rendered(After(stats[c])))
    BY <1>4 DEF PrevMonth, NextMonth
  <2> QED
    BY <2>2, <2>3, ShowKeeps
<1>5. CASE ToDecks(c)
  <2>1. stats[c] \in Overviews
    BY <1>2, <1>5 DEF ToDecks
  <2>2. [stats[c] EXCEPT !.window = "decks", !.shown = Unset] \in Overviews
    BY <2>1 DEF Overviews, Unset
  <2> QED
    BY <1>5, <2>2, ShowKeeps DEF ToDecks
<1>6. CASE FromDecks(c)
  <2>1. stats[c] \in Overviews
    BY <1>2, <1>6 DEF FromDecks
  <2>2. Rendered(stats[c]) \in Overviews
    BY <1>1, <2>1, Overview
  <2> QED
    BY <1>6, <2>2, ShowKeeps DEF FromDecks
<1>7. CASE BackToMenu(c)
  BY <1>7, ShowKeeps DEF BackToMenu
<1> QED
  BY <1>3, <1>4, <1>5, <1>6, <1>7

LEMMA ActivityKeeps ==
  ASSUME ActivityInv, NEW c \in Chats,
         Begin(c) \/ Log(c) \/ AskDate(c) \/ UpdateStreak(c) \/ Stop(c)
  PROVE  ActivityTypes' /\ (~ excused' => Tracked')
<1>1. /\ TypeOK /\ call \in [Chats -> Calls] /\ entry \in [Chats -> Int \cup {Never}]
      /\ logs \subseteq 0..MaxClock /\ stats \in [Chats -> {Closed} \cup Overviews]
      /\ excused \in BOOLEAN /\ clock \in 0..MaxClock /\ clock \in Int /\ Never \notin Int
  BY NeverAssumption, MaxClockAssumption DEF ActivityInv, ActivityTypes, Inv, TypeOK
<1>2. CASE Begin(c)
  <2>1. /\ logs' = logs /\ entry' = entry /\ stats' = stats /\ excused' = excused
        /\ zone' = zone /\ days' = days
        /\ call' = [call EXCEPT ![c] = [pc |-> "arrived", zone |-> zone]]
    BY <1>2 DEF Begin, Arrive, activity
  <2>2. ActivityTypes'
    BY <2>1 DEF ActivityInv, ActivityTypes
  <2>3. ASSUME Tracked PROVE Tracked'
    <3>1. ASSUME NEW e \in Chats
          PROVE  /\ call'[e].pc = "arrived" => call'[e].zone = zone
                 /\ call'[e].pc \in {"called", "read"} => Logged(call'[e].today)
                 /\ entry[e] # Never => entry[e] \in logs
      <4>1. CASE e = c
        BY <1>1, <2>1, <2>3, <4>1 DEF Tracked
      <4>2. CASE e # c
        <5>1. call'[e] = call[e]
          BY <1>1, <2>1, <4>2
        <5> QED
          BY <2>3, <5>1 DEF Tracked
      <4> QED
        BY <4>1, <4>2
    <3> QED
      BY <2>1, <2>3, <3>1 DEF Tracked, Logged
  <2> QED
    BY <2>1, <2>2, <2>3 DEF ActivityInv
<1>3. CASE Log(c)
  <2>1. /\ logs' = logs \cup {clock} /\ entry' = [entry EXCEPT ![c] = clock] /\ stats' = stats
        /\ excused' = excused /\ zone' = zone /\ days' = days /\ call' = call
    BY <1>3 DEF Log, vars
  <2>2. ActivityTypes'
    BY <1>1, <2>1 DEF ActivityTypes
  <2>3. ASSUME Tracked PROVE Tracked'
    <3>1. \A d : Logged(d) => Logged(d)'
      BY <2>1 DEF Logged
    <3>2. \A e \in Chats : entry'[e] # Never => entry'[e] \in logs'
      BY <1>1, <2>1, <2>3 DEF Tracked
    <3> QED
      BY <2>1, <2>3, <3>1, <3>2 DEF Tracked, Logged
  <2> QED
    BY <2>1, <2>2, <2>3 DEF ActivityInv
<1>4. CASE AskDate(c)
  <2> DEFINE today == LocalDate(call[c].zone)
  <2>1. /\ call' = [call EXCEPT ![c] = [pc |-> "called", today |-> today]]
        /\ excused' = (excused \/ entry[c] = Never \/ DateAt(entry[c], call[c].zone) # call'[c].today)
        /\ entry' = [entry EXCEPT ![c] = Never] /\ logs' = logs /\ stats' = stats
        /\ zone' = zone /\ days' = days /\ call[c].pc = "arrived"
    BY <1>4 DEF AskDate, Call
  <2> HIDE DEF today
  <2>2. call'[c].pc = "called" /\ call'[c].today = today
    BY <1>1, <2>1
  <2>3. ActivityTypes'
    <3>1. excused' \in BOOLEAN
      BY <2>1
    <3> QED
      BY <1>1, <2>1, <3>1 DEF ActivityTypes
  <2>4. ASSUME ~ excused' PROVE Tracked'
    <3>1. ~ excused /\ entry[c] # Never /\ DateAt(entry[c], call[c].zone) = today
      BY <2>1, <2>2, <2>4
    <3>2. Tracked
      BY <3>1 DEF ActivityInv
    <3>3. Logged(today)
      BY <2>1, <3>1, <3>2 DEF Tracked, Logged, LocalDay
    <3>4. ASSUME NEW e \in Chats
          PROVE  /\ call'[e].pc = "arrived" => call'[e].zone = zone
                 /\ call'[e].pc \in {"called", "read"} => Logged(call'[e].today)
                 /\ entry'[e] # Never => entry'[e] \in logs
      <4>1. CASE e = c
        BY <1>1, <2>1, <2>2, <3>3, <4>1
      <4>2. CASE e # c
        <5>1. call'[e] = call[e] /\ entry'[e] = entry[e]
          BY <1>1, <2>1, <4>2
        <5> QED
          BY <3>2, <5>1 DEF Tracked
      <4> QED
        BY <4>1, <4>2
    <3> QED
      BY <2>1, <3>2, <3>4 DEF Tracked, Logged
  <2> QED
    BY <2>3, <2>4
<1>5. CASE UpdateStreak(c)
  <2>1. /\ logs' = logs /\ entry' = entry /\ stats' = stats /\ excused' = excused /\ zone' = zone
        /\ Read(c) \/ Write(c)
    BY <1>5 DEF UpdateStreak, Read, Write, activity
  <2>2. ActivityTypes'
    BY <2>1 DEF ActivityInv, ActivityTypes
  <2>3. /\ call[c].pc \in {"called", "read"}
        /\ \A e \in Chats : e # c => call'[e] = call[e]
        /\ call'[c].pc # "arrived"
        /\ call'[c].pc \in {"called", "read"} => call'[c].today = call[c].today
        /\ days' \subseteq days \cup {call[c].today}
    BY <1>1, <2>1 DEF Read, Write, Idle
  <2>4. ASSUME Tracked PROVE Tracked'
    <3>1. Logged(call[c].today)
      BY <2>3, <2>4 DEF Tracked
    <3>2. \A d \in days' : Logged(d)
      BY <2>3, <2>4, <3>1 DEF Tracked
    <3>3. ASSUME NEW e \in Chats
          PROVE  /\ call'[e].pc = "arrived" => call'[e].zone = zone
                 /\ call'[e].pc \in {"called", "read"} => Logged(call'[e].today)
                 /\ entry[e] # Never => entry[e] \in logs
      <4>1. CASE e = c
        BY <2>3, <2>4, <3>1, <4>1 DEF Tracked
      <4>2. CASE e # c
        BY <2>3, <2>4, <4>2 DEF Tracked
      <4> QED
        BY <4>1, <4>2
    <3> QED
      BY <2>1, <3>2, <3>3 DEF Tracked, Logged
  <2> QED
    BY <2>1, <2>2, <2>4 DEF ActivityInv
<1>6. CASE Stop(c)
  <2>1. /\ logs' = logs /\ entry' = [entry EXCEPT ![c] = Never] /\ stats' = stats
        /\ excused' = excused /\ zone' = zone /\ days' = days
        /\ call' = [call EXCEPT ![c] = Idle]
    BY <1>6 DEF Stop, Abandon
  <2>2. ActivityTypes'
    BY <1>1, <2>1 DEF ActivityTypes
  <2>3. ASSUME Tracked PROVE Tracked'
    <3>1. ASSUME NEW e \in Chats
          PROVE  /\ call'[e].pc = "arrived" => call'[e].zone = zone
                 /\ call'[e].pc \in {"called", "read"} => Logged(call'[e].today)
                 /\ entry'[e] # Never => entry'[e] \in logs
      <4>1. CASE e = c
        BY <1>1, <2>1, <4>1 DEF Idle
      <4>2. CASE e # c
        <5>1. call'[e] = call[e] /\ entry'[e] = entry[e]
          BY <1>1, <2>1, <4>2
        <5> QED
          BY <2>3, <5>1 DEF Tracked
      <4> QED
        BY <4>1, <4>2
    <3> QED
      BY <2>1, <2>3, <3>1 DEF Tracked, Logged
  <2> QED
    BY <2>1, <2>2, <2>3 DEF ActivityInv
<1> QED
  BY <1>2, <1>3, <1>4, <1>5, <1>6

LEMMA ActivityNextInv == ActivityInv /\ [ActivityNext]_allVars => ActivityInv'
<1> SUFFICES ASSUME ActivityInv, [ActivityNext]_allVars PROVE ActivityInv'
  OBVIOUS
<1>1. Inv'
  BY StepOfStreak, NextInv DEF ActivityInv
<1>2. ActivityTypes' /\ (~ excused' => Tracked')
  <2>1. ASSUME NEW c \in Chats,
               \/ Begin(c) \/ Log(c) \/ AskDate(c) \/ UpdateStreak(c) \/ Stop(c)
               \/ OpenStats(c) \/ PrevMonth(c) \/ NextMonth(c) \/ ToDecks(c) \/ FromDecks(c)
               \/ BackToMenu(c)
        PROVE  ActivityTypes' /\ (~ excused' => Tracked')
    BY <2>1, ActivityKeeps, PressKeeps
  <2>2. ASSUME NEW t \in logs, DeleteCard(t) PROVE ActivityTypes' /\ excused'
    BY <2>2 DEF DeleteCard, ActivityInv, ActivityTypes
  <2>3. ASSUME NEW z \in Zones, Move(z) PROVE ActivityTypes' /\ excused'
    BY <2>3 DEF Move, ActivityInv, ActivityTypes
  <2>4. CASE Tick /\ UNCHANGED activity
    <3>1. /\ logs' = logs /\ entry' = entry /\ stats' = stats /\ excused' = excused /\ zone' = zone
          /\ days' = days /\ call' = call
      BY <2>4 DEF Tick, activity
    <3> QED
      BY <3>1 DEF ActivityInv, ActivityTypes, Tracked, Logged
  <2>5. CASE UNCHANGED allVars
    <3>1. /\ logs' = logs /\ entry' = entry /\ stats' = stats /\ excused' = excused /\ zone' = zone
          /\ days' = days /\ call' = call
      BY <2>5 DEF allVars, vars, activity
    <3> QED
      BY <3>1 DEF ActivityInv, ActivityTypes, Tracked, Logged
  <2> QED
    BY <2>1, <2>2, <2>3, <2>4, <2>5 DEF ActivityNext
<1> QED
  BY <1>1, <1>2 DEF ActivityInv
\* The invariant of the log and the statistics beside the streak holds in every
\* reachable state.
THEOREM ActivityInvariance == ActivitySpec => []ActivityInv
BY ActivityInitInv, ActivityNextInv, PTL DEF ActivitySpec

\* Every day of the streak is marked in the calendar, and the flame or the
\* warning of the menu agrees with the mark of today's date.
THEOREM CalendarsTellStreaks == ActivitySpec => []CalendarTellsStreak
<1>1. ActivityInv => CalendarTellsStreak
  <2> SUFFICES ASSUME ActivityInv, ~ excused PROVE CalendarTellsStreak
    BY DEF CalendarTellsStreak
  <2>1. /\ user.current \in Nat /\ user.last \in Int \cup {Never} /\ Never \notin Int
        /\ Today \in Int /\ TypeOK /\ Tracked /\ Backed(user, days) /\ Today = LocalDate(zone)
    BY Numbers DEF ActivityInv, Inv, TypeOK, Users, Today
  <2>2. ASSUME NEW d \in days PROVE Marker(d, zone) = "fire"
    BY <2>1, <2>2 DEF Tracked, Logged, Marker, ActiveDays
  <2>3. user.last # Never =>
          \A d \in (user.last - user.current + 1)..user.last : Marker(d, zone) = "fire"
    BY <2>1, <2>2 DEF Backed
  <2>4. MenuFlame => Marker(Today, zone) = "fire"
    <3> SUFFICES ASSUME MenuFlame PROVE Marker(Today, zone) = "fire"
      OBVIOUS
    <3>1. user.last = Today /\ user.last # Never /\ user.current > 0
      BY <2>1 DEF MenuFlame
    <3>2. Today \in (user.last - user.current + 1)..user.last
      BY <2>1, <3>1
    <3> QED
      BY <2>3, <3>1, <3>2
  <2>5. Marker(Today, zone) = "warning" => MenuWarning
    <3> SUFFICES ASSUME Marker(Today, zone) = "warning" PROVE MenuWarning
      OBVIOUS
    <3>1. user.current > 0
      BY <2>1 DEF Marker
    <3>2. user.last # Today
      BY <2>4, <3>1 DEF MenuFlame
    <3> QED
      BY <3>1, <3>2 DEF MenuWarning
  <2> QED
    BY <2>3, <2>4, <2>5 DEF CalendarTellsStreak
<1> QED
  BY <1>1, ActivityInvariance, PTL

\* Paging shows the month before or after the one on screen.
THEOREM MonthsAsPaged == ActivitySpec => MonthAsPaged
<1> DEFINE Paging ==
      \A c \in Chats :
        stats[c].window = "overview" /\ stats[c].shown = Asked(stats[c]) =>
          /\ PrevMonth(c) => stats'[c].shown = stats[c].shown - 1
          /\ NextMonth(c) => stats'[c].shown = stats[c].shown + 1
<1>1. ActivityInv /\ [ActivityNext]_allVars => [Paging]_allVars
  <2> SUFFICES ASSUME ActivityInv, NEW c \in Chats,
                      stats[c].window = "overview", stats[c].shown = Asked(stats[c])
               PROVE  /\ PrevMonth(c) => stats'[c].shown = stats[c].shown - 1
                      /\ NextMonth(c) => stats'[c].shown = stats[c].shown + 1
    OBVIOUS
  <2>1. TypeOK /\ stats \in [Chats -> {Closed} \cup Overviews] /\ stats[c] \in Overviews
    BY DEF ActivityInv, ActivityTypes, Inv, Closed
  <2>2. /\ Before(stats[c]) \in Overviews /\ Asked(Before(stats[c])) = Asked(stats[c]) - 1
        /\ After(stats[c]) \in Overviews /\ Asked(After(stats[c])) = Asked(stats[c]) + 1
    BY <2>1, Paged
  <2>3. /\ Rendered(Before(stats[c])).shown = stats[c].shown - 1
        /\ Rendered(After(stats[c])).shown = stats[c].shown + 1
    BY <2>1, <2>2, Overview
  <2>4. ASSUME NEW data, Show(c, data) PROVE stats'[c] = data
    BY <2>1, <2>4 DEF Show
  <2>5. PrevMonth(c) => stats'[c] = Rendered(Before(stats[c]))
    BY <2>4 DEF PrevMonth
  <2>6. NextMonth(c) => stats'[c] = Rendered(After(stats[c]))
    BY <2>4 DEF NextMonth
  <2> QED
    BY <2>3, <2>5, <2>6
<1>2. MonthAsPaged <=> [][Paging]_allVars
  BY DEF MonthAsPaged
<1> QED
  BY <1>1, <1>2, ActivityInvariance, PTL DEF ActivitySpec

-----------------------------------------------------------------------------
(* The counts over a range of instants, and the dates of the logs.         *)

\* Every set of natural numbers has a least one.
LEMMA Least ==
  ASSUME NEW S, S \subseteq Nat, S # {}
  PROVE  \E x \in S : \A y \in S : x <= y
<1> DEFINE R == {ss \in Nat \X Nat : ss[1] < ss[2]}
<1>1. IsWellFoundedOn(R, Nat)
  BY NatLessThanWellFounded DEF OpToRel
<1> HIDE DEF R
<1>2. \E x \in S : \A y \in S : <<y, x>> \notin R
  BY <1>1, WFMin
<1>3. PICK x \in S : \A y \in S : <<y, x>> \notin R
  BY <1>2
<1>4. ASSUME NEW y \in S PROVE x <= y
  <2>1. <<y, x>> \in Nat \X Nat /\ <<y, x>>[1] = y /\ <<y, x>>[2] = x
    OBVIOUS
  <2>2. ~ (y < x)
    BY <1>3, <2>1 DEF R
  <2> QED
    BY <2>1, <2>2
<1> QED
  BY <1>4

LEMMA Times ==
  ASSUME NEW n \in Nat, NEW a \in Int, NEW b \in Int, a <= b
  PROVE  n * a <= n * b /\ n * a \in Int /\ n * b \in Int
OBVIOUS

LEMMA Division ==
  ASSUME NEW n \in Nat, n > 0, NEW a \in Int
  PROVE  /\ a \div n \in Int /\ a % n \in Int /\ a = n * (a \div n) + (a % n)
         /\ 0 <= a % n /\ a % n < n
OBVIOUS

\* A date is reached when its beginning is.
LEMMA Reaches ==
  ASSUME NEW n \in Nat, n > 0, NEW a \in Int, NEW d \in Int
  PROVE  a >= n * d <=> a \div n >= d
<1> DEFINE p == a \div n
           r == a % n
<1>1. p \in Int /\ r \in Int /\ a = n * p + r /\ 0 <= r /\ r < n
  BY Division
<1> HIDE DEF p, r
<1>2. CASE p >= d
  <2>1. n * d <= n * p /\ n * p \in Int /\ n * d \in Int
    BY <1>1, <1>2, Times
  <2> QED
    BY <1>1, <1>2, <2>1 DEF p
<1>3. CASE p < d
  <2> DEFINE e == p + 1
  <2>0. e \in Int /\ e <= d /\ n * e = n * p + n
    BY <1>1, <1>3
  <2> HIDE DEF e
  <2>1. n * e <= n * d /\ n * p \in Int /\ n * d \in Int
    BY <1>1, <2>0, Times
  <2> QED
    BY <1>1, <1>3, <2>0, <2>1 DEF p
<1> QED
  BY <1>1, <1>2, <1>3

\* The dates from the start of today's period on, up to today, are its dates.
LEMMA FromStart ==
  ASSUME NEW n \in Nat, n > 0, NEW d \in Int, NEW today \in Int, d <= today
  PROVE  /\ today - (today % n) \in Int /\ today - (today % n) <= today
         /\ d >= today - (today % n) <=> d \div n = today \div n
<1> DEFINE q == today \div n
           p == d \div n
           m == q + 1
<1>1. /\ q \in Int /\ p \in Int /\ m \in Int /\ today % n \in Int /\ 0 <= today % n
      /\ today - (today % n) = n * q
  BY Division
<1>2. d >= n * q <=> p >= q
  BY <1>1, Reaches
<1>3. p <= q
  <2>1. today >= n * m <=> q >= m
    BY <1>1, Reaches
  <2>2. d >= n * m <=> p >= m
    BY <1>1, Reaches
  <2> QED
    BY <1>1, <2>1, <2>2
<1> HIDE DEF p, q
<1>4. d >= n * q <=> p = q
  BY <1>1, <1>2, <1>3
<1> QED
  BY <1>1, <1>4 DEF p, q

\* A date up to today's has begun by the instant that stands for it.
LEMMA Begun ==
  ASSUME TypeOK, NEW z \in Zones, NEW d \in Int, d <= LocalDate(z), NEW t \in 0..clock
  PROVE  Instant(d, z) \in 0..clock /\ (t >= Instant(d, z) <=> DateAt(t, z) >= d)
<1> DEFINE S == {s \in 0..clock : LocalTime(s, z) >= d * DayLength}
<1>1. /\ clock \in Nat /\ clock <= MaxClock /\ MaxClock \in Nat
      /\ DayLength \in Nat /\ DayLength > 0 /\ clock \in 0..clock
      /\ \A s \in 0..clock : LocalTime(s, z) \in Int /\ DateAt(s, z) \in Int
  BY Numbers
<1>2. \A s \in 0..clock : s \in S <=> DateAt(s, z) >= d
  <2> SUFFICES ASSUME NEW s \in 0..clock PROVE s \in S <=> DateAt(s, z) >= d
    OBVIOUS
  <2> DEFINE a == LocalTime(s, z)
  <2>1. a \in Int
    BY <1>1
  <2>2. a >= DayLength * d <=> a \div DayLength >= d
    BY <1>1, <2>1, Reaches
  <2>3. DayLength * d = d * DayLength
    BY <1>1
  <2> QED
    BY <2>2, <2>3 DEF DateAt
<1>3. S \subseteq 0..clock /\ Instant(d, z) = Min(S)
  BY DEF Instant
<1> HIDE DEF S
<1>4. S # {} /\ S \subseteq Nat
  BY <1>1, <1>2, <1>3 DEF LocalDate
<1>5. Min(S) \in S /\ \A s \in S : Min(S) <= s
  <2>1. \E x \in S : \A s \in S : x <= s
    BY <1>4, Least
  <2> QED
    BY <2>1 DEF Min
<1>6. DateAt(t, z) >= d => t >= Min(S)
  BY <1>1, <1>2, <1>5
<1>7. t >= Min(S) => DateAt(t, z) >= d
  <2> DEFINE s == Min(S)
  <2>1. s \in 0..clock /\ DateAt(s, z) >= d /\ DateAt(s, z) \in Int
    BY <1>1, <1>2, <1>3, <1>5
  <2> HIDE DEF s
  <2>2. s <= t => DateAt(s, z) <= DateAt(t, z)
    BY <1>1, <2>1, DatesAssumption
  <2> QED
    BY <1>1, <2>1, <2>2 DEF s
<1> QED
  BY <1>3, <1>5, <1>6, <1>7

\* The activities from the first day of a period on are those of the period.
LEMMA FromFirstDay ==
  ASSUME ActivityInv, NEW z \in Zones, NEW n \in Nat, n > 0
  PROVE  CountFrom(LocalDate(z) - (LocalDate(z) % n), z)
           = Cardinality({t \in logs : t < clock /\ DateAt(t, z) \div n = LocalDate(z) \div n})
<1> DEFINE today == LocalDate(z)
           first == today - (today % n)
<1>1. /\ TypeOK /\ logs \subseteq 0..MaxClock /\ clock \in Nat /\ MaxClock \in Nat
      /\ today \in Int /\ \A t \in 0..clock : DateAt(t, z) \in Int
  BY Numbers, LocalDateType DEF ActivityInv, ActivityTypes, Inv
<1>2. first \in Int /\ first <= today
  BY <1>1, FromStart
<1>3. ASSUME NEW t \in logs, t < clock
      PROVE  t >= Instant(first, z) <=> DateAt(t, z) \div n = today \div n
  <2> DEFINE d == DateAt(t, z)
  <2>1. t \in 0..clock /\ clock \in 0..MaxClock /\ t \in 0..MaxClock
    BY <1>1, <1>3 DEF TypeOK
  <2>2. d \in Int /\ d <= today
    <3>1. d <= DateAt(clock, z)
      BY <1>1, <1>3, <2>1, DatesAssumption
    <3> QED
      BY <1>1, <2>1, <3>1 DEF LocalDate
  <2>3. t >= Instant(first, z) <=> d >= first
    BY <1>1, <1>2, <2>1, Begun
  <2>4. d >= first <=> d \div n = today \div n
    BY <1>1, <2>2, FromStart
  <2> QED
    BY <2>3, <2>4
<1>4. {t \in logs : t >= Instant(first, z) /\ t < clock}
        = {t \in logs : t < clock /\ DateAt(t, z) \div n = today \div n}
  BY <1>3
<1> QED
  BY <1>4 DEF CountFrom

\* The counts of the week and the month are the activities of those dates.
THEOREM CountsAreOfTheirDates == ActivitySpec => []CountsMatchDates
<1>1. ActivityInv => CountsMatchDates
  <2> SUFFICES ASSUME ActivityInv, NEW z \in Zones
               PROVE  /\ WeekCount(z) = Cardinality({t \in logs :
                           t < clock /\ WeekOf(DateAt(t, z)) = WeekOf(LocalDate(z))})
                      /\ MonthCount(z) = Cardinality({t \in logs :
                           t < clock /\ MonthOf(DateAt(t, z)) = MonthOf(LocalDate(z))})
    BY DEF CountsMatchDates
  <2>1. WeekLength \in Nat /\ WeekLength > 0 /\ MonthLength \in Nat /\ MonthLength > 0
    BY CalendarAssumption
  <2>2. /\ CountFrom(LocalDate(z) - (LocalDate(z) % WeekLength), z) = Cardinality({t \in logs :
             t < clock /\ DateAt(t, z) \div WeekLength = LocalDate(z) \div WeekLength})
        /\ CountFrom(LocalDate(z) - (LocalDate(z) % MonthLength), z) = Cardinality({t \in logs :
             t < clock /\ DateAt(t, z) \div MonthLength = LocalDate(z) \div MonthLength})
    BY <2>1, FromFirstDay
  <2> QED
    BY <2>2 DEF WeekCount, MonthCount, WeekOf, MonthOf
<1> QED
  BY <1>1, ActivityInvariance, PTL
=============================================================================
