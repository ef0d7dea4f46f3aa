---------------------------- MODULE CardSchedule ----------------------------
(***************************************************************************)
(* The schedule of one card row while several chats of its owner work on   *)
(* it.  review_card (services/card.py) is one transaction of two steps: it *)
(* reads the row and computes the new schedule from what it read           *)
(* (ReviewRead), and later updates the row by primary key and commits      *)
(* (ReviewWrite).  Nothing locks the row in between, so another chat's     *)
(* rating, reset or deletion may fall between the two.  Handlers of one    *)
(* chat are serialised; a user may have several chats with the bot.  The   *)
(* names begin with Schedule so that a module can speak of CardStore too.  *)
(***************************************************************************)
EXTENDS Sm2, FiniteSets

CONSTANTS
  OwnChats,    \* the chats the owner talks to the bot in
  Qualities,   \* the ratings the review dialog offers: 0, 2, 4 and 5
  MaxRatings,  \* bound: ratings begun
  MaxDay       \* bound: the clock, in days

ASSUME QualitiesAssumption == Qualities \subseteq 0..5
ASSUME BoundsAssumption == MaxRatings \in Nat /\ MaxDay \in Nat

VARIABLES
  card,     \* the cards row, or NoRow once it is deleted
  today,    \* the day of datetime.now(UTC)
  pending,  \* per chat: the review_card transaction between its two steps
  started,  \* history: ratings begun
  passes,   \* history: passes committed since the row was last new or failed
  raced     \* history: a write landed while another chat's rating was pending

scheduleVars == <<card, today, pending, started, passes, raced>>

NoRow == [gone |-> TRUE]
Nothing == [idle |-> TRUE]

Rows == [ease : Nat, interval : Nat, repetitions : Nat, next : Nat, isNew : BOOLEAN]

Ratings == [read : Rows, write : Rows, quality : Qualities]

ScheduleTypeOK ==
  /\ card \in Rows \cup {NoRow}
  /\ today \in Nat
  /\ pending \in [OwnChats -> Ratings \cup {Nothing}]
  /\ started \in Nat
  /\ passes \in Nat
  /\ raced \in BOOLEAN

NewRow == [ease |-> DefaultEase, interval |-> DefaultInterval,
           repetitions |-> DefaultRepetitions, next |-> today, isNew |-> TRUE]

\* Faulty form of Rescheduled: the interval is added to the old due date.
RescheduledFromDue(r, quality) ==
  {[ease |-> NextEase(r.ease, quality), interval |-> n,
    repetitions |-> NextRepetitions(r.repetitions, quality),
    next |-> r.next + n, isNew |-> FALSE]
     : n \in NextIntervals(r.interval, r.ease, r.repetitions, quality)}

\* The values review_card writes for a row and a rating.
Rescheduled(r, quality) ==
  {[ease |-> NextEase(r.ease, quality), interval |-> n,
    repetitions |-> NextRepetitions(r.repetitions, quality),
    next |-> today + n, isNew |-> FALSE]
     : n \in NextIntervals(r.interval, r.ease, r.repetitions, quality)}

Idle(c) == pending[c] = Nothing
OtherPending(c) == \E d \in OwnChats \ {c} : ~ Idle(d)

\* create_card has just inserted the row.
ScheduleInit ==
  /\ today = 0
  /\ card = NewRow
  /\ pending = [c \in OwnChats |-> Nothing]
  /\ started = 0
  /\ passes = 0
  /\ raced = FALSE

\* get_by_id and SM2Service.calculate; a deleted row ends the call here.
ReviewRead(c, quality) ==
  /\ Idle(c)
  /\ card # NoRow
  /\ started < MaxRatings
  /\ \E w \in Rescheduled(card, quality) :
       pending' = [pending EXCEPT ![c] = [read |-> card, write |-> w, quality |-> quality]]
  /\ started' = started + 1
  /\ UNCHANGED <<card, today, passes, raced>>

\* cards.update and the commit; a row deleted meanwhile is EntityNotFoundError.
ReviewWrite(c) ==
  /\ ~ Idle(c)
  /\ IF card = NoRow
     THEN UNCHANGED <<card, passes, raced>>
     ELSE /\ card' = pending[c].write
          /\ passes' = IF Passed(pending[c].quality) THEN passes + 1 ELSE 0
          /\ raced' = (raced \/ OtherPending(c))
  /\ pending' = [pending EXCEPT ![c] = Nothing]
  /\ UNCHANGED <<today, started>>

\* Faulty form of ResetProgress: the repetitions survive a reset.
ResetKeepsRepetitions(c) ==
  /\ Idle(c)
  /\ card # NoRow
  /\ card' = [NewRow EXCEPT !.repetitions = card.repetitions]
  /\ passes' = 0
  /\ raced' = (raced \/ OtherPending(c))
  /\ UNCHANGED <<today, pending, started>>

\* reset_card_progress: one UPDATE, from any chat.
ResetProgress(c) ==
  /\ Idle(c)
  /\ card # NoRow
  /\ card' = NewRow
  /\ passes' = 0
  /\ raced' = (raced \/ OtherPending(c))
  /\ UNCHANGED <<today, pending, started>>

DeleteRow(c) ==
  /\ Idle(c)
  /\ card # NoRow
  /\ card' = NoRow
  /\ UNCHANGED <<today, pending, started, passes, raced>>

NextDay ==
  /\ today < MaxDay
  /\ today' = today + 1
  /\ UNCHANGED <<card, pending, started, passes, raced>>

ScheduleNext ==
  \/ \E c \in OwnChats :
       \/ \E q \in Qualities : ReviewRead(c, q)
       \/ ReviewWrite(c)
       \/ ResetProgress(c)
       \/ DeleteRow(c)
  \/ NextDay

ScheduleSpec == ScheduleInit /\ [][ScheduleNext]_scheduleVars

-----------------------------------------------------------------------------

\* The shape every schedule has, whatever ratings produced it: the ease never
\* falls under its floor, and how long the interval is follows from how many
\* passes in a row the row records.
WellFormed(r) ==
  /\ r.ease >= MinEase
  /\ r.repetitions = 0 => r.interval \in {0, 1}
  /\ r.repetitions = 1 => r.interval = 1
  /\ r.repetitions >= 2 => r.interval >= 6
  /\ r.isNew <=> r.interval = 0
  /\ r.isNew => r.ease = DefaultEase

\* SM-2's state stays consistent under every interleaving of ratings, resets
\* and clock ticks, in the row and in every transaction about to overwrite it:
\* in particular a card counted as learned (not new, repetitions >= 1,
\* repositories/card.py) has an interval, and a card that is not new has been
\* rated since its last reset.
ScheduleWellFormed ==
  /\ card # NoRow => WellFormed(card)
  /\ \A c \in OwnChats : ~ Idle(c) => WellFormed(pending[c].read) /\ WellFormed(pending[c].write)

\* A pass never brings a card back sooner than the interval it was on, and
\* from the third pass in a row on it strictly lengthens that interval: the
\* rounding in sm2.py never eats the growth, even at the lowest ease.
PassLengthens ==
  \A c \in OwnChats : ~ Idle(c) /\ Passed(pending[c].quality) =>
    /\ pending[c].write.interval >= pending[c].read.interval
    /\ pending[c].read.repetitions >= 2 =>
         pending[c].write.interval > pending[c].read.interval

RepetitionsExact == card # NoRow /\ ~ raced => card.repetitions = passes
RepetitionsEarned == card # NoRow => card.repetitions <= started

\* The row records exactly the passes made in a row since the last failure or
\* reset, unless a write landed inside another chat's rating: the lost update
\* of review_card's read-then-write is the only way to miscount.  Even with
\* lost updates and undone resets, a card never records more passes than
\* ratings were ever given.
RepetitionsSound == RepetitionsExact /\ RepetitionsEarned

\* The due date is never further away than the interval the row shows: no
\* stale write and no clock tick can push a card out of the review list for
\* longer than its interval says.
DueWithinInterval ==
  card # NoRow => card.next <= today + card.interval
=============================================================================
