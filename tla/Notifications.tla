---------------------------- MODULE Notifications ----------------------------
(***************************************************************************)
(* The review reminders: the task send_review_notifications                *)
(* (worker/tasks.py), the settings it reads and writes in the users table, *)
(* and the scheduler and stream broker that call it, which are external.   *)
(* Every ten minutes (a slot) the scheduler queues one message; a worker   *)
(* that takes it reads once who wants reminders and has a card due, then   *)
(* goes through these users one by one, and sends to those whose chosen    *)
(* local time is the slot the clock is in by then.  Sending takes time,    *)
(* Telegram may refuse, limit or fail it, users change their settings      *)
(* meanwhile, workers die, and the broker hands an unacknowledged message  *)
(* to a worker again.                                                      *)
(***************************************************************************)
EXTENDS Naturals, Sequences

CONSTANTS
  Users,
  Workers,      \* the processes of "taskiq worker"
  SlotsPerDay,  \* 144 slots of ten minutes
  MaxClock,     \* bound: the clock, in slots
  MaxChanges,   \* bound: what users change
  MaxFailures   \* bound: crashes, redeliveries, failing transactions

ASSUME NotificationsAssumption ==
  /\ SlotsPerDay \in Nat \ {0}
  /\ MaxClock \in Nat /\ MaxChanges \in Nat /\ MaxFailures \in Nat

VARIABLES
  row,        \* per user: notifications_enabled, and the slot of the day (UTC)
              \* in which it is notification_hour:minute in their timezone
  ready,      \* the users who have completed onboarding and have a card due
  toggling,   \* per user: what a toggle_notifications under way has read, if any
  blocked,    \* the users who have blocked the bot
  clock,      \* the slot it is
  queue,      \* slots whose message waits for a worker
  unacked,    \* slots whose message a worker took and has not acknowledged
  run,        \* per worker: the task it runs
  reminders,  \* history, per user: the slots whose reminders were delivered
  owed,       \* history, per slot: whom its run has still to remind in it
  ended,      \* history: slots whose run ended in its slot
  unstored,   \* history: <<slot, user>>, a run that the refusal of a user ended
  choice,     \* history, per user: notifications_enabled as they last left it
  refusers,   \* history: the users a message to whom was refused
  moved,      \* history: the users who changed their time
  late,       \* history: a run began or looked at a user after its slot
  changes, failures

settings == <<row, ready, toggling, blocked, choice, moved, changes>>
broker == <<queue, unacked>>
log == <<reminders, owed, ended, unstored, refusers>>
vars == <<row, ready, toggling, blocked, clock, queue, unacked, run, reminders, owed,
          ended, unstored, choice, refusers, moved, late, changes, failures>>

Slots == 0..MaxClock
TimesOfDay == 0..(SlotsPerDay - 1)

Idle == [pc |-> "idle"]

\* The user being served and the slot in which they were found to be due mean
\* nothing in the loop.
Runs == [pc : {"loop"}, slot : Slots, left : SUBSET Users, at : [Users -> TimesOfDay]]
   \cup [pc : {"send", "sleep", "refused"}, slot : Slots, left : SUBSET Users,
         at : [Users -> TimesOfDay], user : Users, checked : Slots]

TypeOK ==
  /\ row \in [Users -> [enabled : BOOLEAN, at : TimesOfDay]]
  /\ ready \subseteq Users /\ blocked \subseteq Users
  /\ toggling \in [Users -> SUBSET BOOLEAN]
  /\ clock \in Slots /\ queue \subseteq Slots /\ unacked \subseteq Slots
  /\ run \in [Workers -> Runs \cup {Idle}]
  /\ \A w \in Workers : run[w] # Idle => run[w].slot <= clock
  /\ reminders \in [Users -> Seq(Slots)]
  /\ owed \in [Slots -> SUBSET Users] /\ ended \subseteq Slots
  /\ unstored \subseteq Slots \X Users
  /\ choice \in [Users -> BOOLEAN]
  /\ refusers \subseteq Users /\ moved \subseteq Users /\ late \in BOOLEAN
  /\ changes \in 0..MaxChanges /\ failures \in 0..MaxFailures

TimeOfDay == clock % SlotsPerDay

Init ==
  /\ row \in [Users -> [enabled : {TRUE}, at : TimesOfDay]]
  /\ ready = Users /\ blocked = {}
  /\ toggling = [u \in Users |-> {}]
  /\ clock = 0 /\ queue = {0} /\ unacked = {}
  /\ run = [w \in Workers |-> Idle]
  /\ reminders = [u \in Users |-> <<>>]
  /\ owed = [s \in Slots |-> {}] /\ ended = {} /\ unstored = {}
  /\ choice = [u \in Users |-> TRUE]
  /\ refusers = {} /\ moved = {} /\ late = FALSE
  /\ changes = 0 /\ failures = 0

-----------------------------------------------------------------------------
(* The clock, the scheduler and the broker.                                *)

\* "*/10 * * * *": one message in every slot.
Tick ==
  /\ clock < MaxClock
  /\ clock' = clock + 1
  /\ queue' = queue \cup {clock + 1}
  /\ UNCHANGED <<settings, unacked, run, log, late, failures>>

\* A message unacknowledged for ten minutes is handed out again, whether its
\* worker has died or is merely slow.
Redeliver(s) ==
  /\ s \in unacked /\ s < clock
  /\ failures < MaxFailures
  /\ queue' = queue \cup {s}
  /\ failures' = failures + 1
  /\ UNCHANGED <<settings, clock, unacked, run, log, late>>

Crash(w) ==
  /\ run[w] # Idle
  /\ failures < MaxFailures
  /\ run' = [run EXCEPT ![w] = Idle]
  /\ failures' = failures + 1
  /\ UNCHANGED <<settings, clock, broker, log, late>>

-----------------------------------------------------------------------------
(* The task.                                                               *)

\* get_users_to_notify
ToNotify == {u \in ready : row[u].enabled}

Start(w) ==
  /\ run[w] = Idle
  /\ \E s \in queue :
       /\ queue' = queue \ {s}
       /\ unacked' = unacked \cup {s}
       /\ run' = [run EXCEPT ![w] = [pc |-> "loop", slot |-> s, left |-> ToNotify,
                                     at |-> [u \in Users |-> row[u].at]]]
       /\ owed' = [owed EXCEPT ![s] =
            {u \in ToNotify : row[u].at = s % SlotsPerDay}]
       /\ late' = (late \/ s # clock)
  /\ UNCHANGED <<settings, clock, reminders, ended, unstored, refusers, failures>>

\* The query fails: the task ends before it has begun, and is acknowledged.
StartFails(w) ==
  /\ run[w] = Idle
  /\ failures < MaxFailures
  /\ \E s \in queue : queue' = queue \ {s} /\ unacked' = unacked \ {s}
  /\ failures' = failures + 1
  /\ UNCHANGED <<settings, clock, run, log, late>>

\* Faulty form of IsTime: the clock is read once, when the run begins.
IsTimeAtStart(w, u) == run[w].at[u] = run[w].slot % SlotsPerDay

IsTime(w, u) == run[w].at[u] = TimeOfDay

InLoop(w) == run[w].pc = "loop"

\* The next user of the loop: their local time now, by the settings read at
\* the start, against the time they chose then.
Check(w) ==
  /\ InLoop(w)
  /\ \E u \in run[w].left :
       run' = [run EXCEPT ![w] =
         IF IsTime(w, u)
         THEN [pc |-> "send", slot |-> @.slot, left |-> @.left \ {u}, at |-> @.at,
               user |-> u, checked |-> clock]
         ELSE [pc |-> "loop", slot |-> @.slot, left |-> @.left \ {u}, at |-> @.at]]
  /\ late' = (late \/ clock # run[w].slot)
  /\ UNCHANGED <<settings, clock, broker, log, failures>>

\* Faulty form of GoOn: the loop keeps the user it was serving.
GoOnKeepsUser(w) == run' = [run EXCEPT ![w].pc = "loop"]

\* Faulty form of GoOn: the user is looked at once more.
GoOnAgain(w) ==
  run' = [run EXCEPT ![w] =
    [pc |-> "loop", slot |-> @.slot, left |-> @.left \cup {@.user}, at |-> @.at]]

GoOn(w) ==
  run' = [run EXCEPT ![w] = [pc |-> "loop", slot |-> @.slot, left |-> @.left, at |-> @.at]]

\* What a send_message does at Telegram's end.
Delivered(w) ==
  /\ run[w].user \notin blocked
  /\ reminders' = [reminders EXCEPT ![run[w].user] = Append(@, run[w].checked)]

Tried(w) == owed' = [owed EXCEPT ![run[w].slot] = @ \ {run[w].user}]

\* The task ends, and its message is acknowledged.
Ended(w) ==
  /\ run' = [run EXCEPT ![w] = Idle]
  /\ unacked' = unacked \ {run[w].slot}
  /\ ended' = IF clock = run[w].slot THEN ended \cup {clock} ELSE ended

\* The message is delivered, and either the answer comes or it is lost, and
\* the exception is logged; or it is not delivered, and that is logged.
Send(w) ==
  /\ run[w].pc = "send"
  /\ Delivered(w) \/ UNCHANGED reminders
  /\ Tried(w)
  /\ GoOn(w)
  /\ UNCHANGED <<settings, clock, broker, ended, unstored, refusers, late, failures>>

\* TelegramForbiddenError
Refused(w) ==
  /\ run[w].pc = "send"
  /\ run[w].user \in blocked
  /\ Tried(w)
  /\ run' = [run EXCEPT ![w].pc = "refused"]
  /\ refusers' = refusers \cup {run[w].user}
  /\ UNCHANGED <<settings, clock, broker, reminders, ended, unstored, late, failures>>

\* Faulty form of Limited: a rate limit is taken for a refusal.
LimitedAsRefused(w) ==
  /\ run[w].pc = "send"
  /\ Tried(w)
  /\ run' = [run EXCEPT ![w].pc = "refused"]
  /\ UNCHANGED <<settings, clock, broker, reminders, ended, unstored, refusers, late, failures>>

\* TelegramRetryAfter
Limited(w) ==
  /\ run[w].pc = "send"
  /\ Tried(w)
  /\ run' = [run EXCEPT ![w].pc = "sleep"]
  /\ UNCHANGED <<settings, clock, broker, reminders, ended, unstored, refusers, late, failures>>

\* Faulty form of Retry: another failure ends the whole task.
RetryOrGiveUp(w) ==
  /\ run[w].pc = "sleep"
  /\ \/ Delivered(w) /\ GoOn(w) /\ UNCHANGED <<unacked, ended>>
     \/ Ended(w) /\ UNCHANGED reminders
  /\ UNCHANGED <<settings, clock, queue, owed, unstored, refusers, late, failures>>

\* Faulty form of Retry: rate limiting is waited out again and again.
RetryForever(w) ==
  /\ run[w].pc = "sleep"
  /\ \/ Delivered(w) /\ GoOn(w)
     \/ run' = [run EXCEPT ![w].pc = "send"] /\ UNCHANGED reminders
  /\ UNCHANGED <<settings, clock, broker, owed, ended, unstored, refusers, late, failures>>

\* The second and last attempt after the sleep; whatever it raises is logged.
Retry(w) ==
  /\ run[w].pc = "sleep"
  /\ Delivered(w) \/ UNCHANGED reminders
  /\ GoOn(w)
  /\ UNCHANGED <<settings, clock, broker, owed, ended, unstored, refusers, late, failures>>

\* disable_notifications
Disable(w) ==
  /\ run[w].pc = "refused"
  /\ row' = [row EXCEPT ![run[w].user].enabled = FALSE]
  /\ GoOn(w)
  /\ UNCHANGED <<ready, toggling, blocked, choice, moved, changes, clock, broker, log,
                 late, failures>>

\* A failure of disable_notifications is not caught: it ends the task, with
\* whomever it had still to look at, and the broker acknowledges it all the same.
DisableFails(w) ==
  /\ run[w].pc = "refused"
  /\ failures < MaxFailures
  /\ Ended(w)
  /\ unstored' = unstored \cup {<<run[w].slot, run[w].user>>}
  /\ failures' = failures + 1
  /\ UNCHANGED <<settings, clock, queue, reminders, owed, refusers, late>>

Finish(w) ==
  /\ InLoop(w) /\ run[w].left = {}
  /\ Ended(w)
  /\ UNCHANGED <<settings, clock, queue, reminders, owed, unstored, refusers, late, failures>>

-----------------------------------------------------------------------------
(* The users.                                                              *)

Change == changes < MaxChanges /\ changes' = changes + 1

\* toggle_notifications reads the row, then writes the negation of what it read.
ToggleRead(u) ==
  /\ toggling[u] = {}
  /\ Change
  /\ toggling' = [toggling EXCEPT ![u] = {row[u].enabled}]
  /\ UNCHANGED <<row, ready, blocked, choice, moved, clock, broker, run, log, late, failures>>

ToggleWrite(u) ==
  /\ \E read \in toggling[u] :
       /\ row' = [row EXCEPT ![u].enabled = ~ read]
       /\ choice' = [choice EXCEPT ![u] = ~ read]
  /\ toggling' = [toggling EXCEPT ![u] = {}]
  /\ UNCHANGED <<ready, blocked, moved, changes, clock, broker, run, log, late, failures>>

\* update_notification_time or update_timezone
SetTime(u, time) ==
  /\ Change
  /\ row' = [row EXCEPT ![u].at = time]
  /\ moved' = moved \cup {u}
  /\ UNCHANGED <<ready, toggling, blocked, choice, clock, broker, run, log, late, failures>>

\* The user blocks or unblocks the bot in Telegram.
Block(u) ==
  /\ Change
  /\ blocked' = IF u \in blocked THEN blocked \ {u} ELSE blocked \cup {u}
  /\ UNCHANGED <<row, ready, toggling, choice, moved, clock, broker, run, log, late, failures>>

\* The user's last due card is reviewed, or a card comes due.
Study(u) ==
  /\ Change
  /\ ready' = IF u \in ready THEN ready \ {u} ELSE ready \cup {u}
  /\ UNCHANGED <<row, toggling, blocked, choice, moved, clock, broker, run, log, late, failures>>

Work(w) ==
  \/ Check(w) \/ Send(w) \/ Refused(w) \/ Limited(w) \/ Retry(w)
  \/ Disable(w) \/ DisableFails(w) \/ Finish(w)

Next ==
  \/ Tick
  \/ \E s \in unacked : Redeliver(s)
  \/ \E w \in Workers : Start(w) \/ StartFails(w) \/ Work(w) \/ Crash(w)
  \/ \E u \in Users :
       \/ ToggleRead(u) \/ ToggleWrite(u) \/ Block(u) \/ Study(u)
       \/ \E time \in TimesOfDay : SetTime(u, time)

Spec == Init /\ [][Next]_vars

\* Worker processes keep taking messages and running what they have taken.
FairSpec == Spec /\ \A w \in Workers : WF_vars(Start(w)) /\ WF_vars(Work(w))

-----------------------------------------------------------------------------

\* However late a run is, and however often its message is delivered, a user
\* who has not changed their time is found due only at that time of the day:
\* the clock is read for every user anew.
OnlyAtChosenTime ==
  \A u \in Users \ moved :
    \A i \in DOMAIN reminders[u] : reminders[u][i] % SlotsPerDay = row[u].at

\* As long as every run keeps to its slot and no message is delivered twice,
\* nobody gets two reminders for one slot, also if an attempt seemed to fail
\* and had not.
OncePerSlot ==
  ~ late => \A u \in Users : \A i, j \in DOMAIN reminders[u] :
              reminders[u][i] = reminders[u][j] => i = j

\* A run that ends within its slot has tried to send to everybody it had found
\* to be reminded in that slot.  No rate limit, no failing attempt or retry, no
\* lost answer and no refusal costs another user the reminder; one thing does,
\* and nothing else: the switching off of reminders failed for a user who had
\* refused.  That ends the run, for all those it had not come to.
EverybodyTried ==
  ~ late => \A s \in ended : owed[s] # {} =>
              \E u \in refusers \ owed[s] : <<s, u>> \in unstored

\* The worker overrules a user's choice only after Telegram refused a message
\* to that user, never because of a rate limit or an error.
ChoiceKept ==
  \A u \in Users \ refusers : row[u].enabled = choice[u]

\* Every run comes to its end: no user, no rate limit and no refusal keeps a
\* worker from going on to the rest and to its next message.
RunsEnd == \A w \in Workers : run[w] # Idle ~> run[w] = Idle
=============================================================================
