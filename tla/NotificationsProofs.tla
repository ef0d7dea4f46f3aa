------------------------- MODULE NotificationsProofs -------------------------
(***************************************************************************)
(* Proofs about Notifications for any number of users, workers, slots and  *)
(* failures.  While no run is late, a slot has one run at most: a message  *)
(* is queued once, and handed out again only when its slot is over.        *)
(***************************************************************************)
EXTENDS Notifications, TLAPS

Loops == [pc : {"loop"}, slot : Slots, left : SUBSET Users, at : [Users -> TimesOfDay]]
Serving == [pc : {"send", "sleep", "refused"}, slot : Slots, left : SUBSET Users,
            at : [Users -> TimesOfDay], user : Users, checked : Slots]

Reminded(u, s) == \E i \in DOMAIN reminders[u] : reminders[u][i] = s

\* Nothing is ahead of the clock.
Past ==
  /\ \A s \in queue \cup ended : s <= clock
  /\ \A u \in Users, s \in Slots : Reminded(u, s) => s <= clock
  /\ \A w \in Workers : run[w].pc \in {"send", "sleep", "refused"} => run[w].checked <= clock

\* A run works with the times of all who have not changed theirs, and serves
\* a user at the time that user chose, or after a refusal.
RunFaithful ==
  \A w \in Workers : run[w] # Idle =>
    /\ \A u \in Users \ moved : run[w].at[u] = row[u].at
    /\ run[w].pc # "loop" => run[w].checked % SlotsPerDay = run[w].at[run[w].user]
    /\ run[w].pc = "refused" => run[w].user \in refusers

\* While no run is late:
\* a slot has one run at most, and none before its message is taken;
RunsApart ==
  /\ \A v, w \in Workers : run[v] # Idle /\ run[w] # Idle /\ v # w => run[v].slot # run[w].slot
  /\ clock \in queue =>
       /\ \A w \in Workers : run[w] # Idle => run[w].slot # clock
       /\ clock \notin ended /\ \A u \in Users : ~ Reminded(u, clock)

\* a run has not yet reminded the users it still has to look at or to serve;
ToRemind(w) ==
  /\ \A u \in run[w].left : ~ Reminded(u, run[w].slot)
  /\ run[w].pc # "loop" => run[w].checked = run[w].slot /\ run[w].user \notin run[w].left
  /\ run[w].pc \in {"send", "sleep"} => ~ Reminded(run[w].user, run[w].slot)
StillToRemind == \A w \in Workers : run[w] # Idle => ToRemind(w)

\* and whom it owes a reminder it has still to look at, or is sending to.
Owing(w) ==
  \A u \in owed[run[w].slot] :
    /\ run[w].at[u] = run[w].slot % SlotsPerDay
    /\ u \in run[w].left \/ (run[w].pc = "send" /\ u = run[w].user)
StillOwed == \A w \in Workers : run[w] # Idle => Owing(w)

OnTime == ~ late => RunsApart /\ StillToRemind /\ StillOwed

\* In a slot whose run has ended everybody was tried, or the run was ended.
Served(s) == owed[s] # {} => \E u \in refusers \ owed[s] : <<s, u>> \in unstored

Promises == OnlyAtChosenTime /\ OncePerSlot /\ EverybodyTried /\ ChoiceKept

Inv == TypeOK /\ Past /\ RunFaithful /\ OnTime /\ Promises

-----------------------------------------------------------------------------
(* Shapes.                                                                 *)

LEMMA Shapes ==
  ASSUME NEW r \in Runs \cup {Idle}
  PROVE  /\ r.pc \in {"idle", "loop", "send", "sleep", "refused"}
         /\ r.pc = "idle" <=> r = Idle
         /\ r.pc = "loop" => r \in Loops
         /\ r.pc \in {"send", "sleep", "refused"} => r \in Serving
         /\ r # Idle => r.slot \in Slots /\ r.left \subseteq Users /\ r.at \in [Users -> TimesOfDay]
         /\ r.pc \in {"send", "sleep", "refused"} => r.user \in Users /\ r.checked \in Slots
BY DEF Runs, Idle, Loops, Serving

\* A reminder more, of slot s to u.
LEMMA OneMore ==
  ASSUME TypeOK, NEW u \in Users, NEW s \in Slots,
         reminders' = [reminders EXCEPT ![u] = Append(@, s)]
  PROVE  /\ reminders'[u] \in Seq(Slots)
         /\ reminders'[u] = Append(reminders[u], s)
         /\ DOMAIN reminders'[u] = DOMAIN reminders[u] \cup {Len(reminders[u]) + 1}
         /\ Len(reminders[u]) + 1 \notin DOMAIN reminders[u]
         /\ reminders'[u][Len(reminders[u]) + 1] = s
         /\ \A i \in DOMAIN reminders[u] : reminders'[u][i] = reminders[u][i]
         /\ \A v \in Users \ {u} : reminders'[v] = reminders[v]
<1>1. reminders \in [Users -> Seq(Slots)] /\ reminders[u] \in Seq(Slots)
  BY DEF TypeOK
<1>2. reminders'[u] = Append(reminders[u], s) /\ \A v \in Users \ {u} : reminders'[v] = reminders[v]
  BY <1>1
<1> QED
  BY <1>1, <1>2

\* The reminders of one user are switched on or off.
LEMMA Toggled ==
  ASSUME row \in [Users -> [enabled : BOOLEAN, at : TimesOfDay]],
         NEW z \in Users, NEW b \in BOOLEAN, row' = [row EXCEPT ![z].enabled = b]
  PROVE  /\ row' \in [Users -> [enabled : BOOLEAN, at : TimesOfDay]]
         /\ row'[z].enabled = b
         /\ \A u \in Users : /\ row'[u].at = row[u].at
                             /\ u # z => row'[u].enabled = row[u].enabled
<1> DEFINE Rows == [enabled : BOOLEAN, at : TimesOfDay]
           q == [row[z] EXCEPT !.enabled = b]
<1>1. row[z] \in Rows
  OBVIOUS
<1>2. q \in Rows /\ q.enabled = b /\ q.at = row[z].at
  BY <1>1
<1>3. row' = [row EXCEPT ![z] = q]
  OBVIOUS
<1> HIDE DEF q, Rows
<1>4. row'[z] = q /\ \A u \in Users \ {z} : row'[u] = row[u]
  BY <1>3
<1>5. row' \in [Users -> Rows]
  BY <1>2, <1>3 DEF Rows
<1> QED
  BY <1>2, <1>4, <1>5 DEF Rows

-----------------------------------------------------------------------------
(* A worker goes on with its task.                                         *)

\* A message to the user served, if it was delivered, was of the slot in which
\* that user was found to be due.
LEMMA Delivering ==
  ASSUME Inv, NEW w \in Workers, run[w].pc \in {"send", "sleep"},
         Delivered(w) \/ UNCHANGED reminders, UNCHANGED <<row, moved, late>>
  PROVE  /\ reminders' \in [Users -> Seq(Slots)]
         /\ \A u \in Users, s \in Slots : Reminded(u, s)' =>
              Reminded(u, s) \/ (u = run[w].user /\ s = run[w].checked)
         /\ OnlyAtChosenTime' /\ OncePerSlot'
<1> DEFINE z == run[w].user
           c == run[w].checked
<1>1. run[w] \in Serving /\ z \in Users /\ c \in Slots
  BY Shapes DEF Inv, TypeOK
<1>2. run[w] # Idle /\ run[w].pc # "loop"
  BY <1>1 DEF Idle
<1>3. CASE UNCHANGED reminders
  BY <1>3 DEF Inv, TypeOK, Promises, OnlyAtChosenTime, OncePerSlot, Reminded
<1>4. CASE Delivered(w)
  <2> DEFINE n == Len(reminders[z]) + 1
  <2>1. reminders' = [reminders EXCEPT ![z] = Append(@, c)]
    BY <1>4 DEF Delivered
  <2> HIDE DEF z, c
  <2>2. /\ reminders'[z] \in Seq(Slots)
        /\ DOMAIN reminders'[z] = DOMAIN reminders[z] \cup {n}
        /\ n \notin DOMAIN reminders[z] /\ reminders'[z][n] = c
        /\ \A i \in DOMAIN reminders[z] : reminders'[z][i] = reminders[z][i]
        /\ \A v \in Users \ {z} : reminders'[v] = reminders[v]
    <3>1. TypeOK
      BY DEF Inv
    <3> QED
      BY <1>1, <2>1, <3>1, OneMore
  <2> HIDE DEF n
  <2> USE DEF z, c
  <2>3. reminders' \in [Users -> Seq(Slots)]
    BY <1>1, <2>1, <2>2 DEF Inv, TypeOK
  <2>4. \A u \in Users, s \in Slots : Reminded(u, s)' => Reminded(u, s) \/ (u = z /\ s = c)
    BY <2>2 DEF Reminded
  <2>5. OnlyAtChosenTime'
    <3> SUFFICES ASSUME NEW u \in Users, u \notin moved, NEW i \in DOMAIN reminders'[u]
                 PROVE  reminders'[u][i] % SlotsPerDay = row[u].at
      BY DEF OnlyAtChosenTime
    <3>1. \A j \in DOMAIN reminders[u] : reminders[u][j] % SlotsPerDay = row[u].at
      BY DEF Inv, Promises, OnlyAtChosenTime
    <3>2. u = z => c % SlotsPerDay = row[u].at
      BY <1>2 DEF Inv, RunFaithful
    <3> QED
      BY <2>2, <3>1, <3>2
  <2>6. OncePerSlot'
    <3> SUFFICES ASSUME ~ late, NEW u \in Users,
                        NEW i \in DOMAIN reminders'[u], NEW j \in DOMAIN reminders'[u],
                        reminders'[u][i] = reminders'[u][j]
                 PROVE  i = j
      BY DEF OncePerSlot
    <3>1. \A k, l \in DOMAIN reminders[u] : reminders[u][k] = reminders[u][l] => k = l
      BY DEF Inv, Promises, OncePerSlot
    <3>2. \A k \in DOMAIN reminders[z] : reminders[z][k] # c
      BY <1>2 DEF Inv, OnTime, StillToRemind, ToRemind, Reminded
    <3> QED
      BY <2>2, <3>1, <3>2
  <2> QED
    BY <2>3, <2>4, <2>5, <2>6
<1> QED
  BY <1>3, <1>4

\* What a step of one worker must do, and leave alone, to keep the invariant.
LEMMA Working ==
  ASSUME Inv, NEW w \in Workers, run[w] # Idle, NEW r \in Runs \cup {Idle},
         run' = [run EXCEPT ![w] = r],
         \* the task remains the same;
         r # Idle => r.slot = run[w].slot /\ r.at = run[w].at /\ r.left \subseteq run[w].left,
         r # Idle /\ r.pc # "loop" =>
           r.checked <= clock /\ r.checked % SlotsPerDay = r.at[r.user],
         r.pc = "refused" => r.user \in refusers',
         \* reminders go to the user served, of the slot of the run;
         reminders' \in [Users -> Seq(Slots)],
         OnlyAtChosenTime', OncePerSlot',
         \A u \in Users, s \in Slots : Reminded(u, s)' =>
           Reminded(u, s) \/ (run[w].pc \in {"send", "sleep"} /\ u = run[w].user
                                                               /\ s = run[w].checked),
         ~ late' => /\ \A u \in r.left : r # Idle => ~ Reminded(u, r.slot)'
                    /\ r # Idle /\ r.pc # "loop" => r.checked = r.slot /\ r.user \notin r.left
                    /\ r.pc \in {"send", "sleep"} => ~ Reminded(r.user, r.slot)',
         \* the users owed a reminder only become fewer, and are still to come;
         owed' \in [Slots -> SUBSET Users], \A s \in Slots : owed'[s] \subseteq owed[s],
         ~ late' /\ r # Idle =>
           \A u \in owed'[r.slot] : u \in r.left \/ (r.pc = "send" /\ u = r.user),
         \A s \in ended' : s \in ended
           \/ (s = clock /\ s = run[w].slot /\ (~ late' => Served(s)')),
         ended' \subseteq Slots,
         unstored \subseteq unstored', unstored' \subseteq Slots \X Users,
         \* settings change for refusers only.
         row' \in [Users -> [enabled : BOOLEAN, at : TimesOfDay]],
         \A u \in Users : /\ row'[u].at = row[u].at
                          /\ u \notin refusers' => row'[u].enabled = row[u].enabled,
         refusers \subseteq refusers', refusers' \subseteq Users,
         late' \in BOOLEAN, late => late', unacked' \subseteq Slots,
         failures' \in 0..MaxFailures,
         UNCHANGED <<ready, toggling, blocked, choice, moved, changes, clock, queue>>
  PROVE  Inv'
<1>1. run[w] \in Runs /\ run[w].slot \in Slots /\ run[w].slot <= clock
  BY Shapes DEF Inv, TypeOK
<1>2. /\ run' \in [Workers -> Runs \cup {Idle}] /\ run'[w] = r
      /\ \A v \in Workers \ {w} : run'[v] = run[v]
  BY DEF Inv, TypeOK
<1>3. r # Idle => r.pc \in {"loop", "send", "sleep", "refused"}
  BY Shapes
<1>4. TypeOK'
  BY <1>1, <1>2 DEF Inv, TypeOK
<1>5. Past'
  <2>1. \A s \in queue' \cup ended' : s <= clock'
    BY <1>1 DEF Inv, Past
  <2>2. \A u \in Users, s \in Slots : Reminded(u, s)' => s <= clock'
    BY DEF Inv, Past
  <2>3. \A v \in Workers : run'[v].pc \in {"send", "sleep", "refused"} => run'[v].checked <= clock'
    BY <1>2 DEF Inv, Past, Idle
  <2> QED
    BY <2>1, <2>2, <2>3 DEF Past
<1>6. RunFaithful'
  BY <1>2 DEF Inv, RunFaithful
<1>7. ASSUME ~ late' PROVE RunsApart' /\ StillToRemind' /\ StillOwed'
  <2>1. ~ late /\ RunsApart /\ StillToRemind /\ StillOwed
    BY <1>7 DEF Inv, OnTime
  <2>2. run[w].pc \in {"send", "sleep"} => run[w].checked = run[w].slot
    BY <2>1 DEF StillToRemind, ToRemind
  <2>3. \A u \in Users, s \in Slots : Reminded(u, s)' => Reminded(u, s) \/ s = run[w].slot
    BY <2>2
  <2>4. RunsApart'
    <3>1. \A v, x \in Workers :
            run'[v] # Idle /\ run'[x] # Idle /\ v # x => run'[v].slot # run'[x].slot
      BY <1>2, <2>1 DEF RunsApart
    <3>2. ASSUME clock \in queue
          PROVE  /\ \A v \in Workers : run'[v] # Idle => run'[v].slot # clock
                 /\ clock \notin ended' /\ \A u \in Users : ~ Reminded(u, clock)'
      <4>1. /\ \A v \in Workers : run[v] # Idle => run[v].slot # clock
            /\ clock \notin ended /\ \A u \in Users : ~ Reminded(u, clock)
        BY <2>1, <3>2 DEF RunsApart
      <4>2. clock \in Slots
        BY DEF Inv, TypeOK
      <4> QED
        BY <1>2, <2>3, <4>1, <4>2
    <3> QED
      BY <3>1, <3>2 DEF RunsApart, Reminded
  <2>5. ASSUME NEW v \in Workers, v # w, run[v] # Idle
        PROVE  ToRemind(v)' /\ Owing(v)'
    <3>1. run'[v] = run[v] /\ run[v].slot # run[w].slot /\ ToRemind(v) /\ Owing(v)
      BY <1>2, <2>1, <2>5 DEF RunsApart, StillToRemind, StillOwed
    <3>2. /\ run[v].slot \in Slots /\ run[v].left \subseteq Users
          /\ run[v].pc \in {"send", "sleep"} => run[v].user \in Users
      BY <2>5, Shapes DEF Inv, TypeOK
    <3>3. ToRemind(v)'
      BY <2>3, <3>1, <3>2 DEF ToRemind
    <3>4. Owing(v)'
      BY <3>1, <3>2 DEF Owing
    <3> QED
      BY <3>3, <3>4
  <2>6. ASSUME r # Idle PROVE ToRemind(w)' /\ Owing(w)'
    <3>1. Owing(w)
      BY <2>1 DEF StillOwed
    <3>2. ToRemind(w)'
      BY <1>2, <1>7, <2>6 DEF ToRemind
    <3>3. Owing(w)'
      BY <1>1, <1>2, <1>7, <2>6, <3>1 DEF Owing
    <3> QED
      BY <3>2, <3>3
  <2>7. StillToRemind' /\ StillOwed'
    BY <1>2, <2>5, <2>6 DEF StillToRemind, StillOwed
  <2> QED
    BY <2>4, <2>7
<1>8. EverybodyTried'
  <2> SUFFICES ASSUME ~ late', NEW s \in ended' PROVE Served(s)'
    BY DEF EverybodyTried, Served
  <2>1. s \in ended => Served(s) /\ s \in Slots
    BY DEF Inv, Promises, EverybodyTried, Served, TypeOK
  <2>2. CASE s \in ended
    BY <2>1, <2>2 DEF Served
  <2> QED
    BY <2>2
<1>9. ChoiceKept'
  BY DEF Inv, Promises, ChoiceKept
<1> QED
  BY <1>4, <1>5, <1>6, <1>7, <1>8, <1>9 DEF Inv, OnTime, Promises

-----------------------------------------------------------------------------
(* The task's actions.                                                     *)

\* Without a delivery the reminders keep what they promise.
LEMMA NoDelivery ==
  ASSUME Inv, UNCHANGED <<reminders, row, moved>>, late => late'
  PROVE  /\ reminders' \in [Users -> Seq(Slots)]
         /\ \A u \in Users, s \in Slots : Reminded(u, s)' => Reminded(u, s)
         /\ OnlyAtChosenTime' /\ OncePerSlot'
BY DEF Inv, TypeOK, Promises, OnlyAtChosenTime, OncePerSlot, Reminded

\* Back in the loop the run is what it was, but for the user it served.
LEMMA LoopShape ==
  ASSUME Inv, NEW w \in Workers, run[w].pc \in {"send", "sleep", "refused"}
  PROVE  LET r == [pc |-> "loop", slot |-> run[w].slot, left |-> run[w].left, at |-> run[w].at]
         IN  /\ r \in Runs /\ r # Idle /\ r.pc = "loop"
             /\ r.slot = run[w].slot /\ r.left = run[w].left /\ r.at = run[w].at
BY Shapes DEF Inv, TypeOK, Runs, Idle, Serving

LEMMA ServingShape ==
  ASSUME Inv, NEW w \in Workers, run[w].pc = "send", NEW next \in {"sleep", "refused"}
  PROVE  LET r == [run[w] EXCEPT !.pc = next]
         IN  /\ r \in Runs /\ r # Idle /\ r.pc = next
             /\ r.slot = run[w].slot /\ r.left = run[w].left /\ r.at = run[w].at
             /\ r.user = run[w].user /\ r.checked = run[w].checked
<1>1. run[w] \in Serving
  BY Shapes DEF Inv, TypeOK
<1> DEFINE r == [run[w] EXCEPT !.pc = next]
<1>2. /\ r \in Serving /\ r.pc = next
      /\ r.slot = run[w].slot /\ r.left = run[w].left /\ r.at = run[w].at
      /\ r.user = run[w].user /\ r.checked = run[w].checked
  BY <1>1 DEF Serving
<1>3. Serving \subseteq Runs
  BY DEF Serving, Runs
<1>4. r # Idle
  BY <1>2 DEF Idle
<1> QED
  BY <1>2, <1>3, <1>4

\* What is known of a worker that serves a user, and of what it owes.
LEMMA InService ==
  ASSUME Inv, NEW w \in Workers, run[w].pc \in {"send", "sleep", "refused"}
  PROVE  /\ run[w] # Idle /\ run[w].user \in Users /\ run[w].slot \in Slots
         /\ run[w].checked <= clock
         /\ run[w].checked % SlotsPerDay = run[w].at[run[w].user]
         /\ ~ late => ToRemind(w) /\ Owing(w)
<1>1. run[w] # Idle /\ run[w].pc # "loop"
  BY DEF Idle
<1> QED
  BY <1>1, Shapes DEF Inv, TypeOK, Past, RunFaithful, OnTime, StillToRemind, StillOwed

\* The user who was tried is no more owed a reminder.
LEMMA TriedShape ==
  ASSUME Inv, NEW w \in Workers, run[w].pc = "send", Tried(w)
  PROVE  /\ owed' \in [Slots -> SUBSET Users] /\ \A s \in Slots : owed'[s] \subseteq owed[s]
         /\ ~ late => owed'[run[w].slot] \subseteq run[w].left
<1>1. run[w].slot \in Slots /\ (~ late => Owing(w))
  BY InService
<1>2. owed \in [Slots -> SUBSET Users]
  BY DEF Inv, TypeOK
<1> QED
  BY <1>1, <1>2 DEF Tried, Owing

LEMMA CheckStep ==
  ASSUME Inv, NEW w \in Workers, Check(w)
  PROVE  Inv'
<1>1. PICK u \in run[w].left :
        run' = [run EXCEPT ![w] =
          IF IsTime(w, u)
          THEN [pc |-> "send", slot |-> @.slot, left |-> @.left \ {u}, at |-> @.at,
                user |-> u, checked |-> clock]
          ELSE [pc |-> "loop", slot |-> @.slot, left |-> @.left \ {u}, at |-> @.at]]
  BY Zenon DEF Check
<1>2. run[w].pc = "loop" /\ run[w] # Idle /\ run[w] \in Loops
  BY Shapes DEF Check, InLoop, Idle, Inv, TypeOK
<1>3. u \in Users /\ clock \in Slots /\ clock <= clock /\ run[w].slot \in Slots
  BY <1>2 DEF Loops, Inv, TypeOK, Slots
<1>4. ~ late' => ~ late /\ clock = run[w].slot /\ ToRemind(w) /\ Owing(w)
  BY <1>2 DEF Check, Inv, OnTime, StillToRemind, StillOwed
<1>5. late' \in BOOLEAN /\ (late => late')
  BY DEF Check, Inv, TypeOK
<1>6. /\ reminders' \in [Users -> Seq(Slots)]
      /\ \A v \in Users, s \in Slots : Reminded(v, s)' => Reminded(v, s)
      /\ OnlyAtChosenTime' /\ OncePerSlot'
  BY <1>5, NoDelivery DEF Check, settings, log
<1>7. CASE IsTime(w, u)
  <2>1. PICK r \in Serving :
          /\ run' = [run EXCEPT ![w] = r]
          /\ r.pc = "send" /\ r.slot = run[w].slot /\ r.left = run[w].left \ {u}
          /\ r.at = run[w].at /\ r.user = u /\ r.checked = clock
    <3> DEFINE q == [pc |-> "send", slot |-> run[w].slot, left |-> run[w].left \ {u},
                     at |-> run[w].at, user |-> u, checked |-> clock]
    <3>1. /\ q \in Serving /\ q.pc = "send" /\ q.slot = run[w].slot
          /\ q.left = run[w].left \ {u} /\ q.at = run[w].at /\ q.user = u /\ q.checked = clock
      BY <1>2, <1>3 DEF Serving, Loops
    <3>2. run' = [run EXCEPT ![w] = q]
      BY <1>1, <1>7
    <3> QED
      BY <3>1, <3>2
  <2>2. r \in Runs /\ r # Idle
    BY <2>1 DEF Serving, Runs, Idle
  <2>4. clock % SlotsPerDay = r.at[u]
    BY <1>7, <2>1 DEF IsTime, TimeOfDay
  <2>5. ~ late' => /\ \A v \in r.left : ~ Reminded(v, r.slot)'
                   /\ r.checked = r.slot /\ r.user \notin r.left
                   /\ ~ Reminded(r.user, r.slot)'
                   /\ \A v \in owed'[r.slot] : v \in r.left \/ v = r.user
    <3> SUFFICES ASSUME ~ late'
                 PROVE  /\ \A v \in r.left : ~ Reminded(v, r.slot)'
                        /\ r.checked = r.slot /\ r.user \notin r.left
                        /\ ~ Reminded(r.user, r.slot)'
                        /\ \A v \in owed'[r.slot] : v \in r.left \/ v = r.user
      OBVIOUS
    <3>1. \A v \in run[w].left : v \in Users /\ ~ Reminded(v, run[w].slot)
      BY <1>2, <1>4 DEF ToRemind, Loops
    <3>2. \A v \in owed[run[w].slot] : v \in run[w].left
      BY <1>2, <1>4 DEF Owing
    <3>3. owed' = owed
      BY DEF Check, log
    <3> QED
      BY <1>3, <1>4, <1>6, <2>1, <3>1, <3>2, <3>3
  <2> QED
    BY <1>2, <1>3, <1>5, <1>6, <2>1, <2>2, <2>4, <2>5, Working
       DEF Check, settings, log, broker, Inv, TypeOK
<1>8. CASE ~ IsTime(w, u)
  <2>1. PICK r \in Loops :
          /\ run' = [run EXCEPT ![w] = r]
          /\ r.pc = "loop" /\ r.slot = run[w].slot /\ r.left = run[w].left \ {u}
          /\ r.at = run[w].at
    <3> DEFINE q == [pc |-> "loop", slot |-> run[w].slot, left |-> run[w].left \ {u}, at |-> run[w].at]
    <3>1. /\ q \in Loops /\ q.pc = "loop" /\ q.slot = run[w].slot
          /\ q.left = run[w].left \ {u} /\ q.at = run[w].at
      BY <1>2 DEF Loops
    <3>2. run' = [run EXCEPT ![w] = q]
      BY <1>1, <1>8
    <3> QED
      BY <3>1, <3>2
  <2>2. r \in Runs /\ r # Idle
    BY <2>1 DEF Loops, Runs, Idle
  <2>4. ~ late' => /\ \A v \in r.left : ~ Reminded(v, r.slot)'
                   /\ \A v \in owed'[r.slot] : v \in r.left
    <3> SUFFICES ASSUME ~ late'
                 PROVE  /\ \A v \in r.left : ~ Reminded(v, r.slot)'
                        /\ \A v \in owed'[r.slot] : v \in r.left
      OBVIOUS
    <3>1. \A v \in run[w].left : v \in Users /\ ~ Reminded(v, run[w].slot)
      BY <1>2, <1>4 DEF ToRemind, Loops
    <3>2. \A v \in owed[run[w].slot] : v \in run[w].left /\ run[w].at[v] = run[w].slot % SlotsPerDay
      BY <1>2, <1>4 DEF Owing
    <3>3. u \notin owed[run[w].slot]
      BY <1>4, <1>8, <3>2 DEF IsTime, TimeOfDay
    <3>4. owed' = owed
      BY DEF Check, log
    <3> QED
      BY <1>3, <1>6, <2>1, <3>1, <3>2, <3>3, <3>4
  <2> QED
    BY <1>2, <1>5, <1>6, <2>1, <2>2, <2>4, Working
       DEF Check, settings, log, broker, Inv, TypeOK
<1> QED
  BY <1>7, <1>8

LEMMA SendStep ==
  ASSUME Inv, NEW w \in Workers, Send(w)
  PROVE  Inv'
<1>1. run[w].pc = "send" /\ (Delivered(w) \/ UNCHANGED reminders) /\ Tried(w)
  BY DEF Send
<1>2. PICK r \in Runs :
        /\ run' = [run EXCEPT ![w] = r] /\ r # Idle /\ r.pc = "loop"
        /\ r.slot = run[w].slot /\ r.left = run[w].left /\ r.at = run[w].at
  BY <1>1, LoopShape DEF Send, GoOn
<1>3. /\ run[w] # Idle /\ run[w].user \in Users /\ run[w].slot \in Slots
      /\ ~ late => ToRemind(w)
  BY <1>1, InService
<1>4. /\ owed' \in [Slots -> SUBSET Users] /\ \A s \in Slots : owed'[s] \subseteq owed[s]
      /\ ~ late => owed'[run[w].slot] \subseteq run[w].left
  BY <1>1, TriedShape
<1>5. UNCHANGED <<row, moved, late>>
  BY DEF Send, settings
<1>6. /\ reminders' \in [Users -> Seq(Slots)] /\ OnlyAtChosenTime' /\ OncePerSlot'
      /\ \A u \in Users, s \in Slots : Reminded(u, s)' =>
           Reminded(u, s) \/ (u = run[w].user /\ s = run[w].checked)
  BY <1>1, <1>5, Delivering
<1>7. ~ late' => \A u \in r.left : ~ Reminded(u, r.slot)'
  <2> SUFFICES ASSUME ~ late', NEW u \in r.left PROVE ~ Reminded(u, r.slot)'
    OBVIOUS
  <2>1. /\ ~ Reminded(u, run[w].slot) /\ u # run[w].user /\ u \in Users
    BY <1>1, <1>2, <1>3, <1>5, Shapes DEF ToRemind, Inv, TypeOK
  <2> QED
    BY <1>2, <1>3, <1>6, <2>1
<1>8. ~ late' => \A u \in owed'[r.slot] : u \in r.left
  BY <1>2, <1>4, <1>5
<1>9. /\ UNCHANGED <<ready, toggling, blocked, choice, moved, changes, clock, queue>>
      /\ row' = row /\ row' \in [Users -> [enabled : BOOLEAN, at : TimesOfDay]]
      /\ ended' = ended /\ ended' \subseteq Slots /\ unacked' \subseteq Slots
      /\ unstored \subseteq unstored' /\ unstored' \subseteq Slots \X Users
      /\ refusers \subseteq refusers' /\ refusers' \subseteq Users
      /\ late' \in BOOLEAN /\ (late => late') /\ failures' \in 0..MaxFailures
  BY DEF Send, settings, broker, Inv, TypeOK
<1> QED
  BY <1>1, <1>2, <1>3, <1>4, <1>6, <1>7, <1>8, <1>9, Working

LEMMA RetryStep ==
  ASSUME Inv, NEW w \in Workers, Retry(w)
  PROVE  Inv'
<1>1. run[w].pc = "sleep" /\ (Delivered(w) \/ UNCHANGED reminders)
  BY DEF Retry
<1>2. PICK r \in Runs :
        /\ run' = [run EXCEPT ![w] = r] /\ r # Idle /\ r.pc = "loop"
        /\ r.slot = run[w].slot /\ r.left = run[w].left /\ r.at = run[w].at
  BY <1>1, LoopShape DEF Retry, GoOn
<1>3. /\ run[w] # Idle /\ run[w].user \in Users /\ run[w].slot \in Slots
      /\ ~ late => ToRemind(w) /\ Owing(w)
  BY <1>1, InService
<1>4. /\ owed' \in [Slots -> SUBSET Users] /\ \A s \in Slots : owed'[s] \subseteq owed[s]
      /\ ~ late => owed'[run[w].slot] \subseteq run[w].left
  BY <1>1, <1>3 DEF Retry, Owing, Inv, TypeOK
<1>5. UNCHANGED <<row, moved, late>>
  BY DEF Retry, settings
<1>6. /\ reminders' \in [Users -> Seq(Slots)] /\ OnlyAtChosenTime' /\ OncePerSlot'
      /\ \A u \in Users, s \in Slots : Reminded(u, s)' =>
           Reminded(u, s) \/ (u = run[w].user /\ s = run[w].checked)
  BY <1>1, <1>5, Delivering
<1>7. ~ late' => \A u \in r.left : ~ Reminded(u, r.slot)'
  <2> SUFFICES ASSUME ~ late', NEW u \in r.left PROVE ~ Reminded(u, r.slot)'
    OBVIOUS
  <2>1. /\ ~ Reminded(u, run[w].slot) /\ u # run[w].user /\ u \in Users
    BY <1>1, <1>2, <1>3, <1>5, Shapes DEF ToRemind, Inv, TypeOK
  <2> QED
    BY <1>2, <1>3, <1>6, <2>1
<1>8. ~ late' => \A u \in owed'[r.slot] : u \in r.left
  BY <1>2, <1>4, <1>5
<1>9. /\ UNCHANGED <<ready, toggling, blocked, choice, moved, changes, clock, queue>>
      /\ row' = row /\ row' \in [Users -> [enabled : BOOLEAN, at : TimesOfDay]]
      /\ ended' = ended /\ ended' \subseteq Slots /\ unacked' \subseteq Slots
      /\ unstored \subseteq unstored' /\ unstored' \subseteq Slots \X Users
      /\ refusers \subseteq refusers' /\ refusers' \subseteq Users
      /\ late' \in BOOLEAN /\ (late => late') /\ failures' \in 0..MaxFailures
  BY DEF Retry, settings, broker, Inv, TypeOK
<1> QED
  BY <1>1, <1>2, <1>3, <1>4, <1>6, <1>7, <1>8, <1>9, Working

LEMMA LimitedStep ==
  ASSUME Inv, NEW w \in Workers, Limited(w)
  PROVE  Inv'
<1>1. run[w].pc = "send" /\ Tried(w) /\ "sleep" \in {"sleep", "refused"}
  BY DEF Limited
<1>2. PICK r \in Runs :
        /\ run' = [run EXCEPT ![w] = r] /\ r # Idle /\ r.pc = "sleep"
        /\ r.slot = run[w].slot /\ r.left = run[w].left /\ r.at = run[w].at
        /\ r.user = run[w].user /\ r.checked = run[w].checked
  <2>1. run' = [run EXCEPT ![w] = [run[w] EXCEPT !.pc = "sleep"]]
    BY DEF Limited
  <2> QED
    BY <1>1, <2>1, ServingShape
<1>3. /\ run[w] # Idle /\ run[w].user \in Users /\ run[w].slot \in Slots
      /\ run[w].checked <= clock /\ run[w].checked % SlotsPerDay = run[w].at[run[w].user]
      /\ ~ late => ToRemind(w)
  BY <1>1, InService
<1>4. /\ owed' \in [Slots -> SUBSET Users] /\ \A s \in Slots : owed'[s] \subseteq owed[s]
      /\ ~ late => owed'[run[w].slot] \subseteq run[w].left
  BY <1>1, TriedShape
<1>5. UNCHANGED <<row, moved, late, reminders>>
  BY DEF Limited, settings
<1>6. /\ reminders' \in [Users -> Seq(Slots)] /\ OnlyAtChosenTime' /\ OncePerSlot'
      /\ \A u \in Users, s \in Slots : Reminded(u, s)' => Reminded(u, s)
  BY <1>5, NoDelivery
<1>7. ~ late' => /\ \A u \in r.left : ~ Reminded(u, r.slot)'
                 /\ r.checked = r.slot /\ r.user \notin r.left
                 /\ ~ Reminded(r.user, r.slot)'
  <2> SUFFICES ASSUME ~ late' PROVE /\ \A u \in r.left : ~ Reminded(u, r.slot)'
                                    /\ r.checked = r.slot /\ r.user \notin r.left
                                    /\ ~ Reminded(r.user, r.slot)'
    OBVIOUS
  <2>1. /\ \A u \in run[w].left : ~ Reminded(u, run[w].slot) /\ u \in Users
        /\ run[w].checked = run[w].slot /\ run[w].user \notin run[w].left
        /\ ~ Reminded(run[w].user, run[w].slot)
    BY <1>1, <1>3, <1>5, Shapes DEF ToRemind, Inv, TypeOK
  <2> QED
    BY <1>2, <1>3, <1>6, <2>1
<1>8. ~ late' => \A u \in owed'[r.slot] : u \in r.left
  BY <1>2, <1>4, <1>5
<1>9. /\ UNCHANGED <<ready, toggling, blocked, choice, moved, changes, clock, queue>>
      /\ row' = row /\ row' \in [Users -> [enabled : BOOLEAN, at : TimesOfDay]]
      /\ ended' = ended /\ ended' \subseteq Slots /\ unacked' \subseteq Slots
      /\ unstored \subseteq unstored' /\ unstored' \subseteq Slots \X Users
      /\ refusers \subseteq refusers' /\ refusers' \subseteq Users
      /\ late' \in BOOLEAN /\ (late => late') /\ failures' \in 0..MaxFailures
  BY DEF Limited, settings, broker, Inv, TypeOK
<1> QED
  BY <1>1, <1>2, <1>3, <1>4, <1>6, <1>7, <1>8, <1>9, Working

LEMMA RefusedStep ==
  ASSUME Inv, NEW w \in Workers, Refused(w)
  PROVE  Inv'
<1>1. run[w].pc = "send" /\ Tried(w) /\ "refused" \in {"sleep", "refused"}
  BY DEF Refused
<1>2. PICK r \in Runs :
        /\ run' = [run EXCEPT ![w] = r] /\ r # Idle /\ r.pc = "refused"
        /\ r.slot = run[w].slot /\ r.left = run[w].left /\ r.at = run[w].at
        /\ r.user = run[w].user /\ r.checked = run[w].checked
  <2>1. run' = [run EXCEPT ![w] = [run[w] EXCEPT !.pc = "refused"]]
    BY DEF Refused
  <2> QED
    BY <1>1, <2>1, ServingShape
<1>3. /\ run[w] # Idle /\ run[w].user \in Users /\ run[w].slot \in Slots
      /\ run[w].checked <= clock /\ run[w].checked % SlotsPerDay = run[w].at[run[w].user]
      /\ ~ late => ToRemind(w)
  BY <1>1, InService
<1>4. /\ owed' \in [Slots -> SUBSET Users] /\ \A s \in Slots : owed'[s] \subseteq owed[s]
      /\ ~ late => owed'[run[w].slot] \subseteq run[w].left
  BY <1>1, TriedShape
<1>5. UNCHANGED <<row, moved, late, reminders>>
  BY DEF Refused, settings
<1>6. /\ reminders' \in [Users -> Seq(Slots)] /\ OnlyAtChosenTime' /\ OncePerSlot'
      /\ \A u \in Users, s \in Slots : Reminded(u, s)' => Reminded(u, s)
  BY <1>5, NoDelivery
<1>7. ~ late' => /\ \A u \in r.left : ~ Reminded(u, r.slot)'
                 /\ r.checked = r.slot /\ r.user \notin r.left
  <2> SUFFICES ASSUME ~ late' PROVE /\ \A u \in r.left : ~ Reminded(u, r.slot)'
                                    /\ r.checked = r.slot /\ r.user \notin r.left
    OBVIOUS
  <2>1. /\ \A u \in run[w].left : ~ Reminded(u, run[w].slot) /\ u \in Users
        /\ run[w].checked = run[w].slot /\ run[w].user \notin run[w].left
    BY <1>1, <1>3, <1>5, Shapes DEF ToRemind, Inv, TypeOK
  <2> QED
    BY <1>2, <1>3, <1>6, <2>1
<1>8. ~ late' => \A u \in owed'[r.slot] : u \in r.left
  BY <1>2, <1>4, <1>5
<1>9. /\ refusers' = refusers \cup {run[w].user} /\ refusers \subseteq refusers'
      /\ refusers' \subseteq Users
  BY <1>3 DEF Refused, Inv, TypeOK
<1>10. /\ UNCHANGED <<ready, toggling, blocked, choice, moved, changes, clock, queue>>
      /\ row' = row /\ row' \in [Users -> [enabled : BOOLEAN, at : TimesOfDay]]
      /\ ended' = ended /\ ended' \subseteq Slots /\ unacked' \subseteq Slots
      /\ unstored \subseteq unstored' /\ unstored' \subseteq Slots \X Users
      /\ late' \in BOOLEAN /\ (late => late') /\ failures' \in 0..MaxFailures
  BY DEF Refused, settings, broker, Inv, TypeOK
<1> QED
  BY <1>1, <1>2, <1>3, <1>4, <1>6, <1>7, <1>8, <1>9, <1>10, Working

LEMMA DisableStep ==
  ASSUME Inv, NEW w \in Workers, Disable(w)
  PROVE  Inv'
<1>1. run[w].pc = "refused"
  BY DEF Disable
<1>2. PICK r \in Runs :
        /\ run' = [run EXCEPT ![w] = r] /\ r # Idle /\ r.pc = "loop"
        /\ r.slot = run[w].slot /\ r.left = run[w].left /\ r.at = run[w].at
  BY <1>1, LoopShape DEF Disable, GoOn
<1>3. /\ run[w] # Idle /\ run[w].user \in Users /\ run[w].slot \in Slots
      /\ run[w].user \in refusers
      /\ ~ late => ToRemind(w) /\ Owing(w)
  BY <1>1, InService DEF Inv, RunFaithful
<1>4. /\ row' \in [Users -> [enabled : BOOLEAN, at : TimesOfDay]]
      /\ \A u \in Users : /\ row'[u].at = row[u].at
                          /\ u # run[w].user => row'[u].enabled = row[u].enabled
  BY <1>3, Toggled DEF Disable, Inv, TypeOK
<1>5. UNCHANGED <<reminders, moved, late, owed, ended, refusers>>
  BY DEF Disable, log
<1>6. /\ reminders' \in [Users -> Seq(Slots)] /\ OnlyAtChosenTime' /\ OncePerSlot'
      /\ \A u \in Users, s \in Slots : Reminded(u, s)' => Reminded(u, s)
  BY <1>4, <1>5 DEF Inv, TypeOK, Promises, OnlyAtChosenTime, OncePerSlot, Reminded
<1>7. ~ late' => /\ \A u \in r.left : ~ Reminded(u, r.slot)'
                 /\ \A u \in owed'[r.slot] : u \in r.left
  <2> SUFFICES ASSUME ~ late' PROVE /\ \A u \in r.left : ~ Reminded(u, r.slot)'
                                    /\ \A u \in owed'[r.slot] : u \in r.left
    OBVIOUS
  <2>1. \A u \in run[w].left : ~ Reminded(u, run[w].slot) /\ u \in Users
    BY <1>1, <1>3, <1>5, Shapes DEF ToRemind, Inv, TypeOK
  <2>2. \A u \in owed[run[w].slot] : u \in run[w].left
    BY <1>1, <1>3, <1>5 DEF Owing
  <2> QED
    BY <1>2, <1>3, <1>5, <1>6, <2>1, <2>2
<1>8. /\ UNCHANGED <<ready, toggling, blocked, choice, moved, changes, clock, queue>>
      /\ owed' \in [Slots -> SUBSET Users] /\ owed' = owed
      /\ ended' = ended /\ ended' \subseteq Slots /\ unacked' \subseteq Slots
      /\ unstored \subseteq unstored' /\ unstored' \subseteq Slots \X Users
      /\ refusers' = refusers /\ refusers' \subseteq Users
      /\ late' \in BOOLEAN /\ (late => late') /\ failures' \in 0..MaxFailures
  BY DEF Disable, log, broker, Inv, TypeOK
<1> QED
  BY <1>1, <1>2, <1>3, <1>4, <1>6, <1>7, <1>8, Working

\* A worker whose task is over is idle.
LEMMA Leaving ==
  ASSUME Inv, NEW w \in Workers, run[w] # Idle,
         run' = [run EXCEPT ![w] = Idle], unacked' \subseteq Slots, failures' \in 0..MaxFailures,
         \A s \in ended' : s \in ended
           \/ (s = clock /\ s = run[w].slot /\ (~ late' => Served(s)')),
         unstored \subseteq unstored', unstored' \subseteq Slots \X Users, ended' \subseteq Slots,
         UNCHANGED <<settings, clock, queue, reminders, owed, refusers, late>>
  PROVE  Inv'
<1>1. /\ UNCHANGED <<ready, toggling, blocked, choice, moved, changes, clock, queue>>
      /\ row' = row /\ row' \in [Users -> [enabled : BOOLEAN, at : TimesOfDay]]
      /\ owed' = owed /\ owed' \in [Slots -> SUBSET Users]
      /\ refusers' = refusers /\ refusers' \subseteq Users
      /\ late' \in BOOLEAN /\ (late => late') /\ clock \in Slots
  BY DEF settings, Inv, TypeOK
<1>2. /\ reminders' \in [Users -> Seq(Slots)] /\ OnlyAtChosenTime' /\ OncePerSlot'
      /\ \A u \in Users, s \in Slots : Reminded(u, s)' => Reminded(u, s)
  BY <1>1, NoDelivery
<1>3. Idle \in Runs \cup {Idle} /\ Idle.pc = "idle"
  BY DEF Idle
<1>4. Idle.pc \notin {"loop", "send", "sleep", "refused"}
  BY <1>3
<1>5. \A s \in ended' : s \in ended
           \/ (s = clock /\ s = run[w].slot /\ (~ late' => Served(s)'))
  OBVIOUS
<1>6. ~ late' => /\ \A u \in Idle.left : Idle # Idle => ~ Reminded(u, Idle.slot)'
                 /\ Idle # Idle /\ Idle.pc # "loop" =>
                      Idle.checked = Idle.slot /\ Idle.user \notin Idle.left
                 /\ Idle.pc \in {"send", "sleep"} => ~ Reminded(Idle.user, Idle.slot)'
  BY <1>4
<1> QED
  BY <1>1, <1>2, <1>3, <1>4, <1>5, <1>6, Working

LEMMA DisableFailsStep ==
  ASSUME Inv, NEW w \in Workers, DisableFails(w)
  PROVE  Inv'
<1>1. run[w] # Idle
  BY DEF DisableFails, Idle
<1>2. unacked' \subseteq Slots /\ failures' \in 0..MaxFailures
  BY NotificationsAssumption DEF DisableFails, Ended, Inv, TypeOK
<1>3. /\ run[w].pc = "refused" /\ run[w].slot \in Slots /\ run[w].user \in Users
      /\ ended \subseteq Slots
  BY InService DEF DisableFails, Inv, TypeOK
<1>4. /\ unstored \subseteq unstored' /\ unstored' \subseteq Slots \X Users
      /\ <<run[w].slot, run[w].user>> \in unstored'
      /\ ended' \subseteq Slots /\ refusers' = refusers /\ owed' = owed /\ late' = late
  BY <1>3 DEF DisableFails, Ended, Inv, TypeOK
<1>5. run[w].user \in refusers
  BY <1>1, <1>3 DEF Inv, RunFaithful
<1>6. ~ late => run[w].user \notin owed[run[w].slot]
  BY <1>1, <1>3 DEF Inv, OnTime, StillToRemind, StillOwed, ToRemind, Owing
<1>7. \A s \in Slots : s = run[w].slot /\ ~ late' => Served(s)'
  BY <1>4, <1>5, <1>6 DEF Served
<1>8. \A s \in ended' : s \in ended
           \/ (s = clock /\ s = run[w].slot /\ (~ late' => Served(s)'))
  BY <1>4, <1>7 DEF DisableFails, Ended
<1> QED
  BY <1>1, <1>2, <1>4, <1>8, Leaving DEF DisableFails, Ended

LEMMA CrashStep ==
  ASSUME Inv, NEW w \in Workers, Crash(w)
  PROVE  Inv'
<1>1. unacked' \subseteq Slots /\ failures' \in 0..MaxFailures
  BY NotificationsAssumption DEF Crash, broker, Inv, TypeOK
<1>2. /\ ended' = ended /\ ended' \subseteq Slots
      /\ unstored' = unstored /\ unstored' \subseteq Slots \X Users
  BY DEF Crash, log, Inv, TypeOK
<1> QED
  BY <1>1, <1>2, Leaving DEF Crash, broker, log

LEMMA FinishStep ==
  ASSUME Inv, NEW w \in Workers, Finish(w)
  PROVE  Inv'
<1>1. run[w] # Idle /\ run[w].pc = "loop" /\ run[w].left = {}
  BY DEF Finish, InLoop, Idle
<1>2. unacked' \subseteq Slots /\ failures' \in 0..MaxFailures
  BY DEF Finish, Ended, Inv, TypeOK
<1>3. ~ late' => owed'[run[w].slot] = {}
  <2>1. ~ late' => Owing(w)
    BY <1>1 DEF Finish, Inv, OnTime, StillOwed
  <2> QED
    BY <1>1, <2>1, Shapes DEF Owing, Finish
<1>4. \A s \in ended' : s \in ended
           \/ (s = clock /\ s = run[w].slot /\ (~ late' => Served(s)'))
  <2>1. \A s \in ended' : s \in ended \/ (s = clock /\ s = run[w].slot)
    BY DEF Finish, Ended
  <2> QED
    BY <1>3, <2>1 DEF Served
<1>5. ended' \subseteq Slots /\ unstored' = unstored /\ unstored' \subseteq Slots \X Users
  BY DEF Finish, Ended, Inv, TypeOK
<1> QED
  BY <1>1, <1>2, <1>4, <1>5, Leaving DEF Finish, Ended

-----------------------------------------------------------------------------
(* Messages are queued and taken.                                          *)

LEMMA TickStep ==
  ASSUME Inv, Tick
  PROVE  Inv'
<1>1. clock' = clock + 1 /\ queue' = queue \cup {clock + 1} /\ clock \in Nat /\ clock' \in Slots
  BY NotificationsAssumption DEF Tick, Inv, TypeOK, Slots
<1>2. UNCHANGED <<row, ready, toggling, blocked, choice, moved, changes, unacked, run,
                  reminders, owed, ended, unstored, refusers, late, failures>>
  BY DEF Tick, settings, log
<1>3. \A s \in Slots : s <= clock => s <= clock' /\ s # clock'
  BY <1>1 DEF Slots
<1>4. \A w \in Workers : run[w] # Idle => run[w].slot \in Slots /\ run[w].slot <= clock
  BY Shapes DEF Inv, TypeOK
<1>5. TypeOK'
  <2>1. clock' \in Slots /\ queue' \subseteq Slots
    BY <1>1 DEF Inv, TypeOK
  <2>2. \A w \in Workers : run'[w] # Idle => run'[w].slot <= clock'
    BY <1>2, <1>3, <1>4
  <2> QED
    BY <1>2, <2>1, <2>2 DEF Inv, TypeOK
<1>6. /\ \A s \in queue \cup ended : s \in Slots /\ s <= clock
      /\ \A u \in Users, s \in Slots : Reminded(u, s)' => Reminded(u, s) /\ s <= clock
  BY <1>2 DEF Inv, TypeOK, Past, Reminded
<1>7. Past'
  <2>1. \A s \in queue' \cup ended' : s <= clock'
    <3>1. clock' <= clock'
      BY <1>1
    <3> QED
      BY <1>1, <1>2, <1>3, <1>6, <3>1
  <2>2. \A u \in Users, s \in Slots : Reminded(u, s)' => s <= clock'
    BY <1>3, <1>6
  <2>3. \A w \in Workers : run'[w].pc \in {"send", "sleep", "refused"} => run'[w].checked <= clock'
    <3> SUFFICES ASSUME NEW w \in Workers, run[w].pc \in {"send", "sleep", "refused"}
                 PROVE  run[w].checked <= clock'
      BY <1>2
    <3>1. run[w].checked \in Slots /\ run[w].checked <= clock
      BY Shapes DEF Inv, TypeOK, Past
    <3> QED
      BY <1>3, <3>1
  <2> QED
    BY <2>1, <2>2, <2>3 DEF Past
<1>8. RunFaithful' /\ Promises'
  BY <1>2 DEF Inv, RunFaithful, Promises, OnlyAtChosenTime, OncePerSlot, EverybodyTried, ChoiceKept
<1>9. ASSUME ~ late' PROVE RunsApart' /\ StillToRemind' /\ StillOwed'
  <2>1. ~ late /\ RunsApart /\ StillToRemind /\ StillOwed
    BY <1>2, <1>9 DEF Inv, OnTime
  <2>2. /\ \A w \in Workers : run[w] # Idle => run[w].slot # clock'
        /\ clock' \notin ended /\ \A u \in Users : ~ Reminded(u, clock')
    <3>1. \A u \in Users : ~ Reminded(u, clock')
      BY <1>1, <1>2, <1>3 DEF Inv, Past
    <3> QED
      BY <1>3, <1>4, <1>6, <3>1
  <2>3. RunsApart'
    BY <1>2, <2>1, <2>2 DEF RunsApart, Reminded
  <2>4. StillToRemind' /\ StillOwed'
    BY <1>2, <2>1 DEF StillToRemind, StillOwed, ToRemind, Owing, Reminded
  <2> QED
    BY <2>3, <2>4
<1> QED
  BY <1>5, <1>7, <1>8, <1>9 DEF Inv, OnTime

LEMMA StartStep ==
  ASSUME Inv, NEW w \in Workers, Start(w)
  PROVE  Inv'
<1>1. PICK s \in queue :
        /\ queue' = queue \ {s} /\ unacked' = unacked \cup {s}
        /\ run' = [run EXCEPT ![w] = [pc |-> "loop", slot |-> s, left |-> ToNotify,
                                      at |-> [u \in Users |-> row[u].at]]]
        /\ owed' = [owed EXCEPT ![s] = {u \in ToNotify : row[u].at = s % SlotsPerDay}]
        /\ late' = (late \/ s # clock)
  BY DEF Start
<1>2. UNCHANGED <<row, ready, toggling, blocked, choice, moved, changes, clock,
                  reminders, ended, unstored, refusers, failures>>
  BY DEF Start, settings
<1>3. s \in Slots /\ s <= clock /\ clock \in Slots /\ run[w] = Idle
  BY DEF Inv, TypeOK, Past, Start
<1>4. PICK r \in Loops :
        /\ run' = [run EXCEPT ![w] = r]
        /\ r.pc = "loop" /\ r.slot = s /\ r.left = ToNotify
        /\ \A u \in Users : r.at[u] = row[u].at
  <2> DEFINE q == [pc |-> "loop", slot |-> s, left |-> ToNotify, at |-> [u \in Users |-> row[u].at]]
  <2>1. ToNotify \subseteq Users
    BY DEF ToNotify, Inv, TypeOK
  <2>2. [u \in Users |-> row[u].at] \in [Users -> TimesOfDay]
    BY DEF Inv, TypeOK
  <2>3. q \in Loops
    BY <1>3, <2>1, <2>2 DEF Loops
  <2> QED
    BY <1>1, <2>3
<1>5. r \in Runs /\ r # Idle
  BY <1>4 DEF Loops, Runs, Idle
<1>6. /\ run' \in [Workers -> Runs \cup {Idle}] /\ run'[w] = r
      /\ \A v \in Workers \ {w} : run'[v] = run[v]
  BY <1>4, <1>5 DEF Inv, TypeOK
<1>7. /\ owed'[s] = {u \in ToNotify : row[u].at = s % SlotsPerDay}
      /\ \A t \in Slots : t # s => owed'[t] = owed[t]
      /\ owed' \in [Slots -> SUBSET Users]
  <2>1. {u \in ToNotify : row[u].at = s % SlotsPerDay} \subseteq Users
    BY DEF ToNotify, Inv, TypeOK
  <2> QED
    BY <1>1, <1>3, <2>1 DEF Inv, TypeOK
<1>8. late' \in BOOLEAN /\ (late => late') /\ (~ late' => s = clock)
  BY <1>1 DEF Inv, TypeOK
<1>9. TypeOK'
  <2>1. \A v \in Workers : run'[v] # Idle => run'[v].slot <= clock'
    BY <1>2, <1>3, <1>4, <1>6 DEF Inv, TypeOK
  <2>2. queue' \subseteq Slots /\ unacked' \subseteq Slots
    BY <1>1, <1>3 DEF Inv, TypeOK
  <2> QED
    BY <1>2, <1>6, <1>7, <1>8, <2>1, <2>2 DEF Inv, TypeOK
<1>10. Past'
  <2>1. \A v \in Workers : run'[v].pc \in {"send", "sleep", "refused"} => run'[v].checked <= clock'
    BY <1>2, <1>4, <1>6 DEF Inv, Past
  <2> QED
    BY <1>1, <1>2, <2>1 DEF Inv, Past, Reminded
<1>11. RunFaithful'
  BY <1>2, <1>4, <1>6 DEF Inv, RunFaithful
<1>12. ASSUME ~ late' PROVE RunsApart' /\ StillToRemind' /\ StillOwed' /\ EverybodyTried'
  <2>1. /\ ~ late /\ s = clock /\ RunsApart /\ StillToRemind /\ StillOwed /\ EverybodyTried
    BY <1>8, <1>12 DEF Inv, OnTime, Promises
  <2>2. /\ \A v \in Workers : run[v] # Idle => run[v].slot # s
        /\ s \notin ended /\ \A u \in Users : ~ Reminded(u, s)
    BY <2>1 DEF RunsApart
  <2>3. RunsApart'
    BY <1>1, <1>2, <1>4, <1>6, <2>1, <2>2 DEF RunsApart
  <2>4. EverybodyTried'
    BY <1>2, <1>7, <2>1, <2>2 DEF EverybodyTried, Inv, TypeOK
  <2>5. ToRemind(w)' /\ Owing(w)'
    <3>1. \A u \in r.left : u \in Users
      BY <1>4 DEF Loops
    <3>2. ToRemind(w)'
      BY <1>2, <1>4, <1>6, <2>2, <3>1 DEF ToRemind, Reminded
    <3>3. Owing(w)'
      BY <1>4, <1>6, <1>7, <3>1 DEF Owing
    <3> QED
      BY <3>2, <3>3
  <2>6. ASSUME NEW v \in Workers, v # w, run[v] # Idle
        PROVE  ToRemind(v)' /\ Owing(v)'
    <3>1. run'[v] = run[v] /\ run[v].slot # s /\ run[v].slot \in Slots /\ ToRemind(v) /\ Owing(v)
      BY <1>6, <2>1, <2>2, <2>6, Shapes DEF StillToRemind, StillOwed, Inv, TypeOK
    <3>2. ToRemind(v)'
      BY <1>2, <3>1 DEF ToRemind, Reminded
    <3>3. Owing(v)'
      BY <1>7, <3>1 DEF Owing
    <3> QED
      BY <3>2, <3>3
  <2>7. StillToRemind' /\ StillOwed'
    BY <1>6, <2>5, <2>6 DEF StillToRemind, StillOwed
  <2> QED
    BY <2>3, <2>4, <2>7
<1>13. OnlyAtChosenTime' /\ OncePerSlot' /\ ChoiceKept'
  BY <1>2, <1>8 DEF Inv, Promises, OnlyAtChosenTime, OncePerSlot, ChoiceKept
<1>14. EverybodyTried'
  BY <1>12 DEF EverybodyTried
<1> QED
  BY <1>9, <1>10, <1>11, <1>12, <1>13, <1>14 DEF Inv, OnTime, Promises

\* What does not touch the runs, the log and the clock, and queues no message
\* of this slot.
LEMMA Aside ==
  ASSUME Inv, UNCHANGED <<clock, run, reminders, owed, ended, unstored, refusers, late>>,
         queue' \subseteq Slots, \A s \in queue' : s <= clock, clock \in queue' => clock \in queue,
         unacked' \subseteq Slots, ready' \subseteq Users, blocked' \subseteq Users,
         toggling' \in [Users -> SUBSET BOOLEAN], choice' \in [Users -> BOOLEAN],
         row' \in [Users -> [enabled : BOOLEAN, at : TimesOfDay]],
         moved \subseteq moved', moved' \subseteq Users,
         changes' \in 0..MaxChanges, failures' \in 0..MaxFailures,
         \A u \in Users \ moved' : row'[u].at = row[u].at,
         \A u \in Users \ refusers : row'[u].enabled = choice'[u]
  PROVE  Inv'
<1>1. TypeOK'
  BY DEF Inv, TypeOK
<1>2. Past'
  BY DEF Inv, Past, Reminded
<1>3. RunFaithful'
  BY DEF Inv, RunFaithful
<1>4. OnTime'
  BY DEF Inv, OnTime, RunsApart, StillToRemind, StillOwed, ToRemind, Owing, Reminded
<1>5. OnlyAtChosenTime'
  BY DEF Inv, Promises, OnlyAtChosenTime
<1>6. OncePerSlot' /\ EverybodyTried' /\ ChoiceKept'
  BY DEF Inv, Promises, OncePerSlot, EverybodyTried, ChoiceKept
<1> QED
  BY <1>1, <1>2, <1>3, <1>4, <1>5, <1>6 DEF Inv, Promises

LEMMA RedeliverStep ==
  ASSUME Inv, NEW s \in unacked, Redeliver(s)
  PROVE  Inv'
<1>1. /\ queue' = queue \cup {s} /\ s < clock /\ s \in Slots /\ clock \in Slots
      /\ UNCHANGED <<row, ready, toggling, blocked, choice, moved, changes, unacked, clock, run,
                     reminders, owed, ended, unstored, refusers, late>>
  BY DEF Redeliver, settings, log, Inv, TypeOK
<1>2. failures' \in 0..MaxFailures
  BY NotificationsAssumption DEF Redeliver, Inv, TypeOK
<1>3. s <= clock /\ s # clock
  BY <1>1 DEF Slots
<1>4. \A t \in queue' : t \in Slots /\ t <= clock
  BY <1>1, <1>3 DEF Inv, TypeOK, Past
<1> QED
  BY <1>1, <1>2, <1>3, <1>4, Aside DEF Inv, TypeOK, Promises, ChoiceKept

LEMMA StartFailsStep ==
  ASSUME Inv, NEW w \in Workers, StartFails(w)
  PROVE  Inv'
<1>1. /\ queue' \subseteq queue /\ unacked' \subseteq unacked
      /\ UNCHANGED <<row, ready, toggling, blocked, choice, moved, changes, clock, run,
                     reminders, owed, ended, unstored, refusers, late>>
  BY DEF StartFails, settings, log
<1>2. failures' \in 0..MaxFailures
  BY NotificationsAssumption DEF StartFails, Inv, TypeOK
<1>3. \A t \in queue' : t \in Slots /\ t <= clock
  BY <1>1 DEF Inv, TypeOK, Past
<1> QED
  BY <1>1, <1>2, <1>3, Aside DEF Inv, TypeOK, Promises, ChoiceKept

-----------------------------------------------------------------------------
(* The users.                                                              *)

LEMMA ToggleReadStep ==
  ASSUME Inv, NEW u \in Users, ToggleRead(u)
  PROVE  Inv'
<1>1. UNCHANGED <<row, ready, blocked, choice, moved, clock, queue, unacked, run, reminders,
                  owed, ended, unstored, refusers, late, failures>>
  BY DEF ToggleRead, broker, log
<1>2. changes' \in 0..MaxChanges
  BY NotificationsAssumption DEF ToggleRead, Change, Inv, TypeOK
<1>3. toggling' \in [Users -> SUBSET BOOLEAN]
  <2>1. row[u].enabled \in BOOLEAN
    BY DEF Inv, TypeOK
  <2>2. {row[u].enabled} \in SUBSET BOOLEAN
    BY <2>1
  <2> QED
    BY <2>2 DEF ToggleRead, Inv, TypeOK
<1> QED
  BY <1>1, <1>2, <1>3, Aside DEF Inv, TypeOK, Past, Promises, ChoiceKept

LEMMA ToggleWriteStep ==
  ASSUME Inv, NEW u \in Users, ToggleWrite(u)
  PROVE  Inv'
<1>1. PICK read \in toggling[u] : row' = [row EXCEPT ![u].enabled = ~ read]
                                  /\ choice' = [choice EXCEPT ![u] = ~ read]
  BY DEF ToggleWrite
<1>2. UNCHANGED <<ready, blocked, moved, changes, clock, queue, unacked, run, reminders,
                  owed, ended, unstored, refusers, late, failures>>
  BY DEF ToggleWrite, broker, log
<1> DEFINE b == ~ read
<1>3. b \in BOOLEAN
  OBVIOUS
<1>4. toggling' \in [Users -> SUBSET BOOLEAN]
  BY DEF ToggleWrite, Inv, TypeOK
<1>5. row' = [row EXCEPT ![u].enabled = b] /\ choice' = [choice EXCEPT ![u] = b]
  BY <1>1
<1> HIDE DEF b
<1>6. /\ row' \in [Users -> [enabled : BOOLEAN, at : TimesOfDay]]
      /\ row'[u].enabled = b
      /\ \A v \in Users : row'[v].at = row[v].at /\ (v # u => row'[v].enabled = row[v].enabled)
  BY <1>3, <1>5, Toggled DEF Inv, TypeOK
<1>7. /\ choice' \in [Users -> BOOLEAN] /\ choice'[u] = b
      /\ \A v \in Users \ {u} : choice'[v] = choice[v]
  BY <1>3, <1>5 DEF Inv, TypeOK
<1>8. \A v \in Users \ refusers : row'[v].enabled = choice'[v]
  BY <1>6, <1>7 DEF Inv, Promises, ChoiceKept
<1> QED
  BY <1>2, <1>4, <1>6, <1>7, <1>8, Aside DEF Inv, TypeOK, Past

LEMMA SetTimeStep ==
  ASSUME Inv, NEW u \in Users, NEW time \in TimesOfDay, SetTime(u, time)
  PROVE  Inv'
<1>1. UNCHANGED <<ready, toggling, blocked, choice, clock, queue, unacked, run, reminders,
                  owed, ended, unstored, refusers, late, failures>>
  BY DEF SetTime, broker, log
<1>2. changes' \in 0..MaxChanges
  BY NotificationsAssumption DEF SetTime, Change, Inv, TypeOK
<1>3. moved' = moved \cup {u}
  BY DEF SetTime
<1> DEFINE Rows == [enabled : BOOLEAN, at : TimesOfDay]
           q == [row[u] EXCEPT !.at = time]
<1>4. row[u] \in Rows
  BY DEF Inv, TypeOK
<1>5. q \in Rows /\ q.enabled = row[u].enabled
  BY <1>4
<1>6. row' = [row EXCEPT ![u] = q]
  BY DEF SetTime
<1> HIDE DEF q
<1>7. /\ row' \in [Users -> Rows]
      /\ \A v \in Users : row'[v].enabled = row[v].enabled /\ (v # u => row'[v] = row[v])
  BY <1>5, <1>6 DEF Inv, TypeOK
<1>8. \A v \in Users \ refusers : row'[v].enabled = choice'[v]
  BY <1>1, <1>7 DEF Inv, Promises, ChoiceKept
<1> QED
  BY <1>1, <1>2, <1>3, <1>7, <1>8, Aside DEF Inv, TypeOK, Past

LEMMA BlockStep ==
  ASSUME Inv, NEW u \in Users, Block(u)
  PROVE  Inv'
<1>1. UNCHANGED <<row, ready, toggling, choice, moved, clock, queue, unacked, run, reminders,
                  owed, ended, unstored, refusers, late, failures>>
  BY DEF Block, broker, log
<1>2. changes' \in 0..MaxChanges
  BY NotificationsAssumption DEF Block, Change, Inv, TypeOK
<1>3. blocked' \subseteq Users
  BY DEF Block, Inv, TypeOK
<1> QED
  BY <1>1, <1>2, <1>3, Aside DEF Inv, TypeOK, Past, Promises, ChoiceKept

LEMMA StudyStep ==
  ASSUME Inv, NEW u \in Users, Study(u)
  PROVE  Inv'
<1>1. UNCHANGED <<row, toggling, blocked, choice, moved, clock, queue, unacked, run, reminders,
                  owed, ended, unstored, refusers, late, failures>>
  BY DEF Study, broker, log
<1>2. changes' \in 0..MaxChanges
  BY NotificationsAssumption DEF Study, Change, Inv, TypeOK
<1>3. ready' \subseteq Users
  BY DEF Study, Inv, TypeOK
<1> QED
  BY <1>1, <1>2, <1>3, Aside DEF Inv, TypeOK, Past, Promises, ChoiceKept

-----------------------------------------------------------------------------
(* The specification.                                                      *)

LEMMA Begins == Init => Inv
<1> SUFFICES ASSUME Init PROVE Inv
  OBVIOUS
<1>1. /\ \A w \in Workers : run[w] = Idle /\ run[w].pc = "idle"
      /\ \A u \in Users : DOMAIN reminders[u] = {}
      /\ clock = 0 /\ queue = {0} /\ ended = {} /\ unstored = {} /\ 0 \in Slots
  BY NotificationsAssumption DEF Init, Idle, Slots
<1>2. TypeOK
  <2>1. /\ row \in [Users -> [enabled : BOOLEAN, at : TimesOfDay]]
        /\ toggling \in [Users -> SUBSET BOOLEAN] /\ choice \in [Users -> BOOLEAN]
    BY DEF Init
  <2>2. /\ run \in [Workers -> Runs \cup {Idle}] /\ \A w \in Workers : run[w] = Idle
        /\ owed \in [Slots -> SUBSET Users] /\ reminders \in [Users -> Seq(Slots)]
    BY DEF Init
  <2>3. changes \in 0..MaxChanges /\ failures \in 0..MaxFailures
    BY NotificationsAssumption DEF Init
  <2>4. clock \in Slots /\ queue \subseteq Slots /\ unacked \subseteq Slots /\ ended \subseteq Slots
    BY <1>1 DEF Init
  <2> QED
    BY <2>1, <2>2, <2>3, <2>4 DEF Init, TypeOK
<1>3. Past
  <2>1. \A s \in queue \cup ended : s <= clock
    BY <1>1
  <2>2. \A u \in Users, s \in Slots : Reminded(u, s) => s <= clock
    BY <1>1 DEF Reminded
  <2> QED
    BY <1>1, <2>1, <2>2 DEF Past
<1>4. RunFaithful /\ OnTime
  BY <1>1 DEF RunFaithful, OnTime, RunsApart, StillToRemind, StillOwed, Reminded
<1>5. Promises
  BY <1>1 DEF Init, Promises, OnlyAtChosenTime, OncePerSlot, EverybodyTried, ChoiceKept
<1> QED
  BY <1>2, <1>3, <1>4, <1>5 DEF Inv

LEMMA Stutters == Inv /\ UNCHANGED vars => Inv'
<1> SUFFICES ASSUME Inv, UNCHANGED vars PROVE Inv'
  OBVIOUS
<1>1. UNCHANGED <<row, ready, toggling, blocked, clock, queue, unacked, run, reminders, owed,
                  ended, unstored, choice, refusers, moved, late, changes, failures>>
  BY DEF vars
<1> QED
  BY <1>1, Aside DEF Inv, TypeOK, Past, Promises, ChoiceKept

LEMMA Steps == Inv /\ [Next]_vars => Inv'
<1> SUFFICES ASSUME Inv, [Next]_vars PROVE Inv'
  OBVIOUS
<1>1. CASE Tick
  BY <1>1, TickStep
<1>2. CASE \E s \in unacked : Redeliver(s)
  BY <1>2, RedeliverStep
<1>3. CASE \E w \in Workers : Start(w) \/ StartFails(w) \/ Crash(w)
  BY <1>3, StartStep, StartFailsStep, CrashStep
<1>4. CASE \E w \in Workers : Work(w)
  BY <1>4, CheckStep, SendStep, RefusedStep, LimitedStep, RetryStep, DisableStep,
     DisableFailsStep, FinishStep DEF Work
<1>5. CASE \E u \in Users :
             \/ ToggleRead(u) \/ ToggleWrite(u) \/ Block(u) \/ Study(u)
             \/ \E time \in TimesOfDay : SetTime(u, time)
  BY <1>5, ToggleReadStep, ToggleWriteStep, BlockStep, StudyStep, SetTimeStep
<1>6. CASE UNCHANGED vars
  BY <1>6, Stutters
<1> QED
  BY <1>1, <1>2, <1>3, <1>4, <1>5, <1>6 DEF Next

\* The invariant holds however many users, workers, slots, changes of settings
\* and failures of workers there are.
THEOREM Invariance == Spec => []Inv
BY Begins, Steps, PTL DEF Spec

\* The state keeps its type; no worker runs a task of a slot that has not come.
THEOREM TypeCorrect == Spec => []TypeOK
<1>1. Inv => TypeOK
  BY DEF Inv
<1> QED
  BY <1>1, Invariance, PTL

\* A user who has not changed their time is found due only at that time of the
\* day, however late the run and however often its message is delivered.
THEOREM RemindersAtChosenTime == Spec => []OnlyAtChosenTime
<1>1. Inv => OnlyAtChosenTime
  BY DEF Inv, Promises
<1> QED
  BY <1>1, Invariance, PTL

\* As long as no run is late nobody gets two reminders for one slot, whatever
\* the number of workers and of attempts whose answer is lost.
THEOREM RemindersOncePerSlot == Spec => []OncePerSlot
<1>1. Inv => OncePerSlot
  BY DEF Inv, Promises
<1> QED
  BY <1>1, Invariance, PTL

\* A run that ends within its slot has tried to send to everybody it had found
\* to be reminded then, whoever refused, was limited or failed before: unless it
\* was ended by a failure to switch off the reminders of a user who had refused,
\* whom it had itself tried.
THEOREM EverybodyIsTried == Spec => []EverybodyTried
<1>1. Inv => EverybodyTried
  BY DEF Inv, Promises
<1> QED
  BY <1>1, Invariance, PTL

\* The worker overrules only the choice of a user to whom Telegram refused a
\* message, whatever toggles are under way.
THEOREM ChoicesAreKept == Spec => []ChoiceKept
<1>1. Inv => ChoiceKept
  BY DEF Inv, Promises
<1> QED
  BY <1>1, Invariance, PTL
=============================================================================
