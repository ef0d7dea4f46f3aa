--------------------------- MODULE SettingsProofs ---------------------------
(***************************************************************************)
(* Proofs about Settings for any number of updates in flight, and any      *)
(* times and timezones.  The properties speak of the row and of an update  *)
(* at its turn; the invariant has to speak of every update on its way.     *)
(***************************************************************************)
EXTENDS Settings, TLAPS

\* The buttons that bring no value, and those that do.
Plainly == {"to_how", "to_ready", "change_hour", "change_tz", "back", "back_hour", "tz_search",
            "search_again", "settings", "menu", "finish", "toggle", "/start", "/menu", "void"}
Ids == Plainly \cup {"hour_select", "minute_select", "location", "text", "tz_result_select",
                    "tz_confirm"}
Bare == {"none", "welcome", "how_it_works", "ready", "menu", "main", "select_hour",
         "select_timezone", "tz_search_input"}
WindowNames == Bare \cup {"select_minute", "tz_search_results", "tz_confirm"}
Values == Hours \cup Minutes \cup Zones \cup (SUBSET Zones) \cup {Nothing}

\* What the value of an input may be follows from its id.
Fits(i) ==
  /\ i.id = "hour_select" => i.value \in Hours
  /\ i.id \in {"location", "tz_result_select"} => i.value \in Zones
  /\ i.id = "text" => i.value # {} /\ i.value \subseteq Zones
  /\ i.id = "minute_select" => i.value \in Minutes
Inputs == {i \in [id : Ids, value : Values, shown : Hours \cup Zones \cup {Nothing}] : Fits(i)}
Shows == {d \in [window : WindowNames, value : Values] : IsDialog(d)}

Fresh == [pc : {"get", "create"}, input : Inputs, done : BOOLEAN]
Queue == [pc : {"queued"}, input : Inputs, done : BOOLEAN,
          user : [onboarded : BOOLEAN, enabled : BOOLEAN]]
Passed == {NoUpdate} \cup [pc : {"toggle"}, enabled : BOOLEAN]
          \cup [pc : {"show"}, to : Shows, started : BOOLEAN]
Updates == Fresh \cup Queue \cup Passed

Typed ==
  /\ row \in Rows \cup {NoUser}
  /\ dialog \in Shows
  /\ updates \in [Slots -> Updates]
  /\ elsewhere \in 0..MaxElsewhere /\ parity \in BOOLEAN /\ raced \in BOOLEAN

OneHandled == \A s, t \in Handling : s = t

\* Past the middleware there is a row.
Registered == \A s \in Slots : updates[s].pc \in {"queued", "toggle", "show"} => row # NoUser

\* An update sent when onboarding was completed finds it completed.
DoneStays ==
  \A s \in Waiting : updates[s].done =>
    /\ row # NoUser /\ row.onboarded
    /\ updates[s].pc # "create"
    /\ updates[s].pc = "queued" => updates[s].user.onboarded

\* Unless two have overlapped, the toggle under way starts from the row.
TogglesFollow ==
  /\ row = NoUser => parity
  /\ TogglesCounted
  /\ \A s \in Slots : updates[s].pc = "toggle" /\ ~ raced => updates[s].enabled = ~ parity

\* The windows that commit a choice, and the buttons by which they do.
Committing == {"select_minute", "tz_confirm"}
Screen(id) == IF id = "minute_select" THEN "select_minute" ELSE "tz_confirm"

\* A handler leads to such a window only from another one.
LeavesWindow ==
  \A s \in Slots : updates[s].pc = "show" /\ updates[s].to.window \in Committing =>
    dialog.window # updates[s].to.window

\* What an update's sender saw is on screen if its window is, and no handler
\* under way brings that window with something else in it.
IsCurrent(i) ==
  i.shown # Nothing =>
    /\ i.id \in {"minute_select", "tz_confirm"}
    /\ dialog.window = Screen(i.id) => dialog.value = i.shown
    /\ \A s \in Slots : updates[s].pc = "show" => updates[s].to.window # Screen(i.id)
ShownIsCurrent == \A t \in Waiting : IsCurrent(updates[t].input)

Inv ==
  /\ Typed /\ OneHandled /\ Registered /\ DoneStays /\ TogglesFollow
  /\ LeavesWindow /\ ShownIsCurrent

\* The bodies of the action properties.
Once ==
  /\ row # NoUser => row' # NoUser /\ (row.onboarded => row'.onboarded)
  /\ \A s \in Slots :
       updates[s].pc = "queued" /\ updates[s].done /\ updates'[s].pc = "show" =>
         updates'[s].to.window # "welcome"
AsShown ==
  \A s \in Slots :
    LET input == updates[s].input
        committed == updates[s].pc = "queued" /\ updates'[s].pc = "show" /\ input.shown # Nothing
    IN  /\ committed /\ input.id = "minute_select" => row'.time = <<input.shown, input.value>>
        /\ committed /\ input.id = "tz_confirm" => row'.zone = input.shown

-----------------------------------------------------------------------------
(* Shapes.                                                                 *)

\* What the state of an update tells of its other parts.
LEMMA Shapes ==
  ASSUME NEW u \in Updates
  PROVE  /\ u.pc \in {"none", "get", "create", "queued", "toggle", "show"}
         /\ u.pc = "none" => u = NoUpdate
         /\ u.pc \in {"get", "create"} => u \in Fresh
         /\ u.pc = "queued" => u \in Queue
         /\ u.pc \in {"get", "create", "queued"} => u.input \in Inputs /\ u.done \in BOOLEAN
         /\ u.pc = "queued" => u.user \in [onboarded : BOOLEAN, enabled : BOOLEAN]
         /\ u.pc = "toggle" => u.enabled \in BOOLEAN
         /\ u.pc = "show" => u.to \in Shows /\ u.started \in BOOLEAN
BY DEF Updates, Fresh, Queue, Passed, NoUpdate

\* Unseen changes nothing else of an input.
LEMMA UnseenInput ==
  ASSUME NEW i \in Inputs
  PROVE  /\ Unseen(i) \in Inputs
         /\ Unseen(i).id = i.id /\ Unseen(i).value = i.value /\ Unseen(i).shown = Nothing
<1>1. i \in [id : Ids, value : Values, shown : Hours \cup Zones \cup {Nothing}] /\ Fits(i)
  BY DEF Inputs
<1>2. /\ Unseen(i) \in [id : Ids, value : Values, shown : Hours \cup Zones \cup {Nothing}]
      /\ Unseen(i).id = i.id /\ Unseen(i).value = i.value /\ Unseen(i).shown = Nothing
  BY <1>1 DEF Unseen
<1>3. Fits(Unseen(i))
  BY <1>1, <1>2 DEF Fits
<1> QED
  BY <1>2, <1>3 DEF Inputs

\* A waiting update given another input keeps its other parts.
LEMMA OtherInputFresh ==
  ASSUME NEW u \in Fresh, NEW i \in Inputs
  PROVE  LET v == [u EXCEPT !.input = i]
         IN  v \in Fresh /\ v.pc = u.pc /\ v.input = i /\ v.done = u.done
BY DEF Fresh
LEMMA OtherInputQueue ==
  ASSUME NEW u \in Queue, NEW i \in Inputs
  PROVE  LET v == [u EXCEPT !.input = i]
         IN  v \in Queue /\ v.pc = u.pc /\ v.input = i /\ v.done = u.done /\ v.user = u.user
BY DEF Queue
LEMMA OtherInput ==
  ASSUME NEW u \in Updates, u.pc \in {"get", "create", "queued"}, NEW i \in Inputs
  PROVE  LET v == [u EXCEPT !.input = i]
         IN  /\ v \in Updates /\ v.pc = u.pc /\ v.input = i /\ v.done = u.done
             /\ u.pc = "queued" => v.user = u.user
<1>1. u \in Fresh \/ u \in Queue
  BY Shapes
<1>2. CASE u \in Queue
  BY <1>2, OtherInputQueue, Zenon DEF Updates
<1>3. CASE u \in Fresh
  <2>1. u.pc # "queued"
    BY <1>3 DEF Fresh
  <2> QED
    BY <1>3, <2>1, OtherInputFresh, Zenon DEF Updates
<1> QED
  BY <1>1, <1>2, <1>3

\* A window with nothing in it, and the three that hold something.
LEMMA Windows ==
  /\ \A w \in Bare :
       Window(w) \in Shows /\ Window(w).window = w
  /\ \A h \in Hours : [window |-> "select_minute", value |-> h] \in Shows
  /\ \A found \in SUBSET Zones :
       found # {} => [window |-> "tz_search_results", value |-> found] \in Shows
  /\ \A z \in Zones : [window |-> "tz_confirm", value |-> z] \in Shows
<1>1. ASSUME NEW w \in Bare
      PROVE  Window(w) \in Shows /\ Window(w).window = w
  <2>1. Window(w).window = w
    BY DEF Window
  <2>2. Nothing \in Values
    BY DEF Values
  <2>3. Window(w) \in [window : WindowNames, value : Values]
    BY <2>2 DEF Window, WindowNames
  <2>4. IsDialog(Window(w))
    BY <2>1 DEF IsDialog, Bare
  <2> QED
    BY <2>1, <2>3, <2>4 DEF Shows
<1>2. ASSUME NEW w \in WindowNames, NEW v \in Values
      PROVE  LET d == [window |-> w, value |-> v]
             IN  d \in [window : WindowNames, value : Values] /\ d.window = w /\ d.value = v
  OBVIOUS
<1>3. ASSUME NEW h \in Hours PROVE [window |-> "select_minute", value |-> h] \in Shows
  <2>1. h \in Values
    BY DEF Values
  <2> QED
    BY <1>2, <2>1 DEF Shows, IsDialog, WindowNames
<1>4. ASSUME NEW found \in SUBSET Zones, found # {}
      PROVE  [window |-> "tz_search_results", value |-> found] \in Shows
  <2>1. found \in Values
    BY DEF Values
  <2> QED
    BY <1>2, <1>4, <2>1 DEF Shows, IsDialog, WindowNames
<1>5. ASSUME NEW z \in Zones PROVE [window |-> "tz_confirm", value |-> z] \in Shows
  <2>1. z \in Values
    BY DEF Values
  <2> QED
    BY <1>2, <2>1 DEF Shows, IsDialog, WindowNames
<1> QED
  BY <1>1, <1>3, <1>4, <1>5

\* What a dialog holds.
LEMMA Held ==
  ASSUME NEW d \in Shows
  PROVE  /\ d.window = "select_minute" => d.value \in Hours
         /\ d.window = "tz_search_results" => d.value # {} /\ d.value \subseteq Zones
         /\ d.window = "tz_confirm" => d.value \in Zones
BY DEF Shows, IsDialog, WindowNames

\* Where the buttons lead that only switch or start.
LEMMA Leads ==
  ASSUME NEW x \in Switches \cup Starts
  PROVE  /\ x[2] \in Plainly
         /\ x[3] \in {"how_it_works", "ready", "main", "select_hour", "select_timezone",
                      "tz_search_input", "menu"}
BY DEF Switches, Starts, Plainly

LEMMA InputShape ==
  ASSUME NEW id \in Ids, NEW value \in Values, NEW shown \in Hours \cup Zones \cup {Nothing}
  PROVE  LET i == Input(id, value, shown)
         IN  /\ i \in [id : Ids, value : Values, shown : Hours \cup Zones \cup {Nothing}]
             /\ i.id = id /\ i.value = value /\ i.shown = shown
BY DEF Input
LEMMA PlainInputs ==
  ASSUME NEW id \in Plainly
  PROVE  Plain(id) \in Inputs /\ Plain(id).id = id /\ Plain(id).shown = Nothing
<1>1. id \in Ids /\ Nothing \in Values
  BY DEF Ids, Values
<1>2. /\ Plain(id) \in [id : Ids, value : Values, shown : Hours \cup Zones \cup {Nothing}]
      /\ Plain(id).id = id /\ Plain(id).shown = Nothing
  BY <1>1, InputShape DEF Plain
<1>3. Fits(Plain(id))
  BY <1>2 DEF Fits, Plainly
<1> QED
  BY <1>2, <1>3 DEF Inputs

\* What is offered fits its button, and shows what is on screen.
LEMMA OfferedInputs ==
  ASSUME dialog \in Shows, NEW input \in Offered
  PROVE  /\ input \in Inputs
         /\ input.shown # Nothing =>
              /\ input.id \in {"minute_select", "tz_confirm"}
              /\ dialog.window = Screen(input.id) /\ dialog.value = input.shown
<1> DEFINE w == dialog.window
<1>1. CASE \E id \in Plainly : input = Plain(id)
  BY <1>1, PlainInputs
<1>2. CASE w = "select_hour" /\ \E h \in Hours : input = Input("hour_select", h, Nothing)
  <2>1. PICK h \in Hours : input = Input("hour_select", h, Nothing)
    BY <1>2
  <2>2. h \in Values
    BY DEF Values
  <2> QED
    BY <2>1, <2>2, InputShape DEF Ids, Inputs, Fits
<1>3. CASE w = "select_minute" /\ \E m \in Minutes : input = Input("minute_select", m, dialog.value)
  <2>1. dialog.value \in Hours
    BY <1>3, Held
  <2>2. PICK m \in Minutes : input = Input("minute_select", m, dialog.value)
    BY <1>3
  <2>3. m \in Values
    BY DEF Values
  <2> QED
    BY <1>3, <2>1, <2>2, <2>3, InputShape DEF Ids, Inputs, Fits, Screen
<1>4. CASE w = "select_timezone" /\ \E z \in Zones : input = Input("location", z, Nothing)
  <2>1. PICK z \in Zones : input = Input("location", z, Nothing)
    BY <1>4
  <2>2. z \in Values
    BY DEF Values
  <2> QED
    BY <2>1, <2>2, InputShape DEF Ids, Inputs, Fits
<1>5. CASE w = "tz_search_input"
           /\ \E found \in (SUBSET Zones) \ {{}} : input = Input("text", found, Nothing)
  <2>1. PICK found \in (SUBSET Zones) \ {{}} : input = Input("text", found, Nothing)
    BY <1>5
  <2>2. found \in Values
    BY DEF Values
  <2>3. /\ input \in [id : Ids, value : Values, shown : Hours \cup Zones \cup {Nothing}]
        /\ input.id = "text" /\ input.value = found /\ input.shown = Nothing
    BY <2>1, <2>2, InputShape DEF Ids
  <2>4. found # {} /\ found \subseteq Zones
    OBVIOUS
  <2>5. Fits(input)
    BY <2>3, <2>4 DEF Fits
  <2> QED
    BY <2>3, <2>5 DEF Inputs
<1>6. CASE w = "tz_search_results"
           /\ \E z \in dialog.value : input = Input("tz_result_select", z, Nothing)
  <2>1. PICK z \in Zones : input = Input("tz_result_select", z, Nothing)
    BY <1>6, Held
  <2>2. z \in Values
    BY DEF Values
  <2> QED
    BY <2>1, <2>2, InputShape DEF Ids, Inputs, Fits
<1>7. CASE w = "tz_confirm" /\ input = Input("tz_confirm", Nothing, dialog.value)
  <2>1. dialog.value \in Zones
    BY <1>7, Held
  <2>2. Nothing \in Values
    BY DEF Values
  <2> QED
    BY <1>7, <2>1, <2>2, InputShape DEF Ids, Inputs, Fits, Screen
<1>8. \/ \E id \in Plainly : input = Plain(id)
      \/ w = "select_hour" /\ \E h \in Hours : input = Input("hour_select", h, Nothing)
      \/ w = "select_minute" /\ \E m \in Minutes : input = Input("minute_select", m, dialog.value)
      \/ w = "select_timezone" /\ \E z \in Zones : input = Input("location", z, Nothing)
      \/ w = "tz_search_input"
         /\ \E found \in (SUBSET Zones) \ {{}} : input = Input("text", found, Nothing)
      \/ w = "tz_search_results"
         /\ \E z \in dialog.value : input = Input("tz_result_select", z, Nothing)
      \/ w = "tz_confirm" /\ input = Input("tz_confirm", Nothing, dialog.value)
  <2>1. CASE \E c \in Commands : input = Plain(c)
    BY <2>1 DEF Commands, Plainly
  <2>2. CASE \E x \in Switches \cup Starts : input = Plain(x[2])
    BY <2>2, Leads
  <2>3. "finish" \in Plainly /\ "toggle" \in Plainly
    BY DEF Plainly
  <2> QED
    BY <2>1, <2>2, <2>3 DEF Offered
<1> QED
  BY <1>1, <1>2, <1>3, <1>4, <1>5, <1>6, <1>7, <1>8

-----------------------------------------------------------------------------
(* The steps.                                                              *)

\* What Serve does to the updates: the one at its turn becomes u, and those
\* that wait keep all but what their senders saw.
LEMMA ServeShape ==
  ASSUME Typed, NEW s \in Slots, NEW u \in Updates, Serve(s, u)
  PROVE  /\ updates' \in [Slots -> Updates]
         /\ updates'[s] = u
         /\ \A t \in Slots \ {s} :
              /\ updates'[t].pc = updates[t].pc
              /\ t \notin Waiting => updates'[t] = updates[t]
              /\ t \in Waiting => /\ updates'[t].input = Unseen(updates[t].input)
                                  /\ updates'[t].input.shown = Nothing
                                  /\ updates'[t].done = updates[t].done
                                  /\ updates[t].pc = "queued" => updates'[t].user = updates[t].user
<1>1. \A t \in Slots : updates[t] \in Updates
  BY DEF Typed
<1>2. updates' = [t \in Slots |->
        IF t = s THEN u
        ELSE IF t \in Waiting THEN [updates[t] EXCEPT !.input = Unseen(updates[t].input)]
        ELSE updates[t]]
  BY DEF Serve
<1>3. ASSUME NEW t \in Waiting
      PROVE  LET v == [updates[t] EXCEPT !.input = Unseen(updates[t].input)]
             IN  /\ v \in Updates /\ v.pc = updates[t].pc
                 /\ v.input = Unseen(updates[t].input) /\ v.input.shown = Nothing
                 /\ v.done = updates[t].done
                 /\ updates[t].pc = "queued" => v.user = updates[t].user
  <2>1. updates[t] \in Updates /\ updates[t].pc \in {"get", "create", "queued"}
    BY <1>1 DEF Waiting
  <2>2. updates[t].input \in Inputs
    BY <2>1, Shapes
  <2>3. Unseen(updates[t].input) \in Inputs /\ Unseen(updates[t].input).shown = Nothing
    BY <2>2, UnseenInput
  <2> QED
    BY <2>1, <2>3, OtherInput
<1> QED
  BY <1>1, <1>2, <1>3, Zenon DEF Waiting

\* An update at its turn becomes u, and no other is being handled.
LEMMA Served ==
  ASSUME Inv, NEW s \in Slots, NEW id, Turn(s, id), NEW u \in Updates, Serve(s, u),
         u.pc \in {"none", "toggle", "show"},
         u.pc = "toggle" => u.enabled = ~ row.enabled,
         u.pc = "show" /\ u.to.window \in Committing => dialog.window # u.to.window,
         row' \in Rows, row'.enabled = row.enabled, row.onboarded => row'.onboarded,
         UNCHANGED <<dialog, elsewhere, parity, raced>>
  PROVE  Inv'
<1>1. /\ updates' \in [Slots -> Updates] /\ updates'[s] = u
      /\ \A t \in Slots \ {s} :
           /\ updates'[t].pc = updates[t].pc
           /\ t \notin Waiting => updates'[t] = updates[t]
           /\ t \in Waiting => /\ updates'[t].input.shown = Nothing
                               /\ updates'[t].done = updates[t].done
                               /\ updates[t].pc = "queued" => updates'[t].user = updates[t].user
  BY ServeShape DEF Inv
<1>2. updates[s].pc = "queued" /\ row \in Rows /\ \A t \in Slots : t \notin Handling
  BY DEF Inv, Registered, Turn, Typed
<1>3. row' # NoUser
  BY NoUserAssumption
<1>4. \A t \in Slots \ {s} : updates[t].pc \notin {"toggle", "show"}
  BY <1>2 DEF Handling
<1>5. Waiting' \subseteq Waiting \ {s}
  BY <1>1 DEF Waiting
<1>6. Typed'
  BY <1>1 DEF Inv, Typed
<1>7. OneHandled'
  BY <1>1, <1>4 DEF OneHandled, Handling
<1>8. Registered'
  BY <1>3 DEF Registered
<1>9. DoneStays'
  <2> SUFFICES ASSUME NEW t \in Waiting', updates'[t].done
               PROVE  /\ row' # NoUser /\ row'.onboarded
                      /\ updates'[t].pc # "create"
                      /\ updates'[t].pc = "queued" => updates'[t].user.onboarded
    BY DEF DoneStays
  <2>1. t \in Waiting /\ t \in Slots \ {s}
    BY <1>5 DEF Waiting
  <2>2. updates[t].done /\ updates'[t].pc = updates[t].pc
    BY <1>1, <2>1
  <2>3. row.onboarded /\ updates[t].pc # "create"
        /\ (updates[t].pc = "queued" => updates[t].user.onboarded)
    BY <2>1, <2>2 DEF Inv, DoneStays
  <2> QED
    BY <1>1, <1>3, <2>1, <2>2, <2>3
<1>10. TogglesFollow'
  <2>1. ~ raced => row.enabled = parity
    BY <1>2, NoUserAssumption DEF Inv, TogglesFollow, TogglesCounted
  <2>2. TogglesCounted'
    BY <2>1 DEF TogglesCounted
  <2>3. ASSUME NEW t \in Slots, updates'[t].pc = "toggle", ~ raced'
        PROVE  updates'[t].enabled = ~ parity'
    <3>1. t = s
      BY <1>1, <1>4, <2>3
    <3>2. u.pc = "toggle" /\ updates'[t] = u
      BY <1>1, <2>3, <3>1
    <3>3. u.enabled = ~ row.enabled /\ row.enabled = parity
      BY <2>1, <2>3, <3>2
    <3> QED
      BY <3>2, <3>3
  <2> QED
    BY <1>3, <2>2, <2>3 DEF TogglesFollow
<1>11. LeavesWindow'
  BY <1>1, <1>4 DEF LeavesWindow
<1>12. ShownIsCurrent'
  <2> SUFFICES ASSUME NEW t \in Waiting' PROVE IsCurrent(updates[t].input)'
    BY DEF ShownIsCurrent
  <2>1. updates'[t].input.shown = Nothing
    BY <1>1, <1>5 DEF Waiting
  <2> QED
    BY <2>1 DEF IsCurrent
<1> QED
  BY <1>6, <1>7, <1>8, <1>9, <1>10, <1>11, <1>12 DEF Inv

\* What such a step commits: the action properties hold of it if they hold of s.
LEMMA ServedAsTold ==
  ASSUME Inv, NEW s \in Slots, NEW id, Turn(s, id), NEW u \in Updates, Serve(s, u),
         row' \in Rows, row.onboarded => row'.onboarded,
         u.pc = "show" /\ updates[s].done => u.to.window # "welcome",
         updates[s].input.shown # Nothing /\ u.pc = "show" =>
           /\ id = "minute_select" =>
                row'.time = <<updates[s].input.shown, updates[s].input.value>>
           /\ id = "tz_confirm" => row'.zone = updates[s].input.shown
  PROVE  Once /\ AsShown
<1>1. updates'[s] = u /\ \A t \in Slots \ {s} : updates'[t].pc = updates[t].pc
  BY ServeShape DEF Inv
<1>2. updates[s].input.id = id
  BY DEF Turn
<1>3. Once
  BY <1>1, NoUserAssumption DEF Once
<1>4. AsShown
  <2> SUFFICES ASSUME NEW t \in Slots, updates[t].pc = "queued", updates'[t].pc = "show",
                      updates[t].input.shown # Nothing
               PROVE  /\ updates[t].input.id = "minute_select" =>
                           row'.time = <<updates[t].input.shown, updates[t].input.value>>
                      /\ updates[t].input.id = "tz_confirm" => row'.zone = updates[t].input.shown
    BY DEF AsShown
  <2>1. t = s
    BY <1>1
  <2> QED
    BY <1>1, <1>2, <2>1
<1> QED
  BY <1>3, <1>4

\* A handler that only leads to another window.
LEMMA LedOn ==
  ASSUME Inv, NEW s \in Slots, NEW id, Turn(s, id), id \notin {"minute_select", "tz_confirm"},
         NEW d \in Shows, NEW started \in BOOLEAN, Serve(s, Showing(d, started)),
         d.window \in Committing => dialog.window # d.window,
         updates[s].done => d.window # "welcome",
         row' \in Rows, row'.enabled = row.enabled, row.onboarded => row'.onboarded,
         UNCHANGED <<dialog, elsewhere, parity, raced>>
  PROVE  Inv' /\ Once /\ AsShown
<1> DEFINE u == Showing(d, started)
<1>1. u \in Updates /\ u.pc = "show" /\ u.to = d
  BY DEF Showing, Updates, Passed
<1>2. Inv'
  BY <1>1, Served
<1>3. Once /\ AsShown
  BY <1>1, ServedAsTold
<1> QED
  BY <1>2, <1>3

\* There is a row when an update has its turn.
LEMMA RowAtTurn ==
  ASSUME Inv, NEW s \in Slots, NEW id, Turn(s, id)
  PROVE  /\ row \in Rows /\ updates[s].input \in Inputs /\ updates[s].input.id = id
         /\ s \in Waiting /\ updates[s].user \in [onboarded : BOOLEAN, enabled : BOOLEAN]
<1>1. updates[s] \in Updates /\ updates[s].pc = "queued"
  BY DEF Inv, Typed, Turn
<1>2. row \in Rows
  BY <1>1 DEF Inv, Typed, Registered
<1> QED
  BY <1>1, <1>2, Shapes DEF Turn, Waiting

LEMMA CommandStep ==
  ASSUME Inv, NEW s \in Slots, Command(s)
  PROVE  Inv' /\ Once /\ AsShown
<1>1. Window("menu") \in Shows /\ Window("welcome") \in Shows
      /\ Window("menu").window = "menu" /\ Window("welcome").window = "welcome"
  BY Windows DEF Bare
<1>2. CASE Turn(s, "/menu") /\ Serve(s, Showing(Window("menu"), TRUE))
  BY <1>1, <1>2, LedOn, RowAtTurn DEF Command, Committing
<1>3. CASE Turn(s, "/start") /\ Serve(s, Showing(Window(StartWindow(updates[s].user)), TRUE))
  <2>1. updates[s].done => updates[s].user.onboarded
    BY <1>3, RowAtTurn DEF Inv, DoneStays, Turn
  <2>2. StartWindow(updates[s].user) \in {"menu", "welcome"}
        /\ (updates[s].done => StartWindow(updates[s].user) = "menu")
    BY <2>1 DEF StartWindow
  <2> QED
    BY <1>1, <1>3, <2>2, LedOn, RowAtTurn DEF Command, Committing
<1> QED
  BY <1>2, <1>3 DEF Command

LEMMA SwitchStep ==
  ASSUME Inv, NEW s \in Slots, Switch(s)
  PROVE  Inv' /\ Once /\ AsShown
<1>1. PICK x \in Switches \cup Starts :
        Turn(s, x[2]) /\ Serve(s, Showing(Window(x[3]), x \in Starts))
  BY DEF Switch
<1>2. x[2] \notin {"minute_select", "tz_confirm"}
  BY <1>1, Leads DEF Plainly
<1>3. /\ Window(x[3]) \in Shows /\ Window(x[3]).window \notin Committing
      /\ Window(x[3]).window # "welcome"
  BY <1>1, Leads, Windows DEF Bare, Committing
<1>4. (x \in Starts) \in BOOLEAN
  OBVIOUS
<1> QED
  BY <1>1, <1>2, <1>3, <1>4, LedOn, RowAtTurn DEF Switch

LEMMA EnterStep ==
  ASSUME Inv, NEW s \in Slots, Enter(s)
  PROVE  Inv' /\ Once /\ AsShown
<1>1. PICK x \in Entries :
        /\ x[1] = dialog.window /\ Turn(s, x[2])
        /\ Serve(s, Showing([window |-> x[3], value |-> updates[s].input.value], FALSE))
  BY DEF Enter
<1> DEFINE v == updates[s].input.value
           d == [window |-> x[3], value |-> v]
<1>2. /\ x[2] \notin {"minute_select", "tz_confirm"} /\ x[3] # x[1]
      /\ x[3] \in {"select_minute", "tz_search_results", "tz_confirm"}
      /\ x[3] = "select_minute" => x[2] = "hour_select"
      /\ x[3] = "tz_search_results" => x[2] = "text"
      /\ x[3] = "tz_confirm" => x[2] \in {"location", "tz_result_select"}
  BY <1>1 DEF Entries
<1>3. Fits(updates[s].input) /\ updates[s].input.id = x[2]
  BY <1>1, RowAtTurn DEF Inputs
<1>4. d \in Shows
  BY <1>2, <1>3, Windows DEF Fits
<1>5. d.window = x[3]
  OBVIOUS
<1> QED
  BY <1>1, <1>2, <1>4, <1>5, LedOn, RowAtTurn DEF Enter

LEMMA FinishStep ==
  ASSUME Inv, NEW s \in Slots, Finish(s)
  PROVE  Inv' /\ Once /\ AsShown
<1>1. Window("menu") \in Shows /\ Window("menu").window = "menu"
  BY Windows DEF Bare
<1>2. row \in Rows
  BY RowAtTurn DEF Finish
<1>3. row' \in Rows /\ row'.enabled = row.enabled /\ row'.onboarded
  BY <1>2 DEF Finish, Rows
<1> QED
  BY <1>1, <1>3, LedOn DEF Finish, Committing

\* What was on screen when a committing press was sent is in the dialog.
LEMMA SetTimeStep ==
  ASSUME Inv, NEW s \in Slots, SetTime(s)
  PROVE  Inv' /\ Once /\ AsShown
<1> DEFINE i == updates[s].input
           u == Showing(Window("main"), FALSE)
<1>1. Window("main") \in Shows /\ Window("main").window = "main"
  BY Windows DEF Bare
<1>2. u \in Updates /\ u.pc = "show" /\ u.to = Window("main")
  BY <1>1 DEF Showing, Updates, Passed
<1>3. row \in Rows /\ i \in Inputs /\ i.id = "minute_select" /\ s \in Waiting
  BY RowAtTurn DEF SetTime
<1>4. i.value \in Minutes /\ dialog.value \in Hours
  BY <1>3, Held DEF SetTime, Inputs, Fits, Inv, Typed
<1>5. row' = [row EXCEPT !.time = <<dialog.value, i.value>>]
  BY DEF SetTime, ChosenTime
<1>6. /\ row' \in Rows /\ row'.enabled = row.enabled /\ row'.onboarded = row.onboarded
      /\ row'.time = <<dialog.value, i.value>>
  BY <1>3, <1>4, <1>5 DEF Rows
<1>7. i.shown # Nothing => dialog.value = i.shown
  BY <1>3 DEF Inv, ShownIsCurrent, IsCurrent, Screen, SetTime
<1>8. Inv'
  BY <1>1, <1>2, <1>6, Served DEF SetTime, Committing
<1>9. Once /\ AsShown
  <2>1. i.shown # Nothing => row'.time = <<i.shown, i.value>>
    BY <1>6, <1>7
  <2> QED
    BY <1>1, <1>2, <1>3, <1>6, <2>1, ServedAsTold DEF SetTime
<1> QED
  BY <1>8, <1>9

LEMMA SetZoneStep ==
  ASSUME Inv, NEW s \in Slots, SetZone(s)
  PROVE  Inv' /\ Once /\ AsShown
<1> DEFINE i == updates[s].input
           u == Showing(Window("main"), FALSE)
<1>1. Window("main") \in Shows /\ Window("main").window = "main"
  BY Windows DEF Bare
<1>2. u \in Updates /\ u.pc = "show" /\ u.to = Window("main")
  BY <1>1 DEF Showing, Updates, Passed
<1>3. row \in Rows /\ i.id = "tz_confirm" /\ s \in Waiting
  BY RowAtTurn DEF SetZone
<1>4. dialog.value \in Zones
  BY Held DEF SetZone, Inv, Typed
<1>5. /\ row' \in Rows /\ row'.enabled = row.enabled /\ row'.onboarded = row.onboarded
      /\ row'.zone = dialog.value
  BY <1>3, <1>4 DEF Rows, SetZone
<1>6. i.shown # Nothing => dialog.value = i.shown
  BY <1>3 DEF Inv, ShownIsCurrent, IsCurrent, Screen, SetZone
<1>7. Inv'
  BY <1>1, <1>2, <1>5, Served DEF SetZone, Committing
<1>8. Once /\ AsShown
  BY <1>1, <1>2, <1>5, <1>6, ServedAsTold DEF SetZone
<1> QED
  BY <1>7, <1>8

LEMMA ToggleReadStep ==
  ASSUME Inv, NEW s \in Slots, ToggleRead(s)
  PROVE  Inv' /\ Once /\ AsShown
<1> DEFINE u == [pc |-> "toggle", enabled |-> ~ row.enabled]
<1>1. row \in Rows
  BY RowAtTurn DEF ToggleRead
<1>2. u \in Updates /\ u.pc = "toggle" /\ u.enabled = ~ row.enabled
  BY DEF Updates, Passed
<1>3. Serve(s, u) /\ Turn(s, "toggle") /\ row' = row
  BY DEF ToggleRead, Toggled
<1>4. Inv'
  BY <1>1, <1>2, <1>3, Served DEF ToggleRead
<1>5. Once /\ AsShown
  BY <1>1, <1>2, <1>3, ServedAsTold
<1> QED
  BY <1>4, <1>5

LEMMA IgnoreStep ==
  ASSUME Inv, NEW s \in Slots, Ignore(s)
  PROVE  Inv' /\ Once /\ AsShown
<1> DEFINE id == updates[s].input.id
<1>1. row \in Rows
  BY RowAtTurn DEF Ignore
<1>2. NoUpdate \in Updates /\ NoUpdate.pc = "none"
  BY DEF Updates, Passed, NoUpdate
<1>3. Serve(s, NoUpdate) /\ Turn(s, id) /\ row' = row
  BY DEF Ignore
<1>4. Inv'
  BY <1>1, <1>2, <1>3, Served DEF Ignore
<1>5. Once /\ AsShown
  BY <1>1, <1>2, <1>3, ServedAsTold
<1> QED
  BY <1>4, <1>5

\* The steps of an update past its turn, and those before it, show nothing.
LEMMA QuietStep ==
  ASSUME \A t \in Slots : updates[t].pc = "queued" => updates'[t].pc # "show",
         row # NoUser => row' # NoUser /\ (row.onboarded => row'.onboarded)
  PROVE  Once /\ AsShown
BY DEF Once, AsShown

LEMMA ToggleWriteStep ==
  ASSUME Inv, NEW s \in Slots, ToggleWrite(s)
  PROVE  Inv' /\ Once /\ AsShown
<1> DEFINE u == Showing(Window("main"), FALSE)
<1>1. u \in Updates /\ u.pc = "show" /\ u.to.window = "main"
  BY Windows DEF Bare, Showing, Updates, Passed
<1>2. updates' = [updates EXCEPT ![s] = u] /\ updates \in [Slots -> Updates]
  BY DEF ToggleWrite, Inv, Typed
<1>3. updates'[s] = u /\ \A t \in Slots \ {s} : updates'[t] = updates[t]
  BY <1>2
<1>4. row \in Rows /\ updates[s].enabled \in BOOLEAN
  BY Shapes DEF ToggleWrite, Inv, Typed, Registered
<1>5. /\ row' \in Rows /\ row'.enabled = updates[s].enabled
      /\ row'.onboarded = row.onboarded /\ row' # NoUser
  BY <1>4, NoUserAssumption DEF ToggleWrite, Rows
<1>6. \A t \in Slots \ {s} : updates[t].pc \notin {"toggle", "show"}
  BY DEF Inv, OneHandled, Handling, ToggleWrite
<1>7. Waiting' = Waiting
  BY <1>1, <1>3 DEF Waiting, ToggleWrite
<1>8. \A t \in Waiting : updates'[t] = updates[t]
  BY <1>3 DEF Waiting, ToggleWrite
<1>9. Typed'
  BY <1>1, <1>2, <1>5 DEF Typed, Inv, ToggleWrite
<1>10. OneHandled' /\ Registered'
  BY <1>3, <1>5, <1>6 DEF OneHandled, Handling, Registered
<1>11. DoneStays'
  BY <1>5, <1>7, <1>8 DEF DoneStays, Inv
<1>12. TogglesFollow'
  <2>1. ~ raced => updates[s].enabled = ~ parity
    BY DEF Inv, TogglesFollow, ToggleWrite
  <2>2. parity' = ~ parity /\ raced' = raced
    BY DEF ToggleWrite
  <2>3. TogglesCounted'
    BY <1>5, <2>1, <2>2 DEF TogglesCounted
  <2>4. \A t \in Slots : updates'[t].pc # "toggle"
    BY <1>1, <1>3, <1>6
  <2> QED
    BY <1>5, <2>3, <2>4 DEF TogglesFollow
<1>13. LeavesWindow'
  BY <1>1, <1>3, <1>6 DEF LeavesWindow, Committing
<1>14. ShownIsCurrent'
  <2> SUFFICES ASSUME NEW t \in Waiting PROVE IsCurrent(updates[t].input)'
    BY <1>7 DEF ShownIsCurrent
  <2>1. IsCurrent(updates[t].input) /\ updates'[t].input = updates[t].input
    BY <1>8 DEF Inv, ShownIsCurrent
  <2>2. \A r \in Slots : updates'[r].pc = "show" => updates'[r].to.window = "main"
    BY <1>1, <1>3, <1>6
  <2>3. Screen(updates[t].input.id) # "main"
    BY DEF Screen
  <2>4. dialog' = dialog
    BY DEF ToggleWrite
  <2> QED
    BY <2>1, <2>2, <2>3, <2>4 DEF IsCurrent
<1>15. Once /\ AsShown
  BY <1>3, <1>5, QuietStep DEF ToggleWrite
<1> QED
  BY <1>9, <1>10, <1>11, <1>12, <1>13, <1>14, <1>15 DEF Inv

\* An update that leaves the slot it had takes nothing from the others.
LEMMA Dropped ==
  ASSUME Inv, NEW s \in Slots, updates' = [updates EXCEPT ![s] = NoUpdate],
         UNCHANGED <<row, dialog, elsewhere, parity, raced>>
  PROVE  Inv' /\ Once /\ AsShown
<1>1. NoUpdate \in Updates /\ NoUpdate.pc = "none"
  BY DEF Updates, Passed, NoUpdate
<1>2. /\ updates' \in [Slots -> Updates] /\ updates'[s] = NoUpdate
      /\ \A t \in Slots \ {s} : updates'[t] = updates[t]
  BY <1>1 DEF Inv, Typed
<1>3. Waiting' = Waiting \ {s}
  BY <1>1, <1>2 DEF Waiting
<1>4. \A t \in Waiting' : updates'[t] = updates[t] /\ t \in Waiting
  BY <1>2, <1>3 DEF Waiting
<1>5. Typed'
  BY <1>2 DEF Inv, Typed
<1>6. OneHandled' /\ Registered'
  BY <1>1, <1>2 DEF Inv, OneHandled, Handling, Registered
<1>7. DoneStays'
  BY <1>4 DEF Inv, DoneStays
<1>8. TogglesFollow'
  BY <1>1, <1>2 DEF Inv, TogglesFollow, TogglesCounted
<1>9. LeavesWindow'
  BY <1>1, <1>2 DEF Inv, LeavesWindow
<1>10. ShownIsCurrent'
  <2> SUFFICES ASSUME NEW t \in Waiting' PROVE IsCurrent(updates[t].input)'
    BY DEF ShownIsCurrent
  <2>1. IsCurrent(updates[t].input) /\ updates'[t].input = updates[t].input
    BY <1>4 DEF Inv, ShownIsCurrent
  <2>2. \A r \in Slots : updates'[r].pc = "show" => updates'[r] = updates[r]
    BY <1>1, <1>2
  <2> QED
    BY <2>1, <2>2 DEF IsCurrent
<1>11. Once /\ AsShown
  BY <1>1, <1>2, QuietStep
<1> QED
  BY <1>5, <1>6, <1>7, <1>8, <1>9, <1>10, <1>11 DEF Inv

\* An update before its turn goes on, with the input it had.
LEMMA GoesOn ==
  ASSUME Inv, NEW s \in Waiting, NEW u \in Updates, updates' = [updates EXCEPT ![s] = u],
         u.pc \in {"create", "queued"}, u.input = updates[s].input, u.done = updates[s].done,
         u.done => u.pc # "create", u.pc = "queued" /\ u.done => u.user.onboarded,
         u.pc = "queued" => row' # NoUser,
         row' \in Rows \cup {NoUser},
         row # NoUser => row' = row,
         row = NoUser /\ row' # NoUser => row'.enabled,
         UNCHANGED <<dialog, elsewhere, parity, raced>>
  PROVE  Inv' /\ Once /\ AsShown
<1>1. s \in Slots /\ updates[s].pc \in {"get", "create", "queued"}
  BY DEF Waiting
<1>2. /\ updates' \in [Slots -> Updates] /\ updates'[s] = u
      /\ \A t \in Slots \ {s} : updates'[t] = updates[t]
  BY <1>1 DEF Inv, Typed
<1>3. Waiting' = Waiting
  BY <1>1, <1>2 DEF Waiting
<1>4. Typed'
  BY <1>2 DEF Inv, Typed
<1>5. OneHandled' /\ Registered'
  BY <1>1, <1>2 DEF Inv, OneHandled, Handling, Registered
<1>6. DoneStays'
  BY <1>1, <1>2, <1>3 DEF Inv, DoneStays, Waiting
<1>7. TogglesFollow'
  <2>1. TogglesCounted'
    BY DEF Inv, TogglesFollow, TogglesCounted, Typed
  <2>2. row' = NoUser => parity'
    BY DEF Inv, TogglesFollow
  <2>3. \A t \in Slots : updates'[t].pc = "toggle" => updates'[t] = updates[t]
    BY <1>2
  <2> QED
    BY <2>1, <2>2, <2>3 DEF Inv, TogglesFollow
<1>8. LeavesWindow'
  BY <1>2 DEF Inv, LeavesWindow
<1>9. ShownIsCurrent'
  <2> SUFFICES ASSUME NEW t \in Waiting PROVE IsCurrent(updates[t].input)'
    BY <1>3 DEF ShownIsCurrent
  <2>1. IsCurrent(updates[t].input) /\ updates'[t].input = updates[t].input
    BY <1>2 DEF Inv, ShownIsCurrent, Waiting
  <2>2. \A r \in Slots : updates'[r].pc = "show" => updates'[r] = updates[r]
    BY <1>2
  <2> QED
    BY <2>1, <2>2 DEF IsCurrent
<1>10. Once /\ AsShown
  <2>1. \A t \in Slots : updates[t].pc = "queued" => updates'[t].pc # "show"
    BY <1>2
  <2> QED
    BY <2>1, QuietStep
<1> QED
  BY <1>4, <1>5, <1>6, <1>7, <1>8, <1>9, <1>10 DEF Inv

LEMMA FailStep ==
  ASSUME Inv, NEW s \in Slots, Fail(s)
  PROVE  Inv' /\ Once /\ AsShown
BY Dropped DEF Fail

\* The row that the update finds, or creates, goes with it.
LEMMA QueuedShape ==
  ASSUME NEW u \in Updates, u.pc \in {"get", "create"}, NEW user \in Rows
  PROVE  LET v == Queued(u, user)
         IN  /\ v \in Updates /\ v.pc = "queued" /\ v.input = u.input /\ v.done = u.done
             /\ v.user.onboarded = user.onboarded
<1>1. u.input \in Inputs /\ u.done \in BOOLEAN
  BY Shapes
<1>2. user.onboarded \in BOOLEAN /\ user.enabled \in BOOLEAN
  BY DEF Rows
<1>3. Queued(u, user) \in Queue
  BY <1>1, <1>2 DEF Queued, Queue
<1> QED
  BY <1>3 DEF Queued, Updates

LEMMA GetUserStep ==
  ASSUME Inv, NEW s \in Slots, GetUser(s)
  PROVE  Inv' /\ Once /\ AsShown
<1> DEFINE u == updates[s]
<1>1. u \in Updates /\ u.pc = "get" /\ s \in Waiting /\ updates \in [Slots -> Updates]
  BY DEF Inv, Typed, GetUser, Waiting
<1>2. CASE row = NoUser
  <2> DEFINE v == [u EXCEPT !.pc = "create"]
  <2>1. updates' = [updates EXCEPT ![s] = v]
    BY <1>1, <1>2 DEF GetUser
  <2>2. u \in Fresh
    BY <1>1, Shapes
  <2>3. v \in Fresh /\ v.pc = "create" /\ v.input = u.input /\ v.done = u.done
    BY <2>2 DEF Fresh
  <2>4. v \in Updates
    BY <2>3 DEF Updates
  <2>5. ~ u.done
    BY <1>1, <1>2 DEF Inv, DoneStays
  <2> QED
    BY <1>1, <1>2, <2>1, <2>3, <2>4, <2>5, GoesOn DEF GetUser
<1>3. CASE row # NoUser
  <2> DEFINE v == Queued(u, row)
  <2>1. updates' = [updates EXCEPT ![s] = v]
    BY <1>1, <1>3 DEF GetUser
  <2>2. row \in Rows
    BY <1>3 DEF Inv, Typed
  <2>3. /\ v \in Updates /\ v.pc = "queued" /\ v.input = u.input /\ v.done = u.done
        /\ v.user.onboarded = row.onboarded
    BY <1>1, <2>2, QueuedShape
  <2>4. u.done => row.onboarded
    BY <1>1 DEF Inv, DoneStays
  <2> QED
    BY <1>1, <1>3, <2>1, <2>2, <2>3, <2>4, GoesOn DEF GetUser
<1> QED
  BY <1>2, <1>3

LEMMA CreateUserStep ==
  ASSUME Inv, NEW s \in Slots, CreateUser(s)
  PROVE  Inv' /\ Once /\ AsShown
<1> DEFINE u == updates[s]
           v == Queued(u, NewUser)
<1>1. u \in Updates /\ u.pc = "create" /\ s \in Waiting
  BY DEF Inv, Typed, CreateUser, Waiting
<1>2. NewUser \in Rows /\ NewUser.enabled
  BY DefaultsAssumption DEF NewUser, Rows
<1>3. CASE row # NoUser
  BY <1>3, Dropped DEF CreateUser, Created
<1>4. CASE row = NoUser
  <2>1. updates' = [updates EXCEPT ![s] = v] /\ row' = NewUser
    BY <1>4 DEF CreateUser, Created, Inv, Typed
  <2>2. v \in Updates /\ v.pc = "queued" /\ v.input = u.input /\ v.done = u.done
    BY <1>1, <1>2, QueuedShape
  <2>3. ~ u.done
    BY <1>1, <1>4 DEF Inv, DoneStays
  <2> QED
    BY <1>1, <1>2, <1>4, <2>1, <2>2, <2>3, GoesOn, NoUserAssumption DEF CreateUser
<1> QED
  BY <1>3, <1>4

LEMMA SendStep ==
  ASSUME Inv, NEW s \in Slots, NEW input \in Offered, Send(s, input)
  PROVE  Inv' /\ Once /\ AsShown
<1> DEFINE i == IF Waiting = {} THEN input ELSE Unseen(input)
           done == input.id = "/start" /\ row # NoUser /\ row.onboarded
           u == [pc |-> "get", input |-> i, done |-> done]
<1>1. input \in Inputs
  BY OfferedInputs DEF Inv, Typed
<1>2. i \in Inputs
  BY <1>1, UnseenInput
<1>3. done => row # NoUser /\ row.onboarded
  OBVIOUS
<1>4. done \in BOOLEAN
  BY DEF Inv, Typed, Rows
<1>5. u \in Updates /\ u.pc = "get" /\ u.input = i /\ u.done = done
  BY <1>2, <1>4 DEF Updates, Fresh
<1>6. /\ updates' = [updates EXCEPT ![s] = u] /\ updates[s] = NoUpdate
      /\ UNCHANGED <<row, dialog, elsewhere, parity, raced>>
  BY DEF Send
<1> HIDE DEF u, done, i
<1>7. /\ updates' \in [Slots -> Updates] /\ updates'[s] = u
      /\ \A t \in Slots \ {s} : updates'[t] = updates[t]
  BY <1>5, <1>6 DEF Inv, Typed
<1>8. Waiting' = Waiting \cup {s} /\ s \notin Waiting
  BY <1>5, <1>6, <1>7 DEF Waiting, NoUpdate
<1>9. Typed'
  BY <1>6, <1>7 DEF Inv, Typed
<1>10. OneHandled' /\ Registered'
  BY <1>5, <1>6, <1>7 DEF Inv, OneHandled, Handling, Registered
<1>11. DoneStays'
  BY <1>3, <1>5, <1>6, <1>7, <1>8 DEF Inv, DoneStays, Waiting
<1>12. TogglesFollow'
  BY <1>5, <1>6, <1>7 DEF Inv, TogglesFollow, TogglesCounted
<1>13. LeavesWindow'
  BY <1>5, <1>6, <1>7 DEF Inv, LeavesWindow
<1>14. ShownIsCurrent'
  <2> SUFFICES ASSUME NEW t \in Waiting' PROVE IsCurrent(updates[t].input)'
    BY DEF ShownIsCurrent
  <2>1. \A r \in Slots : updates'[r].pc = "show" => updates'[r] = updates[r]
    BY <1>5, <1>7
  <2>2. CASE t # s
    <3>1. t \in Waiting /\ updates'[t] = updates[t]
      BY <1>7, <1>8, <2>2 DEF Waiting
    <3> QED
      BY <1>6, <2>1, <3>1 DEF Inv, ShownIsCurrent, IsCurrent
  <2>3. CASE t = s
    <3>1. updates'[t].input = i
      BY <1>5, <1>7, <2>3
    <3>2. CASE Waiting # {}
      <4>1. i.shown = Nothing
        BY <1>1, <3>2, UnseenInput DEF i
      <4> QED
        BY <3>1, <4>1 DEF IsCurrent
    <3>3. CASE Waiting = {}
      <4>1. i = input
        BY <3>3 DEF i
      <4>2. i.shown # Nothing =>
              /\ i.id \in {"minute_select", "tz_confirm"}
              /\ dialog.window = Screen(i.id) /\ dialog.value = i.shown
        BY <4>1, OfferedInputs DEF Inv, Typed
      <4>3. Screen(i.id) \in Committing
        BY DEF Screen, Committing
      <4>4. \A r \in Slots : updates[r].pc = "show" /\ i.shown # Nothing =>
              updates[r].to.window # Screen(i.id)
        BY <4>2, <4>3 DEF Inv, LeavesWindow
      <4> QED
        BY <1>6, <2>1, <3>1, <4>2, <4>4 DEF IsCurrent
    <3> QED
      BY <3>2, <3>3
  <2> QED
    BY <2>2, <2>3
<1>15. Once /\ AsShown
  <2>1. \A t \in Slots : updates[t].pc = "queued" => updates'[t].pc # "show"
    BY <1>5, <1>7
  <2> QED
    BY <1>6, <2>1, QuietStep
<1> QED
  BY <1>9, <1>10, <1>11, <1>12, <1>13, <1>14, <1>15 DEF Inv

LEMMA ShowStep ==
  ASSUME Inv, NEW s \in Slots, Show(s)
  PROVE  Inv' /\ Once /\ AsShown
<1> DEFINE u == updates[s]
           Void(t) == u.started /\ t \in Waiting /\ updates[t].input.id \notin Commands \cup Messages
           Voided(t) == [updates[t] EXCEPT !.input = Plain("void")]
<1>1. /\ updates' = [t \in Slots |-> IF t = s THEN NoUpdate
                                     ELSE IF Void(t) THEN Voided(t)
                                     ELSE updates[t]]
      /\ u.pc = "show" /\ dialog' = u.to
      /\ UNCHANGED <<row, elsewhere, parity, raced>>
  BY DEF Show
<1>2. \A t \in Slots : updates[t] \in Updates
  BY DEF Inv, Typed
<1>3. u.to \in Shows
  BY <1>1, <1>2, Shapes
<1>4. NoUpdate \in Updates /\ NoUpdate.pc = "none"
  BY DEF Updates, Passed, NoUpdate
<1>5. Plain("void") \in Inputs /\ Plain("void").shown = Nothing
  BY PlainInputs DEF Plainly
<1>6. ASSUME NEW t \in Waiting
      PROVE  /\ Voided(t) \in Updates /\ Voided(t).pc = updates[t].pc
             /\ Voided(t).input = Plain("void") /\ Voided(t).done = updates[t].done
             /\ updates[t].pc = "queued" => Voided(t).user = updates[t].user
  BY <1>2, <1>5, OtherInput DEF Waiting
<1> HIDE DEF Voided
<1>7. /\ updates' \in [Slots -> Updates] /\ updates'[s] = NoUpdate
      /\ \A t \in Slots \ {s} : updates'[t] = updates[t] \/ (t \in Waiting /\ updates'[t] = Voided(t))
  BY <1>1, <1>2, <1>4, <1>6
<1> HIDE DEF Void
<1>8. \A t \in Slots \ {s} : updates'[t].pc = updates[t].pc
  BY <1>6, <1>7
<1>9. \A t \in Slots \ {s} : updates[t].pc \notin {"toggle", "show"}
  BY <1>1 DEF Inv, OneHandled, Handling
<1>10. Waiting' \subseteq Waiting \ {s}
  BY <1>4, <1>7, <1>8 DEF Waiting
<1>11. \A t \in Slots : updates'[t].pc \notin {"toggle", "show"}
  BY <1>4, <1>7, <1>8, <1>9
<1>12. Typed'
  BY <1>1, <1>3, <1>7 DEF Inv, Typed
<1>13. OneHandled' /\ Registered' /\ LeavesWindow'
  BY <1>1, <1>4, <1>7, <1>8, <1>11 DEF Inv, OneHandled, Handling, Registered, LeavesWindow
<1>14. DoneStays'
  <2> SUFFICES ASSUME NEW t \in Waiting', updates'[t].done
               PROVE  /\ row' # NoUser /\ row'.onboarded
                      /\ updates'[t].pc # "create"
                      /\ updates'[t].pc = "queued" => updates'[t].user.onboarded
    BY DEF DoneStays
  <2>1. t \in Waiting /\ t \in Slots \ {s}
    BY <1>10 DEF Waiting
  <2>2. /\ updates'[t].done = updates[t].done /\ updates'[t].pc = updates[t].pc
        /\ updates[t].pc = "queued" => updates'[t].user = updates[t].user
    BY <1>6, <1>7, <2>1
  <2> QED
    BY <1>1, <2>1, <2>2 DEF Inv, DoneStays
<1>15. TogglesFollow'
  BY <1>1, <1>11 DEF Inv, TogglesFollow, TogglesCounted
<1>16. ShownIsCurrent'
  <2> SUFFICES ASSUME NEW t \in Waiting', updates'[t].input.shown # Nothing
               PROVE  IsCurrent(updates[t].input)'
    BY DEF ShownIsCurrent, IsCurrent
  <2>1. t \in Waiting /\ t \in Slots \ {s}
    BY <1>10 DEF Waiting
  <2>2. updates'[t].input = updates[t].input
    BY <1>5, <1>6, <1>7, <2>1
  <2>3. /\ updates[t].input.id \in {"minute_select", "tz_confirm"}
        /\ dialog'.window # Screen(updates[t].input.id)
    BY <1>1, <2>1, <2>2 DEF Inv, ShownIsCurrent, IsCurrent
  <2> QED
    BY <1>11, <2>2, <2>3 DEF IsCurrent
<1>17. Once /\ AsShown
  <2>1. \A t \in Slots : updates[t].pc = "queued" => updates'[t].pc # "show"
    BY <1>11
  <2> QED
    BY <1>1, <2>1, QuietStep
<1> QED
  BY <1>12, <1>13, <1>14, <1>15, <1>16, <1>17 DEF Inv

LEMMA ElsewhereStep ==
  ASSUME Inv, Elsewhere
  PROVE  Inv' /\ Once /\ AsShown
<1>1. row \in Rows /\ dialog' = dialog /\ updates' = updates
  BY DEF Elsewhere, Inv, Typed
<1>2. elsewhere' \in 0..MaxElsewhere
  BY MaxElsewhereAssumption DEF Elsewhere, Inv, Typed
<1>3. /\ row' \in Rows
      /\ row.onboarded => row'.onboarded
      /\ \/ row'.enabled = row.enabled /\ UNCHANGED <<parity, raced>>
         \/ /\ row'.enabled = ~ row.enabled /\ parity' = ~ parity
            /\ raced' = (raced \/ \E s \in Slots : updates[s].pc = "toggle")
  <2>1. row.onboarded \in BOOLEAN /\ row.enabled \in BOOLEAN
    BY <1>1 DEF Rows
  <2>2. CASE /\ row' = [row EXCEPT !.enabled = ~ @] /\ parity' = ~ parity
             /\ raced' = (raced \/ \E s \in Slots : updates[s].pc = "toggle")
    <3>1. row' \in Rows /\ row'.enabled = ~ row.enabled /\ row'.onboarded = row.onboarded
      BY <1>1, <2>1, <2>2 DEF Rows
    <3> QED
      BY <2>2, <3>1
  <2>3. CASE row' = [row EXCEPT !.onboarded = TRUE] /\ UNCHANGED <<parity, raced>>
    BY <1>1, <2>3 DEF Rows
  <2>4. CASE /\ \E h \in Hours, m \in Minutes : row' = [row EXCEPT !.time = <<h, m>>]
             /\ UNCHANGED <<parity, raced>>
    BY <1>1, <2>4 DEF Rows
  <2>5. CASE (\E z \in Zones : row' = [row EXCEPT !.zone = z]) /\ UNCHANGED <<parity, raced>>
    BY <1>1, <2>5 DEF Rows
  <2> QED
    BY <2>2, <2>3, <2>4, <2>5 DEF Elsewhere
<1>4. row' # NoUser /\ row # NoUser
  BY <1>1, <1>3, NoUserAssumption
<1>5. parity' \in BOOLEAN /\ raced' \in BOOLEAN
  BY <1>3 DEF Inv, Typed
<1>6. Typed'
  BY <1>1, <1>2, <1>3, <1>5 DEF Inv, Typed
<1>7. OneHandled' /\ Registered' /\ LeavesWindow' /\ ShownIsCurrent'
  BY <1>1, <1>4 DEF Inv, OneHandled, Handling, Registered, LeavesWindow, ShownIsCurrent, Waiting,
     IsCurrent
<1>8. DoneStays'
  BY <1>1, <1>3, <1>4 DEF Inv, DoneStays, Waiting
<1>9. TogglesFollow'
  <2>1. ~ raced => row.enabled = parity
    BY <1>4 DEF Inv, TogglesFollow, TogglesCounted
  <2>2. CASE row'.enabled = row.enabled /\ UNCHANGED <<parity, raced>>
    BY <1>1, <1>4, <2>1, <2>2 DEF Inv, TogglesFollow, TogglesCounted
  <2>3. CASE /\ row'.enabled = ~ row.enabled /\ parity' = ~ parity
             /\ raced' = (raced \/ \E s \in Slots : updates[s].pc = "toggle")
    BY <1>1, <1>4, <2>1, <2>3 DEF TogglesFollow, TogglesCounted
  <2> QED
    BY <1>3, <2>2, <2>3
<1>10. Once /\ AsShown
  BY <1>1, <1>3, <1>4, QuietStep
<1> QED
  BY <1>6, <1>7, <1>8, <1>9, <1>10 DEF Inv

LEMMA Begins == ASSUME Init PROVE Inv
<1>1. \A s \in Slots : updates[s] = NoUpdate /\ updates[s].pc = "none"
  BY DEF Init, NoUpdate
<1>2. Waiting = {} /\ Handling = {}
  BY <1>1 DEF Waiting, Handling
<1>3. NoUpdate \in Updates
  BY DEF Updates, Passed
<1>4. dialog \in Shows
  BY Windows DEF Init, Bare
<1>5. parity = TRUE /\ raced = FALSE
  BY DEF Init, NewUser
<1>6. Typed
  <2>1. updates \in [Slots -> Updates]
    BY <1>3 DEF Init
  <2>2. elsewhere \in 0..MaxElsewhere
    BY MaxElsewhereAssumption DEF Init
  <2> QED
    BY <1>4, <1>5, <2>1, <2>2 DEF Init, Typed
<1>7. OneHandled /\ Registered /\ DoneStays /\ LeavesWindow /\ ShownIsCurrent
  BY <1>1, <1>2 DEF OneHandled, Registered, DoneStays, LeavesWindow, ShownIsCurrent
<1>8. TogglesFollow
  BY <1>1, <1>5 DEF Init, TogglesFollow, TogglesCounted
<1> QED
  BY <1>6, <1>7, <1>8 DEF Inv

\* Every step, and every stutter, keeps the invariant and the action properties.
LEMMA Steps ==
  ASSUME Inv, [Next]_vars
  PROVE  Inv' /\ (UNCHANGED vars \/ (Once /\ AsShown))
<1>1. CASE UNCHANGED vars
  BY <1>1 DEF vars, Inv, Typed, OneHandled, Handling, Registered, DoneStays, TogglesFollow,
     TogglesCounted, LeavesWindow, ShownIsCurrent, Waiting, IsCurrent
<1>2. ASSUME NEW s \in Slots, NEW input \in Offered, Send(s, input)
      PROVE  Inv' /\ Once /\ AsShown
  BY <1>2, SendStep
<1>3. ASSUME NEW s \in Slots,
             \/ GetUser(s) \/ CreateUser(s) \/ Command(s) \/ Switch(s) \/ Enter(s) \/ Finish(s)
             \/ SetTime(s) \/ SetZone(s) \/ ToggleRead(s) \/ ToggleWrite(s)
             \/ Ignore(s) \/ Show(s) \/ Fail(s)
      PROVE  Inv' /\ Once /\ AsShown
  BY <1>3, GetUserStep, CreateUserStep, CommandStep, SwitchStep, EnterStep, FinishStep,
     SetTimeStep, SetZoneStep, ToggleReadStep, ToggleWriteStep, IgnoreStep, ShowStep, FailStep
<1>4. CASE Elsewhere
  BY <1>4, ElsewhereStep
<1> QED
  BY <1>1, <1>2, <1>3, <1>4 DEF Next

-----------------------------------------------------------------------------
(* The theorems.                                                           *)

\* The inductive invariant: what is known of an update at each point of its
\* way, through registration, the queue and its handler.
THEOREM Invariance == Spec => []Inv
<1>1. Inv /\ [Next]_vars => Inv'
  BY Steps
<1> QED
  BY <1>1, Begins, PTL DEF Spec

\* Rows, dialogs and updates keep their types, at most one update is handled
\* at a time, and it has a user.
THEOREM TypeCorrect == Spec => []TypeOK
<1>1. ASSUME Inv PROVE TypeOK
  <2>1. \A s \in Slots : updates[s] \in Updates
    BY <1>1 DEF Inv, Typed
  <2>2. \A s \in Slots : updates[s].pc = "show" => IsDialog(updates[s].to)
    BY <2>1, Shapes DEF Shows
  <2>3. \A s \in Slots :
          updates[s].pc = "queued" => updates[s].user \in [onboarded : BOOLEAN, enabled : BOOLEAN]
    BY <2>1, Shapes
  <2>4. \A s \in Handling : row # NoUser
    BY <1>1 DEF Inv, Registered, Handling
  <2>5. IsDialog(dialog)
    BY <1>1 DEF Inv, Typed, Shows
  <2> QED
    BY <1>1, <2>2, <2>3, <2>4, <2>5 DEF Inv, Typed, OneHandled, TypeOK
<1> QED
  BY <1>1, Invariance, PTL

\* Every toggle that overlaps no other counts, however presses queue up.
THEOREM TogglesAreCounted == Spec => []TogglesCounted
<1>1. Inv => TogglesCounted
  BY DEF Inv, TogglesFollow
<1> QED
  BY <1>1, Invariance, PTL

\* No interleaving takes a row or a completed onboarding back, and a /start
\* sent after completion never leads into onboarding.
THEOREM OnboardingIsOnce == Spec => OnboardingOnce
<1>1. Inv /\ [Next]_vars => [Once]_vars
  BY Steps
<1>2. Spec => [][Once]_vars
  BY <1>1, Invariance, PTL DEF Spec
<1> QED
  BY <1>2 DEF OnboardingOnce, Once

\* What a press commits is what its sender had on screen.
THEOREM ChoicesAreAsShown == Spec => ChoiceAsShown
<1>1. Inv /\ [Next]_vars => [AsShown]_vars
  BY Steps
<1>2. Spec => [][AsShown]_vars
  BY <1>1, Invariance, PTL DEF Spec
<1> QED
  BY <1>2 DEF ChoiceAsShown, AsShown
=============================================================================
