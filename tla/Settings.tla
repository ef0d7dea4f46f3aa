------------------------------ MODULE Settings ------------------------------
(***************************************************************************)
(* A user's account: registration by the middleware, the /start and /menu  *)
(* commands, onboarding and the settings dialog, in one chat.              *)
(*                                                                         *)
(* aiogram handles every update in a task of its own.  The middleware      *)
(* reads (or creates) the user first; only then does the update wait for   *)
(* the chat, which handles one update at a time, in any order.  A handler  *)
(* thus works with a user read before the chat was its own, and with the   *)
(* dialog as it is by then, while the user pressed what an earlier message *)
(* showed.  A button acts if the present window has a widget of its id;    *)
(* one of a dialog that was started anew since, or left, is dropped.  The  *)
(* dialog is stored when the next message was sent.                        *)
(*                                                                         *)
(* Data that no window can reach is left out of the dialog: the hour is    *)
(* kept in select_minute, the search results in tz_search_results, the     *)
(* timezone in tz_confirm.  How a timezone is found and spelt is left out. *)
(***************************************************************************)
EXTENDS Integers

CONSTANTS
  Slots,          \* updates that may be in flight at once
  Hours, Minutes, \* the times offered
  Zones,          \* timezones
  DefaultTime, DefaultZone,   \* the defaults of the users table
  NoUser,         \* no row
  Nothing,        \* no value
  MaxElsewhere    \* bound: changes made in the user's other chats

ASSUME DefaultsAssumption == DefaultTime \in Hours \X Minutes /\ DefaultZone \in Zones
ASSUME NothingAssumption == Nothing \notin Hours \cup Minutes \cup Zones
ASSUME MaxElsewhereAssumption == MaxElsewhere \in Nat

VARIABLES
  row,        \* the users row
  dialog,     \* the stored window and the data it shows
  updates,    \* the updates in flight
  elsewhere,  \* changes made in other chats so far
  parity,     \* history: what the toggles committed so far make of the default
  raced       \* history: two toggles overlapped

vars == <<row, dialog, updates, elsewhere, parity, raced>>

Rows == [onboarded : BOOLEAN, enabled : BOOLEAN, time : Hours \X Minutes, zone : Zones]
ASSUME NoUserAssumption == NoUser \notin Rows

NewUser == [onboarded |-> FALSE, enabled |-> TRUE, time |-> DefaultTime, zone |-> DefaultZone]

Window(w) == [window |-> w, value |-> Nothing]
IsDialog(d) ==
  CASE d.window = "select_minute"     -> d.value \in Hours
    [] d.window = "tz_search_results" -> d.value # {} /\ d.value \subseteq Zones
    [] d.window = "tz_confirm"        -> d.value \in Zones
    [] OTHER -> d = Window(d.window) /\ d.window \in {"none", "welcome", "how_it_works", "ready",
                  "menu", "main", "select_hour", "select_timezone", "tz_search_input"}

\* The buttons that only lead to another window.  Several share an id.
Switches ==
  {<<"welcome", "to_how", "how_it_works">>, <<"how_it_works", "to_ready", "ready">>,
   <<"main", "change_hour", "select_hour">>, <<"main", "change_tz", "select_timezone">>,
   <<"select_hour", "back", "main">>, <<"select_minute", "back_hour", "select_hour">>,
   <<"select_timezone", "tz_search", "tz_search_input">>, <<"select_timezone", "back", "main">>,
   <<"tz_search_input", "back", "select_timezone">>, <<"tz_confirm", "back", "select_timezone">>,
   <<"tz_search_results", "search_again", "tz_search_input">>,
   <<"tz_search_results", "back", "select_timezone">>}

\* The buttons that start a dialog, and the window they start it in.
Starts == {<<"menu", "settings", "main">>, <<"main", "menu", "menu">>}

Commands == {"/start", "/menu"}
Messages == {"location", "text"}

\* A press, a command or a message, with its value and, for the buttons that
\* commit a choice, the hour or timezone on screen ("shown", history).
Input(id, value, shown) == [id |-> id, value |-> value, shown |-> shown]
Plain(id) == Input(id, Nothing, Nothing)

Offered ==
  LET w == dialog.window
  IN  {Plain(c) : c \in Commands}
      \cup {Plain(t[2]) : t \in {x \in Switches \cup Starts : x[1] = w}}
      \cup CASE w = "ready" -> {Plain("finish")}
             [] w = "main" -> {Plain("toggle")}
             [] w = "select_hour" -> {Input("hour_select", h, Nothing) : h \in Hours}
             [] w = "select_minute" -> {Input("minute_select", m, dialog.value) : m \in Minutes}
             [] w = "select_timezone" -> {Input("location", z, Nothing) : z \in Zones}
             [] w = "tz_search_input" ->
                  {Input("text", found, Nothing) : found \in (SUBSET Zones) \ {{}}}
             [] w = "tz_search_results" ->
                  {Input("tz_result_select", z, Nothing) : z \in dialog.value}
             [] w = "tz_confirm" -> {Input("tz_confirm", Nothing, dialog.value)}
             [] OTHER -> {}

NoUpdate == [pc |-> "none"]

\* An update has, besides its input, "done", a /start sent when onboarding was
\* completed (history), and "user", what the handlers use of the row that the
\* middleware read.
Waiting == {s \in Slots : updates[s].pc \in {"get", "create", "queued"}}
Handling == {s \in Slots : updates[s].pc \in {"toggle", "show"}}

TypeOK ==
  /\ row \in Rows \cup {NoUser}
  /\ IsDialog(dialog)
  /\ \A s \in Slots :
       updates[s].pc = "queued" => updates[s].user \in [onboarded : BOOLEAN, enabled : BOOLEAN]
  /\ \A s \in Slots : updates[s].pc = "show" => IsDialog(updates[s].to)
  /\ \A s, t \in Handling : s = t
  /\ \A s \in Handling : row # NoUser
  /\ elsewhere \in 0..MaxElsewhere /\ parity \in BOOLEAN /\ raced \in BOOLEAN

Init ==
  /\ row = NoUser
  /\ dialog = Window("none")
  /\ updates = [s \in Slots |-> NoUpdate]
  /\ elsewhere = 0
  /\ parity = NewUser.enabled /\ raced = FALSE

-----------------------------------------------------------------------------
(* An update arrives.                                                      *)

\* Its sender may not have seen what is on screen when it is handled.
Unseen(input) == [input EXCEPT !.shown = Nothing]

Send(s, input) ==
  /\ updates[s] = NoUpdate
  /\ updates' = [updates EXCEPT ![s] =
       [pc |-> "get", input |-> IF Waiting = {} THEN input ELSE Unseen(input),
        done |-> input.id = "/start" /\ row # NoUser /\ row.onboarded]]
  /\ UNCHANGED <<row, dialog, elsewhere, parity, raced>>

Queued(u, user) ==
  [pc |-> "queued", input |-> u.input, done |-> u.done,
   user |-> [onboarded |-> user.onboarded, enabled |-> user.enabled]]

\* UserMiddleware: get_or_create_user.
GetUser(s) ==
  /\ updates[s].pc = "get"
  /\ updates' = [updates EXCEPT ![s] =
       IF row = NoUser THEN [@ EXCEPT !.pc = "create"] ELSE Queued(@, row)]
  /\ UNCHANGED <<row, dialog, elsewhere, parity, raced>>

\* Faulty form of Created: the row is written whether it is there or not.
CreatedAnyway == NewUser

Created == IF row = NoUser THEN NewUser ELSE row

\* The second of two first updates violates the primary key and is lost.
CreateUser(s) ==
  /\ updates[s].pc = "create"
  /\ row' = Created
  /\ updates' = [updates EXCEPT ![s] = IF row = NoUser THEN Queued(@, NewUser) ELSE NoUpdate]
  /\ UNCHANGED <<dialog, elsewhere, parity, raced>>

-----------------------------------------------------------------------------
(* The chat handles one update at a time.                                  *)

Turn(s, id) == Handling = {} /\ updates[s].pc = "queued" /\ updates[s].input.id = id

\* Update s becomes u.  Those that wait may have been overtaken.
Serve(s, u) ==
  updates' = [t \in Slots |->
    IF t = s THEN u
    ELSE IF t \in Waiting THEN [updates[t] EXCEPT !.input = Unseen(@)]
    ELSE updates[t]]

Showing(to, started) == [pc |-> "show", to |-> to, started |-> started]

StartWindow(user) == IF user.onboarded THEN "menu" ELSE "welcome"

\* cmd_start and cmd_menu; the latter does not ask for onboarding.
Command(s) ==
  /\ \/ Turn(s, "/start") /\ Serve(s, Showing(Window(StartWindow(updates[s].user)), TRUE))
     \/ Turn(s, "/menu") /\ Serve(s, Showing(Window("menu"), TRUE))
  /\ UNCHANGED <<row, dialog, elsewhere, parity, raced>>

\* SwitchTo buttons, on_settings and on_back_to_menu.
Switch(s) ==
  /\ \E x \in Switches \cup Starts :
       /\ x[1] = dialog.window /\ Turn(s, x[2])
       /\ Serve(s, Showing(Window(x[3]), x \in Starts))
  /\ UNCHANGED <<row, dialog, elsewhere, parity, raced>>

\* Faulty form of Entries: a search is taken for a choice.
EntriesUnchosen ==
  {<<"select_hour", "hour_select", "select_minute">>,
   <<"select_timezone", "location", "tz_confirm">>,
   <<"tz_search_input", "text", "tz_confirm">>,
   <<"tz_search_results", "tz_result_select", "tz_confirm">>}

\* on_hour_selected, on_location_received, on_tz_search, on_tz_result_selected:
\* the value goes into the dialog's data.
Entries ==
  {<<"select_hour", "hour_select", "select_minute">>,
   <<"select_timezone", "location", "tz_confirm">>,
   <<"tz_search_input", "text", "tz_search_results">>,
   <<"tz_search_results", "tz_result_select", "tz_confirm">>}
Enter(s) ==
  /\ \E x \in Entries :
       /\ x[1] = dialog.window /\ Turn(s, x[2])
       /\ Serve(s, Showing([window |-> x[3], value |-> updates[s].input.value], FALSE))
  /\ UNCHANGED <<row, dialog, elsewhere, parity, raced>>

\* on_finish_onboarding: complete_onboarding.
Finish(s) ==
  /\ dialog.window = "ready" /\ Turn(s, "finish")
  /\ row' = [row EXCEPT !.onboarded = TRUE]
  /\ Serve(s, Showing(Window("menu"), TRUE))
  /\ UNCHANGED <<dialog, elsewhere, parity, raced>>

\* Faulty form of ChosenTime: the hour the user had before.
ChosenTimeOld(u) == <<row.time[1], u.input.value>>

ChosenTime(u) == <<dialog.value, u.input.value>>

\* on_minute_selected: update_notification_time, with the hour in the dialog.
SetTime(s) ==
  /\ dialog.window = "select_minute" /\ Turn(s, "minute_select")
  /\ row' = [row EXCEPT !.time = ChosenTime(updates[s])]
  /\ Serve(s, Showing(Window("main"), FALSE))
  /\ UNCHANGED <<dialog, elsewhere, parity, raced>>

\* on_tz_confirmed: update_timezone.
SetZone(s) ==
  /\ dialog.window = "tz_confirm" /\ Turn(s, "tz_confirm")
  /\ row' = [row EXCEPT !.zone = dialog.value]
  /\ Serve(s, Showing(Window("main"), FALSE))
  /\ UNCHANGED <<dialog, elsewhere, parity, raced>>

\* Faulty form of Toggled: the middleware's user is negated.
ToggledAsRead(u) == ~ u.user.enabled

Toggled(u) == ~ row.enabled

\* on_toggle: toggle_notifications reads the row, and writes it later.
ToggleRead(s) ==
  /\ dialog.window = "main" /\ Turn(s, "toggle")
  /\ Serve(s, [pc |-> "toggle", enabled |-> Toggled(updates[s])])
  /\ UNCHANGED <<row, dialog, elsewhere, parity, raced>>
ToggleWrite(s) ==
  /\ updates[s].pc = "toggle"
  /\ row' = [row EXCEPT !.enabled = updates[s].enabled]
  /\ parity' = ~ parity
  /\ updates' = [updates EXCEPT ![s] = Showing(Window("main"), FALSE)]
  /\ UNCHANGED <<dialog, elsewhere, raced>>

\* The present window has no such widget, or the press is of an older dialog.
Acts ==
  {x[2] : x \in {y \in Switches \cup Starts \cup Entries : y[1] = dialog.window}} \cup Commands
  \cup CASE dialog.window = "ready" -> {"finish"}
         [] dialog.window = "main" -> {"toggle"}
         [] dialog.window = "select_minute" -> {"minute_select"}
         [] dialog.window = "tz_confirm" -> {"tz_confirm"}
         [] OTHER -> {}
Ignore(s) ==
  /\ Turn(s, updates[s].input.id) /\ updates[s].input.id \notin Acts
  /\ Serve(s, NoUpdate)
  /\ UNCHANGED <<row, dialog, elsewhere, parity, raced>>

\* The message is sent and the dialog stored.  A dialog that was started makes
\* the presses of the one before it void.
Show(s) ==
  LET u == updates[s]
      Void(t) == u.started /\ t \in Waiting /\ updates[t].input.id \notin Commands \cup Messages
  IN  /\ u.pc = "show"
      /\ dialog' = u.to
      /\ updates' = [t \in Slots |-> IF t = s THEN NoUpdate
                                     ELSE IF Void(t)
                                          THEN [updates[t] EXCEPT !.input = Plain("void")]
                                     ELSE updates[t]]
      /\ UNCHANGED <<row, elsewhere, parity, raced>>

\* An error or a crash; what was committed stays, the dialog is as it was.
Fail(s) ==
  /\ updates[s] # NoUpdate
  /\ updates' = [updates EXCEPT ![s] = NoUpdate]
  /\ UNCHANGED <<row, dialog, elsewhere, parity, raced>>

\* The same user in another chat.
Elsewhere ==
  /\ row # NoUser /\ elsewhere < MaxElsewhere
  /\ elsewhere' = elsewhere + 1
  /\ \/ /\ row' = [row EXCEPT !.enabled = ~ @]
        /\ parity' = ~ parity
        /\ raced' = (raced \/ \E s \in Slots : updates[s].pc = "toggle")
     \/ /\ \/ row' = [row EXCEPT !.onboarded = TRUE]
           \/ \E h \in Hours, m \in Minutes : row' = [row EXCEPT !.time = <<h, m>>]
           \/ \E z \in Zones : row' = [row EXCEPT !.zone = z]
        /\ UNCHANGED <<parity, raced>>
  /\ UNCHANGED <<dialog, updates>>

Next ==
  \/ \E s \in Slots :
       \/ \E input \in Offered : Send(s, input)
       \/ GetUser(s) \/ CreateUser(s) \/ Command(s) \/ Switch(s) \/ Enter(s) \/ Finish(s)
       \/ SetTime(s) \/ SetZone(s) \/ ToggleRead(s) \/ ToggleWrite(s)
       \/ Ignore(s) \/ Show(s) \/ Fail(s)
  \/ Elsewhere

Spec == Init /\ [][Next]_vars

-----------------------------------------------------------------------------

\* Registration and onboarding happen once: no race of first updates and no
\* later /start takes a user's row, or its completed onboarding, back, and an
\* update sent after completion never leads into onboarding again.
OnboardingOnce ==
  [][/\ row # NoUser => row' # NoUser /\ (row.onboarded => row'.onboarded)
     /\ \A s \in Slots :
          updates[s].pc = "queued" /\ updates[s].done /\ updates'[s].pc = "show" =>
            updates'[s].to.window # "welcome"]_vars

\* What is committed is what the user chose on screen: the minute pressed with
\* the hour displayed above it, and the timezone displayed for confirmation, even
\* while the handler of an earlier update is still under way; unless the user had
\* others waiting then, or one sent later was handled before it.
ChoiceAsShown ==
  [][\A s \in Slots :
       LET input == updates[s].input
           committed == updates[s].pc = "queued" /\ updates'[s].pc = "show" /\ input.shown # Nothing
       IN  /\ committed /\ input.id = "minute_select" => row'.time = <<input.shown, input.value>>
           /\ committed /\ input.id = "tz_confirm" => row'.zone = input.shown]_vars

\* Every toggle committed counts, whatever user the middleware had read and
\* however presses queue up: only two that overlap in the database lose one.
TogglesCounted == row # NoUser /\ ~ raced => row.enabled = parity
=============================================================================
