---------------------------- MODULE ReviewSession ----------------------------
(***************************************************************************)
(* The review dialog (infra/tg/dialogs/review.py) of one user on one deck, *)
(* in one or several chats, over the tables it writes.  The dialog context *)
(* of a chat is stored only when its handler has finished and the next     *)
(* window has been sent; a rating writes the database in up to three       *)
(* transactions before that: the activity log, the card, the streak.  A    *)
(* failure or a crash in between keeps what was committed and forgets the  *)
(* context change.  Handlers of one chat are serialised (handler[c]), those *)
(* of different chats interleave.  The arithmetic of a review is in        *)
(* CardSchedule and that of the streak in Streak; here a card is due or    *)
(* not, and a day is counted or not.                                       *)
(***************************************************************************)
EXTENDS Naturals, Sequences, FiniteSets

CONSTANTS
  Chats,        \* the chats the user talks to the bot in
  Cards,        \* the cards of the deck
  Limit,        \* get_due_cards: cards loaded into a session (20)
  MaxFailures,  \* bound: failures and crashes
  MaxReviews,   \* bound: a card rated this often is not reset any more
  MaxDay        \* bound: the clock, in days

ASSUME ReviewAssumption ==
  /\ Limit \in Nat \ {0}
  /\ MaxFailures \in Nat /\ MaxReviews \in Nat /\ MaxDay \in Nat
  /\ IsFiniteSet(Cards) /\ IsFiniteSet(Chats)

VARIABLES
  live,       \* the cards that exist
  due,        \* the cards whose next review has come, or that are new
  logs,       \* per card: its REVIEW rows in activity_logs
  reviews,    \* per card: committed review_card transactions
  day,        \* the user's local date
  counted,    \* history: the dates update_streak has been called with
  dialog,     \* per chat: the stored dialog context
  handler,    \* per chat: the rating being handled
  rated,      \* history, per chat: the cards rated in this session, in order
  failures,   \* history: failures and crashes so far
  contested,  \* history: two chats held one card in their sessions at once
  early       \* history: the cards rated when they were not due

tables == <<live, due, logs, reviews, day, counted>>
history == <<rated, failures, contested, early>>
vars == <<live, due, logs, reviews, day, counted, dialog, handler,
          rated, failures, contested, early>>

Idle == [pc |-> "idle", card |-> "none", today |-> 0]

\* A context outside the review dialog: the menu, or the deck screen, with
\* (deck) or without (bare) its review button.
Outside(state) == [state |-> state, ids |-> <<>>, index |-> 0, reviewed |-> 0, finished |-> 0]

InSession(d) == d.state \in {"front", "back", "complete"}

\* What a session has still to rate.
Remaining(d) == {d.ids[i] : i \in (d.index + 1)..Len(d.ids)}

Contexts == [state : {"menu", "deck", "bare", "select", "front", "back", "complete"},
             ids : Seq(Cards), index : Nat, reviewed : Nat, finished : Nat]
Handlers == [pc : {"idle", "log", "review", "streak", "render"},
             card : Cards \cup {"none"}, today : Nat]

TypeOK ==
  /\ live \subseteq Cards /\ due \subseteq live
  /\ logs \in [Cards -> Nat] /\ reviews \in [Cards -> Nat]
  /\ day \in Nat /\ counted \subseteq 0..day
  /\ dialog \in [Chats -> Contexts] /\ handler \in [Chats -> Handlers]
  /\ \A c \in Chats : handler[c].today <= day
  /\ rated \in [Chats -> Seq(Cards)]
  /\ failures \in Nat /\ contested \in BOOLEAN /\ early \subseteq Cards

Init ==
  /\ live = Cards /\ due = Cards
  /\ logs = [k \in Cards |-> 0] /\ reviews = [k \in Cards |-> 0]
  /\ day = 0 /\ counted = {}
  /\ dialog = [c \in Chats |-> Outside("menu")]
  /\ handler = [c \in Chats |-> Idle]
  /\ rated = [c \in Chats |-> <<>>]
  /\ failures = 0 /\ contested = FALSE /\ early = {}

Free(c) == handler[c].pc = "idle"

-----------------------------------------------------------------------------
(* Opening a session.                                                      *)

Orderings(S, n) ==
  {s \in [1..n -> S] : \A i, j \in 1..n : i # j => s[i] # s[j]}

Fewer(m, n) == IF m < n THEN m ELSE n

\* Faulty form of DueLists: the filter on the due date is forgotten.
AnyLists == Orderings(live, Fewer(Cardinality(live), Limit))

\* get_due_cards: at most Limit due cards, in the order of their dates, which
\* are not modelled.
DueLists == Orderings(due, Fewer(Cardinality(due), Limit))

\* Faulty form of Loaded: the count starts at the card being shown.
LoadedCountsFromOne(ids, state) == [Outside(state) EXCEPT !.ids = ids, !.reviewed = 1]

\* _load_review_cards
Loaded(ids, state) == [Outside(state) EXCEPT !.ids = ids]

\* Another chat is in the middle of some of these cards.
HeldElsewhere(c, ids) ==
  \E d \in Chats \ {c} :
    InSession(dialog[d]) /\ Remaining(dialog[d]) \cap {ids[i] : i \in DOMAIN ids} # {}

StartSession(c, ids, state) ==
  /\ dialog' = [dialog EXCEPT ![c] = Loaded(ids, state)]
  /\ rated' = [rated EXCEPT ![c] = <<>>]
  /\ contested' = (contested \/ HeldElsewhere(c, ids))
  /\ UNCHANGED <<live, due, logs, reviews, day, counted, handler, failures, early>>

GoTo(c, state) ==
  /\ dialog' = [dialog EXCEPT ![c] = Outside(state)]
  /\ rated' = [rated EXCEPT ![c] = <<>>]
  /\ UNCHANGED <<live, due, logs, reviews, day, counted, handler, failures, contested, early>>

\* The menu button, or the /menu and /start commands, which reset the stack.
Leave(c) == Free(c) /\ dialog[c].state # "menu" /\ GoTo(c, "menu")

\* The review list shows the deck only if it has due cards (get_due_decks);
\* without them there is nothing to press but the menu.
OpenReview(c) == Free(c) /\ dialog[c].state = "menu" /\ due # {} /\ GoTo(c, "select")

\* The deck screen offers a review only if the deck had due cards when it was
\* opened; the offer is not taken back when they go.
OpenDeck(c) ==
  /\ Free(c)
  /\ dialog[c].state = "menu"
  /\ GoTo(c, IF due = {} THEN "bare" ELSE "deck")

InDeck(c) == dialog[c].state \in {"deck", "bare"}

\* on_review_deck_selected: the list of decks may be stale, in which case
\* there is nothing to load and the window stays.
SelectDeck(c) ==
  /\ Free(c)
  /\ dialog[c].state = "select"
  /\ \E ids \in DueLists :
       StartSession(c, ids, IF ids = <<>> THEN "select" ELSE "front")

\* on_start_review and the first rendering of show_front (front_getter), which
\* loads whatever is due by then, perhaps nothing.
StartFromDeck(c) ==
  /\ Free(c)
  /\ dialog[c].state = "deck"
  /\ \E ids \in DueLists : StartSession(c, ids, "front")

\* on_show_answer, whether or not there is a card to show.
ShowAnswer(c) ==
  /\ Free(c)
  /\ dialog[c].state = "front"
  /\ dialog' = [dialog EXCEPT ![c].state = "back"]
  /\ UNCHANGED <<tables, handler, history>>

-----------------------------------------------------------------------------
(* One rating: the handler that _make_rate_handler builds.                 *)

\* Faulty form of HasCard: an off-by-one that takes the last card for the end.
HasCardButLast(d) == d.index + 1 < Len(d.ids)

HasCard(d) == d.index < Len(d.ids)
Current(d) == d.ids[d.index + 1]
IsLast(d) == d.index + 1 >= Len(d.ids)

\* The streak is updated only after the last card.
AfterReview(d) == IF IsLast(d) THEN "streak" ELSE "render"

\* A rating button is pressed.  With no card left to rate (an empty session)
\* nothing is logged or reviewed and the handler goes straight to the end of
\* the session.
Rate(c) ==
  /\ Free(c)
  /\ dialog[c].state = "back"
  /\ handler' = [handler EXCEPT ![c] =
       IF HasCard(dialog[c])
       THEN [pc |-> "log", card |-> Current(dialog[c]), today |-> 0]
       ELSE [pc |-> "streak", card |-> "none", today |-> day]]
  /\ UNCHANGED <<tables, dialog, history>>

Stop(c) == handler' = [handler EXCEPT ![c] = Idle]

\* log_activity.  The log of a card deleted meanwhile violates its foreign
\* key: the handler ends there, and the chat keeps its context.
LogReview(c) ==
  LET k == handler[c].card
  IN  /\ handler[c].pc = "log"
      /\ IF k \in live
         THEN /\ logs' = [logs EXCEPT ![k] = @ + 1]
              /\ handler' = [handler EXCEPT ![c].pc = "review"]
         ELSE Stop(c) /\ UNCHANGED logs
      /\ UNCHANGED <<live, due, reviews, day, counted, dialog, history>>

\* Faulty form of ReviewCard: the card is reviewed without waiting for the log.
ReviewCardUnlogged(c) ==
  LET k == handler[c].card
  IN  /\ handler[c].pc \in {"log", "review"}
      /\ k \in live
      /\ reviews' = [reviews EXCEPT ![k] = @ + 1]
      /\ due' = due \ {k}
      /\ rated' = [rated EXCEPT ![c] = Append(@, k)]
      /\ early' = IF k \in due THEN early ELSE early \cup {k}
      /\ handler' = [handler EXCEPT ![c].pc = AfterReview(dialog[c]), ![c].today = day]
      /\ UNCHANGED <<live, logs, day, counted, dialog, failures, contested>>

\* review_card, and the choice of the next window.  The date of the streak is
\* taken as soon as the review has returned.
ReviewCard(c) ==
  LET k == handler[c].card
  IN  /\ handler[c].pc = "review"
      /\ IF k \in live
         THEN /\ reviews' = [reviews EXCEPT ![k] = @ + 1]
              /\ due' = due \ {k}
              /\ rated' = [rated EXCEPT ![c] = Append(@, k)]
              /\ early' = IF k \in due THEN early ELSE early \cup {k}
              /\ handler' = [handler EXCEPT
                   ![c].pc = AfterReview(dialog[c]), ![c].today = day]
         ELSE Stop(c) /\ UNCHANGED <<reviews, due, rated, early>>
      /\ UNCHANGED <<live, logs, day, counted, dialog, failures, contested>>

UpdateStreak(c) ==
  /\ handler[c].pc = "streak"
  /\ counted' = counted \cup {handler[c].today}
  /\ handler' = [handler EXCEPT ![c].pc = "render"]
  /\ UNCHANGED <<live, due, logs, reviews, day, dialog, history>>

\* Faulty form of Advanced: after the last card the dialog goes back to the front.
AdvancedReopens(d, today) ==
  IF HasCard(d) THEN [d EXCEPT !.index = @ + 1, !.reviewed = @ + 1, !.state = "front"]
  ELSE [d EXCEPT !.state = "front"]

\* The context of the chat after a rating, as _rate_card leaves it.
Advanced(d, today) ==
  [d EXCEPT !.index = @ + 1, !.reviewed = @ + 1,
            !.state = IF IsLast(d) THEN "complete" ELSE "front",
            !.finished = IF IsLast(d) THEN today ELSE 0]

\* The next window is rendered and sent, and the context stored.
Render(c) ==
  /\ handler[c].pc = "render"
  /\ dialog' = [dialog EXCEPT ![c] = Advanced(@, handler[c].today)]
  /\ Stop(c)
  /\ UNCHANGED <<tables, history>>

\* A database or Telegram error, or a crash of the process: what the handlers
\* of these chats have committed stays, their contexts do not change.
Fail(failing) ==
  /\ failures < MaxFailures
  /\ \A c \in failing : ~ Free(c)
  /\ handler' = [c \in Chats |-> IF c \in failing THEN Idle ELSE handler[c]]
  /\ failures' = failures + 1
  /\ UNCHANGED <<tables, dialog, rated, contested, early>>

-----------------------------------------------------------------------------
(* What else happens to the cards.                                         *)

\* Faulty form of DeleteCard: the card is still offered for review.
DeleteCardStillDue(c, k) ==
  /\ Free(c)
  /\ InDeck(c)
  /\ k \in live
  /\ live' = live \ {k}
  /\ logs' = [logs EXCEPT ![k] = 0]
  /\ UNCHANGED <<due, reviews, day, counted, dialog, handler, history>>

\* on_delete_card and on_reset_progress, below the deck screen of some chat.
\* A deleted card takes its activity logs along (ON DELETE CASCADE).
DeleteCard(c, k) ==
  /\ Free(c)
  /\ InDeck(c)
  /\ k \in live
  /\ live' = live \ {k}
  /\ due' = due \ {k}
  /\ logs' = [logs EXCEPT ![k] = 0]
  /\ UNCHANGED <<reviews, day, counted, dialog, handler, history>>

ResetCard(c, k) ==
  /\ Free(c)
  /\ InDeck(c)
  /\ k \in live \ due
  /\ reviews[k] < MaxReviews
  /\ due' = due \cup {k}
  /\ UNCHANGED <<live, logs, reviews, day, counted, dialog, handler, history>>

\* A day passes and the reviews of some cards come due.
NextDay ==
  /\ day < MaxDay
  /\ day' = day + 1
  /\ \E more \in SUBSET live : due' = due \cup more
  /\ UNCHANGED <<live, logs, reviews, counted, dialog, handler, history>>

HandleRating(c) == LogReview(c) \/ ReviewCard(c) \/ UpdateStreak(c) \/ Render(c)

Next ==
  \/ \E c \in Chats :
       \/ Leave(c) \/ OpenReview(c) \/ OpenDeck(c) \/ SelectDeck(c) \/ StartFromDeck(c)
       \/ ShowAnswer(c) \/ Rate(c) \/ HandleRating(c)
       \/ \E k \in Cards : DeleteCard(c, k) \/ ResetCard(c, k)
  \/ \E failing \in SUBSET Chats \ {{}} : Fail(failing)
  \/ NextDay

Spec == Init /\ [][Next]_vars

\* The event loop runs every handler to its end, and this user neither stops
\* asking for the answer nor rating.
FairSpec ==
  /\ Spec
  /\ \A c \in Chats : WF_vars(HandleRating(c)) /\ WF_vars(ShowAnswer(c)) /\ WF_vars(Rate(c))

-----------------------------------------------------------------------------

Elements(s) == {s[i] : i \in DOMAIN s}

\* The cards a session has passed.
Passed(d) == SubSeq(d.ids, 1, Fewer(d.index, Len(d.ids)))

Reviewing(k) == {c \in Chats : handler[c].pc = "review" /\ handler[c].card = k}

\* The activity log covers the reviews: whatever fails, crashes or interleaves,
\* a committed review was logged first, and a log without a review is due to a
\* handler still between the two transactions or to one that failed there.
LogCoversReviews ==
  \A k \in live :
    /\ reviews[k] <= logs[k]
    /\ logs[k] <= reviews[k] + Cardinality(Reviewing(k)) + failures * Cardinality(Chats)

NoCardSkipped ==
  \A c \in Chats : InSession(dialog[c]) => Elements(Passed(dialog[c])) \subseteq Elements(rated[c])

RatedOnceInOrder ==
  \A c \in Chats : InSession(dialog[c]) =>
    LET d == dialog[c]
        ahead == HasCard(d) /\ handler[c].pc \in {"streak", "render"}
    IN  rated[c] = IF ahead THEN Append(Passed(d), Current(d)) ELSE Passed(d)

\* A session never gets past a card whose review was not committed: the index
\* moves only with the stored context, and that is stored after the review.
\* While no handler fails, it rates each of its cards exactly once and in
\* order; only a rating under way may be ahead of the stored context.
SessionInOrder == NoCardSkipped /\ (failures = 0 => RatedOnceInOrder)

CountIsHonest ==
  \A c \in Chats : dialog[c].state = "complete" /\ dialog[c].ids # <<>> =>
    /\ dialog[c].reviewed = Cardinality(Elements(rated[c]))
    /\ dialog[c].reviewed = Len(dialog[c].ids)

CompletedDayCounted ==
  \A c \in Chats : dialog[c].state = "complete" => dialog[c].finished \in counted

\* The closing message of a session that had cards counts each rated card once,
\* also when failures made the user rate some of them again; and who sees it
\* has had that day counted in the streak, even if midnight passed or another
\* chat was at work meanwhile.
EndIsHonest == CountIsHonest /\ CompletedDayCounted

\* A card is rated ahead of its date only if two chats held it in their
\* sessions at once, or a rating failed after its review was committed.
EarlyOnlyIfContested == early # {} => contested \/ failures > 0

\* The card a chat has to rate next was deleted: its log can't be written, so
\* the chat can't get past it.
Wedged(c) == HasCard(dialog[c]) /\ Current(dialog[c]) \notin live

\* A user who keeps answering reaches the end of the session or leaves it,
\* unless the card at hand was deleted under the session.
SessionEnds ==
  \A c \in Chats :
    dialog[c].state \in {"front", "back"} ~>
      (dialog[c].state \notin {"front", "back"} \/ Wedged(c))

\* strings.py:124 (SESSION_COMPLETE): the user has looked through as many cards
\* as the message says.
SessionCompleteMessage ==
  \A c \in Chats : dialog[c].state = "complete" =>
    dialog[c].reviewed = Cardinality(Elements(rated[c]))
=============================================================================
