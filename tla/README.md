# Slouka in TLA+

Slouka is a Telegram bot for learning Belarusian words: a user looks a word up
in an online dictionary, keeps it as a card in a deck, reviews the cards by
spaced repetition (SM-2), keeps a daily streak, and is reminded of cards that
are due. It is an asyncio program (aiogram and aiogram-dialog) over PostgreSQL
(SQLAlchemy), with dialog contexts in Redis, and a second process group
(taskiq) that sends the reminders.

This directory holds TLA+ models of the parts in which order, concurrency and
failure decide what users see, the TLC runs that check them, and theorems
proved with TLAPS. Paths below are relative to `bot/src/`.

## 1. The system

### Components

| component | source | state | operations | what makes it correct |
|---|---|---|---|---|
| SM-2 arithmetic | `core/sm2.py` | none | `calculate` | ease above its floor, a pass never shortens the interval |
| card service | `services/card.py` | `cards` rows | create, review, reset, delete, list | one card per word and deck; the schedule stays consistent; only the owner's chats act |
| deck service | `services/deck.py` | `decks` rows | create, rename, delete, statistics | a deck takes its cards along; only the owner's chats act |
| user service | `services/user.py` | `users` rows | register, onboarding, toggle and time of reminders, timezone, streak | streak equals the days of activity; a user's choice is kept |
| statistics | `services/stats.py`, `infra/db/repositories/activity_log.py` | `activity_logs` rows | log, calendar, counts per week and month | a review is counted once, on its local day |
| unit of work | `infra/db/uow.py`, `infra/db/repositories/` | a session | begin, commit, rollback | all or nothing; constraints decide at the write |
| review dialog | `infra/tg/dialogs/review.py` | card list, index, count (dialog context) | load, show, rate | no card skipped, each rated once, the session ends |
| deck dialog | `infra/tg/dialogs/deck_management.py` | selected deck and card, page, cached statistics | open, rename, delete, page, reset | shows what is there, acts on what was shown |
| lookup and card display | `infra/tg/dialogs/lookup.py`, `card_display.py`, `services/verbum.py`, `infra/verbum/client.py` | articles found, chosen article | search, choose, add to deck | the word added is the one shown |
| dictionary parser | `infra/verbum/parser.py` | three HTML state machines | feed | what the rules of a dictionary take is in the card, in order and in its place |
| settings, onboarding, start | `infra/tg/dialogs/settings.py`, `onboarding.py`, `infra/tg/handlers/` | chosen hour, timezone | toggle, choose, confirm | what is stored is what was on screen; onboarding happens once |
| statistics dialog, main menu | `infra/tg/dialogs/stats.py`, `main_menu.py` | month shown | page through months | calendar, menu and streak tell the same |
| middleware | `infra/tg/middlewares.py` | the user read for one update | register or read the user | a user is registered once |
| reminder task | `worker/tasks.py`, `services/notification.py` | a list of users | send, retry, disable | at the chosen time, once, and everybody tried as far as one failure allows |
| wiring | `main.py`, `dependencies/`, `core/config.py`, `migrations/` | none after start | - | - |

### How they interact

* Every Telegram update is an asyncio task. The middleware reads (or creates)
  the user first; then aiogram-dialog takes the lock of the chat's dialog stack,
  loads its context, runs the handler, renders and sends the next window, and
  stores the context. So **handlers of one chat are serialised, those of two
  chats of one user are not**, and the user row the handler works with is from
  before the lock.
* A handler calls services; **every service call is one transaction** of its
  own session (`async with uow`), READ COMMITTED, nothing locked between a read
  and the write that depends on it. A handler that calls three services commits
  three times.
* A failing call raises through the handler: the context change is lost, what
  was committed before stays. A crash does the same.
* The reminder task runs in worker processes (two by default) from messages a
  scheduler puts into a Redis stream every ten minutes; a message not
  acknowledged in ten minutes is delivered again.

### What is hard

Lost updates between two chats (`review_card`, `update_streak`, `toggle_notifications`);
checks made in one statement and used in another (`create_card`, `rename_deck`,
`delete_deck`); dialog contexts that name cards and decks which have gone;
updates that queue for a chat and overtake each other, so that a press meets
another window than its sender saw; errors and crashes between the transactions
of one rating or one rename; midnight, changes of timezone and of the clocks
between computing a date and storing it, and between two readings of one log;
slow, repeated and interrupted reminder runs. `PROJECT.json` lists these hazards line by line with
the properties that cover them.

## 2. The modules

    Sm2 <- CardSchedule <- MCCardSchedule, CardProofs
    Streak <- MCStreak
    Streak <- Activity <- MCActivity, ActivityProofs
    ReviewSession <- MCReviewSession, ReviewSessionProofs
    Library <-(refinement)- CardStore <- MCCardStore, CardProofs
    DeckDialog <- MCDeckDialog, DeckDialogProofs
    Settings <- MCSettings, SettingsProofs
    Notifications <- MCNotifications, NotificationsProofs
    Parsers <- Article <- MCArticle, ArticleProofs
    LookupDialog <- MCLookupDialog, LookupDialogProofs

**Sm2** is `SM2Service.calculate` as four operators. The ease is a number of
hundredths: every change of it is a multiple of a hundredth. `round` on a float
product may go either way at an exact half, so `NextIntervals` is a set.

**CardSchedule** is one row of `cards`. `review_card` is two steps
(`ReviewRead`: the row is read and the new schedule computed; `ReviewWrite`: it
is written by primary key), with other chats' ratings, `ResetProgress`,
`DeleteRow` and the clock in between. History variables count the passes in a
row (`passes`), the ratings begun (`started`) and whether a write landed inside
another chat's rating (`raced`).

**Streak** is the streak columns of one `users` row. A handler reads the
timezone when the update arrives (`Arrive`), computes the local date later
(`Call`), and `update_streak` reads (`Read`) and writes (`Write`) the row;
`SetTimezone` and `Tick` run freely. A timezone is its offset at each clock unit
(`Offset`), so the clocks of a zone may change. `days` collects the dates on which a
streak update was committed: what the streak is meant to be can be told from it.
`disturbed` records that an update overwrote a newer row or went back in time,
the two cases in which the code loses part of a streak.

**Activity** composes Streak with the log and with the three screens that read
both. An activity is `Log`, `AskDate` and Streak's `Read` and `Write`. The log holds
instants. `get_active_days` turns each into a date (`LocalDay`), `get_review_counts`
turns dates into instants (`Instant`) and counts between them; the calendar
(`Marker`) and the menu (`MenuFlame`, `MenuWarning`) also read the streak. The
statistics dialog is `stats[c]`, with the year and month it was paged to, unset
until it was. `excused` records what makes log and streak differ by design.

**ReviewSession** is the review dialog of one user and one deck in several
chats, over the tables it writes. `dialog[c]` is the stored context
(`card_ids`, `card_index`, `reviewed_count`, the window), `handler[c]` the rating
under way with its four steps: `LogReview`, `ReviewCard`, `UpdateStreak` (last card
only), `Render` (window sent, context stored). `Fail` is an error in some chat's
handler or a crash of the process. Sessions begin from the review list
(`SelectDeck`, which checks that there is a card) or from the deck screen
(`StartFromDeck`, which does not); cards are deleted, reset and come due meanwhile.
Dates of cards and the arithmetic are left to CardSchedule: here a card is due
or not.

**CardStore** is the `decks` and `cards` tables under `create_deck`, `create_card`,
`rename_deck`, `delete_deck`, `delete_card`. A call goes through the statements of
its transaction (`Verify`, `Find`, `GetCard`, then one write that commits), and the
constraints decide at the write: `Violates` is the unique key and the foreign
key, `WithoutDeck` the cascade. **Library** is what these services promise: each
call takes effect at one instant and its reply is true of that instant.
`ImplementsLibrary` checks that CardStore implements it; the mapping is the
identity on the tables, the requests and the replies, and forgets `pc`, the id
sequences and the selected cards.

**DeckDialog** is the deck management dialog in one chat, over decks and cards
that change in other chats too. `dialog` is the stored window and data,
including what `on_deck_selected` and `on_rename_deck` cached (`name`, `total`) and
the `page`; `screen` is what the last message offers to press; `handler` is the
transaction that comes next: `stats` (the second one of the two handlers), `render`
(a getter), `page` (the second transaction of `cards_list_getter`). A window is
stored only once it was sent, so `Raise` leaves the data and the message of before.
`walk` collects what a user who pages has seen since the first page; it starts anew
when a card of the deck is deleted, another deck is shown, or a press of a button
no longer offered turns the page.

**Settings** is registration, `/start`, `/menu`, onboarding and the settings dialog
in one chat. An update passes the middleware (`GetUser`, `CreateUser`), waits, and is
handled when it gets the chat (`Command`, `Switch`, `Enter`, `Finish`, `SetTime`,
`SetZone`, `ToggleRead`), or dropped because the window of that moment has no such
button (`Ignore`). It acts on the dialog of that moment, with the user of its
arrival and the value of its own button. `Show` sends the window, stores it and
voids the presses of a dialog that was replaced. The windows' data that nothing
reads any more is left out. `shown` remembers what the sender of a committing press
saw, as long as no other update of his was waiting.

**Notifications** is the reminder task with its scheduler, broker, workers and
Telegram's answers. A clock unit is a ten-minute slot; the chosen hour and
minute and the timezone together are the slot of the (UTC) day they select
(`row[u].at`). `Start` is the one query of a run; `Check` is one turn of the loop
with its own look at the clock; `Send`, `Refused`, `Limited`, `Retry`, `Disable` and
`DisableFails` are the branches of the `try`; the last is the one error that nothing
catches, and it ends the run (`unstored` remembers which). Delivery may succeed although the
answer is lost. `Redeliver` and `Crash` are the broker's and the machine's.

**Parsers** is the three state machines of `infra/verbum/parser.py` as operators on
a record, one per handler (`ExplanatoryStart`, `ExplanatoryEnd`, `ExplanatoryData` and
so on), and the card built of the result (`BuildCard`). The `_in_...` flags are the
set `in`; tags and classes are reduced to the elements the handlers tell apart, a
text to a piece with its kind (plain, "1.", with "||", with a lozenge) and its place. **Article** feeds
one article to its parser. Its grammar of articles is external and liberal: any
well-nested markup that begins with the headword, with separators and lozenges in
the paragraphs' own text (not inside an example, a phrase or an abbreviation). What
a dictionary's rules take from the article (`Meanings`, `Translations`) is defined
from the pieces and the elements around them, without flags or buffers, and must be
what the card holds. These are the code's rules and not a lexicographer's: what each
leaves out, or takes although one may not expect it, is said at `MeaningsAsWritten`,
`TranslationsAsWritten` and `Rest`, and listed under the observations below. The
accent mark of the headword (`accent`) is chosen at the end, because only
`_build_card` looks at it; the card's field for the accented headword is left out.

**LookupDialog** is the lookup dialog with the card display dialog stacked on it,
of one user in several chats. `dialog[c]` holds the results, the index on screen
and the start data (`chosen`), `handler[c]` a search or the three transactions of
adding: `CreateCard`, `LogAdded`, `UpdateStreak`, then `ShowAdded`. `create_card` is one
step here, which CardStore justifies. Cards and decks may be deleted elsewhere.
The stable sort of `search_word` is by `Place`: an article comes after those of better
dictionaries and, in one dictionary, after those that came earlier.

The operators named as a "faulty form" of another are mutations used to show
that each property can fail; the specifications do not use them.

## 3. The runs

| run | instance | distinct states | shows |
|---|---|---|---|
| `card_schedule` | 2 chats, the 4 ratings, 5 ratings, 3 days | 424 000 | the schedule's shape, growth and counts |
| `streak` | 2 chats, days of 2 units, 2 zones, one with changing clocks, clock to 9 | 749 000 | streaks earned and, undisturbed, exact |
| `activity` | 1 chat, 2 zones, one with changing clocks, clock to 6, weeks of 3 days, months of 2, years of 2 months, 1 move or deletion, pages 1 month away | 459 000 | counts, calendar, menu and streak agree |
| `review_session` | 2 chats, 2 cards, 1 failure, 2 reviews per card before resets stop, 2 days | 2 522 000 | context, log, cards and streak agree |
| `review_liveness` | as above, 1 review, 1 day, fairness | 134 000 | sessions end |
| `review_claim` | 1 chat, 2 cards | violated | an empty session reports a card (finding) |
| `card_store` | 2 users in 3 chats, 1 deck ever, 2 cards, 2 words, 2 names | 158 000 | constraints, ownership, refinement |
| `deck_dialog` | 2 names, 2 decks, 4 cards, pages of 2, 1 change elsewhere | 2 691 000 | pages reach every card; a deletion deletes what it named |
| `settings` | 2 updates in flight, 2 hours, 1 minute, 2 zones, 1 change elsewhere | 1 075 000 | registered once, committed as shown |
| `reminders` | 2 users, 2 workers, 2 slots a day, 2 slots, 1 change, 1 failure, fairness | 468 000 | reminders on time, once, to all but those a failed `disable_notifications` costs them; runs end |
| `article` | 3 dictionaries, 5 texts, 6 elements | 1 647 000 | the card has what the dictionary's rules take from the article |
| `lookup` | 2 chats, 2 words and 3 spellings, 2 dictionaries, 2 articles, 1 deck, 2 cards, 1 failure, 2 days | 1 256 000 | what was on screen is added, logged, counted |

**Why the bounds are enough.** All races in the code are between two actors, so
two chats (workers, updates) show them; a third actor repeats them. Five ratings
reach every branch of SM-2 twice over (fail, first, second and third pass in a
row, a pass at a low ease), and the theorems of section 4 remove the bound.
Streak's nine clock units are four midnights, enough for a run, a gap and a second
run; again the theorems remove the bound. Activity adds no race to Streak's, so
one chat is enough; its clock starts inside a day and passes the end of a week,
of a month and of a year, with clocks that go forward and back in one zone. Two cards
distinguish the first, an inner and the last card of a session together with
`Limit`; deleting, resetting and a second chat all work on the card at hand or the
next. In CardStore one deck is enough to lose it under a call, and ids are never
reused, so a second deck would only be a second copy of the first (a run with two
decks, one word and one card found nothing either). In DeckDialog four cards are
two full pages, or three of which one is deleted while the user pages; the second
deck is there to be opened on the page the first left behind. That three pages or
more changes made elsewhere bring nothing new is proved in section 4. In Settings a
second timezone and a second hour are enough to commit the wrong one. In
Notifications, two slots let a run be late by one, which is what distinguishes an
on-time check from a late one. In Article five texts are a headword and four more:
two definitions with an example or text each, a number, its text, a phrase and the
phrase's translation; six elements are a paragraph for the headword and one for
the body, with three parts of which one holds another; the theorems remove these
bounds too. Two articles in an answer can be in the wrong order, of one dictionary,
or partly unfit.

Every bound is a constant named in a guard (`MaxRatings`, `MaxDay`, `MaxClock`,
`MaxFailures`, `MaxReviews`, `MaxDecks`, `MaxCards`, `MaxChanges`, `MaxElsewhere`,
`MaxPaged`, `MaxPieces`, `MaxTags`, `MaxArticles`). Deadlock is checked except in
`card_schedule` (the row can be gone), `reminders` and `activity` (the clock ends) and
`article` (an article ends).

**Symmetry** is used for chats, cards, words, names and updates in flight, and
never in the two runs with fairness.

**Fairness.** `review_liveness` assumes that the event loop runs a handler to its
end (`HandleRating`), and that this user presses "show answer" and a rating when
they are shown; nothing is assumed of deletions, resets, the clock, or other
dialogs. `reminders` assumes that a worker goes on with the task it has and takes
the next message; Telegram's answers stay arbitrary.

**Finding.** A session without cards ends with "1 card reviewed" and counts the day
(`review_claim`).

**Observations** made while modelling. The properties except or allow them; no
text of the repository says otherwise, or only loosely.

* Ratings: a rating or reset overwritten by another chat (`raced`), a card rated
  twice after a failure (`failures`), a chat stuck on a deleted card (`Wedged`; the
  "back" window has no other button, so only a command gets the user out).
* Streak: an update overwritten or dated back loses part of it (`disturbed`).
* Cards: `create_card` reports every violated constraint as a duplicate word, also
  that the deck has just been deleted (`services/card.py:54`). A card added but
  never logged, because the second attempt finds its word taken (`failures`, in
  LookupDialog).
* Decks: the confirmation of a deck's deletion shows the number of cards of when
  the deck was opened, also after cards were deleted in the same chat; after a
  rename whose statistics failed, the old name (`changed`). The page is kept when
  another deck is opened, until the list clamps it. A chat whose deck was deleted
  elsewhere while a card is open gets errors from every way back to the list.
* Settings: `/menu` passes by onboarding, so such a user is never reminded
  (reminders ask for `onboarding_completed`). The second of two first updates of a new
  user is lost. A toggle negates the row, not the label that was pressed. With
  three updates queueing (a location, back, another location), a confirmation sent
  when the first was displayed may commit the second; ChoiceAsShown therefore
  speaks of a press sent with no other waiting.
* Reminders: repeated or missed when a run overruns its slot (`late`). Every error of
  a send is caught and logged, but not one of `disable_notifications`
  (`worker/tasks.py:45`): when that fails for a user who has blocked the bot, the run
  ends, is acknowledged, and all users it had not come to lose their reminder
  (`EverybodyTried` says that nothing else has this effect).
* Statistics: "no practice yet" is also shown to who practised before this week and
  this month (`dialogs/stats.py:53`); the review counts include added cards
  (`CountFrom` counts every log). The menu's warning also appears for a streak
  broken days ago (`MenuWarning`).
* Parsers: the explanatory parser drops the words before a separator that come in
  the same piece, though its comment is "stop collecting after it"
  (`infra/verbum/parser.py:165`; `Separates`); the rbs10 parser takes text of the first
  paragraph after the headword for a translation (`Free`), text after a lozenge and
  before the first phrase for a second translation under the last number
  (`NumberOf`), and in an article without numbers the translations of phrases for
  definitions (`Kept`, `Counts`). In an article shown whole the headword is left out
  only if it is one piece without an accent mark: it has lost its marks when it is
  looked for, the text has not (`infra/verbum/parser.py:505`). With a mark after its
  last letter the headword is found and taken out, and the bare mark is left at the
  beginning of the definition (`Rest`).

## 4. The proofs

**CardProofs** proves what is claimed of the tables (CardStore) and of the schedule
of one row (CardSchedule). For every set of chats, users, words and names and
without bound on decks, cards or calls, it proves the four properties of
`card_store`, among them that CardStore implements Library. What a call found out
in one statement need not hold in the next, so the invariant `Inv` keeps what does:
a call past its owner check names a deck that is the caller's or is gone (`Cleared`),
a selected card is in one of the user's decks or is gone (`OwnSelection`, which
replaces the check `delete_card` does not make), and both survive because calls
and contexts name only ids already given out (`IdsGivenOut`) and ids are unique
(`UniqueIds`). The step lemmas are one per action; `NextByOwner` and
`NextImplements` then map each step to the owner's act and to Library's step.

For every set of chats and ratings in 0..5 and without bound on ratings, days or
interleavings, it proves all five properties of `card_schedule`. They are not
inductive: that a pass lengthens the interval needs the shape of the row the pass
was computed from, which another chat may since have replaced. The invariant
`ScheduleInv` therefore speaks of every row in sight, stored, read and about to be
written: each is well formed, and one about to be written counts no more passes
than ratings begun and is due within its interval (`PendingSound`); and unless a
write has raced, a pending rating has read the row that is still stored. The
arithmetic is in lemmas on `NextEase`, `NextIntervals` and `Rounded` (an interval of
at least six, times an ease of at least 1.3, rounds to more than itself).

**ActivityProofs** proves, for every set of chats, length of the day, weeks and
months and offsets of the zones, the properties of `streak` and of `activity`,
and that Activity implements Streak. The invariant of the streak says of the stored row and of every
row a pending update has read that its streak is a run within `days` and its
record was reached by one (`Backed`); that a streak is maximal and the record the
longest run is added for undisturbed histories, in which a write is made on top
of the row it has read and never goes back in time. That every step of Activity is a
step of Streak or leaves its row alone (`ImplementsStreak`) brings these theorems to
Activity, and the invariant needed for the calendar is small: unless excused, every
date of the streak has a log (`Logged`), and so has the date an update under way will
write (`Tracked`). That a count by instants is a count by dates
(`CountsAreOfTheirDates`) needs no invariant but an argument about the calendar: the
start of a date is the first unit at or after which the date is reached
(`FromStart`), because dates never go back (`DatesAssumption`; no timezone is today
put back after midnight to before it, as Newfoundland's was at 0:01 until 2011).

**SettingsProofs** proves, for every number of updates in flight and every set of
hours, minutes and timezones, the four properties of `settings`. The properties
speak of the end of an update's way, so the invariant says at each stage of it
what is already settled: the window that a waiting press was sent from is on
screen or is gone, and no handler under way brings it back with something else
(`ShownIsCurrent`, `LeavesWindow`); a toggle under way negates what the row holds,
unless another one raced it (`TogglesFollow`); an update sent after onboarding was
completed finds it completed (`DoneStays`); past the middleware there is a row
(`Registered`).

**NotificationsProofs** proves, for any number of users, workers, slots, changes of
settings and failures, the five safety properties of `reminders`. Most steps are a
worker's, so one lemma (`Working`) says what a worker's step must keep for the
invariant to hold, and each action is shown to keep it. While no run is late, a
slot has at most one run, none before its message is taken (`RunsApart`); a run has
not yet reminded those it still has to look at or to serve (`StillToRemind`), and
whomever it owes a reminder is still to come (`StillOwed`), so that one which ends has
tried everybody, or stops at a user who refused and was himself tried (`Served`). That a reminder goes
out at the chosen time needs no such premise: the run's copy of the times agrees
with the row of whoever has not moved, and who is served was found due by it
(`RunFaithful`).

**ReviewSessionProofs** proves, for any number of chats, cards, failures and days
and any size of a session, the five safety properties of `review_session`. The
invariant ties together what a chat stores, what it is handling and what it has
rated (`Sound`): the stored index counts the cards passed, and only a rating whose
review has returned is ahead of it (`Ahead`). As long as nothing failed, the
rated cards are the list up to there, place by place (`InOrder`), from which the
sequences of `RatedOnceInOrder` follow; as long as no card is in two sessions,
what is left of a session is still due (`StillDue`). The logs are bounded by the
set of handlers between log and review (`Counts`), whose cardinality the library's
theorems on finite sets give; so do they that a finished list of distinct cards
has as many elements as places (`NumberOfElements`), which is what the closing
message counts.

**LookupDialogProofs** proves, for any number of chats, words, dictionaries, cards
and failures and answers of any length, the four properties of `lookup`. That a
search shows each fitting article once and in order comes down to the places
being a bijection from the fitting articles to the indices of the result
(`Placed`): they grow with the order (`Ordered`), there are as many as articles, and
the library's theorems on injections of finite sets do the rest. The invariant
says of each chat that its results answer its query, that what was chosen is on
screen, and that a handler adding a card runs in the window that asks for the
deck (`Sound`). Of the cards it says that each one not logged is held by one handler
of its own or was cost by a failure (`Books`); cardinalities count them.

**DeckDialogProofs** proves, for any number of names, decks, cards and changes made
elsewhere and any size of a page, the three properties of `deck_dialog`. The
invariant says of the data stored and of the data under way that the deck was
there, that a card which is not the word shown is gone for good, and that the
name and the number of cards are true unless noted as changed (`Sound`). For the
pager it says that the pages before the one stored are full and seen (`Complete`),
and that a count made for a page which has not been read yet names cards that
precede all added since (`CountSound`). One lemma on `OnPage` (`PageShown`) gives what a
page adds: every place in the order of ids is taken by one card (`PlacesTaken`) and
does not change when later cards come (`LaterIds`). The proof is what showed that
an earlier form of `PagerReachesAll` was false beyond the run's bounds: a second
press of "next", sent before the window without that button arrives, passes by
cards added meanwhile.

**ArticleProofs** proves, for any of the dictionaries and kinds of text and articles
of any length, the two properties of `article`, for the markup and by the rules that
Article states. `CardAsWritten` compares the finished
card with the finished article; the invariant `ArticleInv` compares the two at
every tag and every text. It says how the open elements are nested and that the
pieces read so far name the elements that were around them (`Frame`); that the
flags of the parser, and the level and the table counts, are those of the open
elements (`Shape`, `Rbs10Shape`); and that each field of the parser is what the
pieces read so far say, less the elements that are still open (`Content`,
`Rbs10Content`, `KlyshkaInv`). Two more facts make that inductive. The text of an
example or a phrase is shown as a whole or not at all and belongs to the current
definition (`Settled`); and what bold text is, a number or a phrase, is decided by its
first piece (`BoldSettled`), although _Rbs10Parser acts on it only at the end tag.
Between the two it is the fields as they will be after that end tag (`DefsAhead`,
`BufAhead`, `NumAhead`) that agree with the article.

A handler is then compared with what one more piece does to the meaning of an
article. The meaning of the old pieces stays (`SameShown`, `SameBegins`,
`SameBreaks`, `SameNumber` and so on), because each definition of Article looks
back only. What is listed stays or grows by a last entry (`NthGrow`, `ReadMore`,
`ReadEachMore`), and the entries that are not complete change in the last place only
(`SoFarRead`, `SoFarEnd`, `DefinitionsRead`). `Flushed` is the central lemma on
_Rbs10Parser: what `_flush_def` makes of the buffer is the translation that the article
has since the last break, with the number in force there. For every handler one
lemma says what it does to each field (`StartFields`, `EndFields`, `DataFields` and
their counterparts), so that the steps of the invariant do not expand the
handlers. None of this needs induction over the pieces: `Nth` is defined by counting,
and the one argument by a least counterexample (`NthIn`) uses the library's theorem
on well-founded relations.

Assumed: the named assumptions on the constants only (`QualitiesAssumption`,
`BoundsAssumption`, `DayLengthAssumption`, `OffsetAssumption`, `NeverAssumption`,
`MaxClockAssumption`, `CalendarAssumption`, `DatesAssumption`, `StoreAssumption`, `NoRequestAssumption`,
`DefaultsAssumption`, `NothingAssumption`, `NoUserAssumption`,
`MaxElsewhereAssumption`, `NotificationsAssumption`, `ReviewAssumption`,
`LookupAssumption`, `CardsPerPageAssumption`, `NoNameAssumption`,
`ArticleAssumption`).

Only model-checked: liveness (`SessionEnds`, `RunsEnd`), which is out of the prover's
reach, and the violation of `SessionCompleteMessage`. Every other property of the
runs is a theorem.

## 5. Not modelled

* The statistics of decks and of ease (`get_deck_stats` beyond the number of cards,
  `get_deck_learned_stats`, `get_ease_distribution`): single queries that nothing
  else reads.
* Wording and layout (`infra/tg/strings.py`, `core/plural.py`); how a timezone
  is found by name or place and spelt (`core/timezone.py`): its outcome is an input
  of Settings.
* Wiring, configuration, start-up, migrations: no state after start. The
  connection pool cannot deadlock, because a handler never holds two connections.
* Of the parsers, spelling and spacing: that the explanatory parser puts a space
  where an accent splits a word of a definition does not show here. The fallback
  after an exception, which no article of Article's grammar raises.
* The dialog framework itself: that it takes the chat's lock, drops presses of a
  dialog that is gone and stores the context after the message is taken from how
  the code uses it.

## 6. Plan

1. Two chats in Activity, once the counts are factored so that the run stays small.
2. A composition of Settings with Notifications: the toggle's two steps are
   modelled in both, against other chats here and against the task there.
