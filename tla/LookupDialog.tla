---------------------------- MODULE LookupDialog ----------------------------
(***************************************************************************)
(* Looking a word up and keeping it: the dialogs lookup.py and, stacked on  *)
(* it, card_display.py, of one user in one or several chats.  A search asks *)
(* the dictionary service, parses the articles, drops those of other words *)
(* and sorts the rest (services/verbum.py).  Adding the article on screen   *)
(* to a deck is three transactions: the card, the activity log, the streak; *)
(* a failure in between keeps what was committed.  create_card is the call  *)
(* that CardStore refines; here it is one step, as Library promises.        *)
(***************************************************************************)
EXTENDS Naturals, Sequences, FiniteSets

CONSTANTS
  Chats,
  Queries,       \* the words looked up
  Heads,         \* the headwords of articles, as spelt there
  Norm,          \* _normalize: the query a headword answers
  NoHead,        \* an article whose headword the parser did not find
  Dictionaries,
  Articles,      \* what the dictionary service may answer with: [head, dict]
  Priority,      \* DICTIONARY_PRIORITY
  MaxArticles,   \* bound: articles in an answer
  MaxDecks,      \* bound: decks ever created
  MaxCards,      \* bound: cards created before no more are begun
  MaxFailures,   \* bound: failures and crashes after the card is committed
  MaxDay         \* bound: the clock, in days

ASSUME LookupAssumption ==
  /\ DOMAIN Norm = Heads /\ NoHead \notin Heads /\ IsFiniteSet(Chats)
  /\ MaxArticles \in Nat /\ MaxDecks \in Nat /\ MaxCards \in Nat
  /\ MaxFailures \in Nat /\ MaxDay \in Nat
  /\ Priority \in [Dictionaries -> Nat]
  /\ Articles \subseteq [head : Heads \cup {NoHead}, dict : Dictionaries]

VARIABLES
  decks,     \* ids of the user's decks
  cards,     \* rows [id, deck, article]; the word is the article's headword
  deckSeq, cardSeq,
  logs,      \* per card id: its CARD_ADDED rows
  day,       \* the user's local date
  counted,   \* history: the dates update_streak has been called with
  dialog,    \* per chat: the stored dialog contexts
  handler,   \* per chat: the handler running; since: history, when it made the card
  failures

store == <<decks, cards, deckSeq, cardSeq, logs, counted>>
vars == <<decks, cards, deckSeq, cardSeq, logs, day, counted, dialog, handler, failures>>

NoArticle == [head |-> NoHead, dict |-> "none"]

Menu == [state |-> "menu", query |-> "", results |-> <<>>, index |-> 0,
         chosen |-> NoArticle, since |-> 0]
Idle == [pc |-> "idle", query |-> "", articles |-> <<>>, deck |-> 0, card |-> 0, since |-> 0]

\* Every chat may have one more call under way when the bound is reached.
Ids == 1..(MaxCards + Cardinality(Chats))

\* The windows in which card_display is on top of the lookup dialog.
Choosing(d) == d.state \in {"select", "create", "added"}

Contexts ==
  [state : {"menu", "word", "results", "select", "create", "added"}, query : Queries \cup {""},
   results : Seq(Articles), index : Nat, chosen : Articles \cup {NoArticle}, since : 0..MaxDay]
Handlers ==
  [pc : {"idle", "parse", "create", "log", "streak", "show"}, query : Queries \cup {""},
   articles : Seq(Articles), deck : 0..MaxDecks, card : {0} \cup Ids, since : 0..MaxDay]

TypeOK ==
  /\ decks \subseteq 1..deckSeq /\ deckSeq \in 0..MaxDecks
  /\ cardSeq \in {0} \cup Ids /\ IsFiniteSet(cards)
  /\ cards \subseteq [id : 1..cardSeq, deck : decks, article : Articles]
  /\ \A row \in cards : row.article.head # NoHead
  /\ logs \in [Ids -> 0..1]
  /\ day \in 0..MaxDay /\ counted \subseteq 0..day
  /\ failures \in 0..MaxFailures
  /\ dialog \in [Chats -> Contexts] /\ handler \in [Chats -> Handlers]
  /\ \A c \in Chats :
       /\ dialog[c].state \notin {"menu", "word"} =>
            dialog[c].index + 1 \in DOMAIN dialog[c].results
       /\ ~ Choosing(dialog[c]) => dialog[c].chosen = NoArticle

Init ==
  /\ decks = {} /\ cards = {} /\ deckSeq = 0 /\ cardSeq = 0
  /\ logs = [i \in Ids |-> 0]
  /\ day = 0 /\ counted = {}
  /\ dialog = [c \in Chats |-> Menu]
  /\ handler = [c \in Chats |-> Idle]
  /\ failures = 0

\* A window of chat c gets an event: no handler of the chat is running.
In(c, states) == handler[c].pc = "idle" /\ dialog[c].state \in states

Store(c, context) ==
  /\ dialog' = [dialog EXCEPT ![c] = context]
  /\ UNCHANGED <<store, day, handler, failures>>

-----------------------------------------------------------------------------
(* The lookup dialog.                                                      *)

OpenLookup(c) == In(c, {"menu"}) /\ Store(c, [Menu EXCEPT !.state = "word"])

\* on_word_entered: the answer of the dictionary service.  An error raises out
\* of the handler and leaves the dialog as it is.
Enter(c, word, articles) ==
  /\ In(c, {"word"})
  /\ handler' = [handler EXCEPT ![c] =
                  [Idle EXCEPT !.pc = "parse", !.query = word, !.articles = articles]]
  /\ UNCHANGED <<store, day, dialog, failures>>

Answers(a, word) == a.head # NoHead /\ Norm[a.head] = word

Fitting(word, articles) == {i \in DOMAIN articles : Answers(articles[i], word)}

\* Faulty form of Before: in the order of arrival.
BeforeByArrival(articles, i, j) == i < j

\* cards.sort by DICTIONARY_PRIORITY, which is stable.
Before(articles, i, j) ==
  \/ Priority[articles[i].dict] < Priority[articles[j].dict]
  \/ Priority[articles[i].dict] = Priority[articles[j].dict] /\ i < j

Place(word, articles, i) ==
  1 + Cardinality({j \in Fitting(word, articles) : Before(articles, j, i)})

SearchWord(word, articles) ==
  [n \in 1..Cardinality(Fitting(word, articles)) |->
     articles[CHOOSE i \in Fitting(word, articles) : Place(word, articles, i) = n]]

\* Without an answer the dialog stays where it is.
Parse(c) ==
  LET found == SearchWord(handler[c].query, handler[c].articles)
  IN  /\ handler[c].pc = "parse"
      /\ dialog' = IF found = <<>> THEN dialog
                   ELSE [dialog EXCEPT ![c] = [Menu EXCEPT !.state = "results", !.results = found,
                                                           !.query = handler[c].query]]
      /\ handler' = [handler EXCEPT ![c] = Idle]
      /\ UNCHANGED <<store, day, failures>>

Prev(c) ==
  In(c, {"results"}) /\ dialog[c].index > 0 /\ Store(c, [dialog[c] EXCEPT !.index = @ - 1])

\* Faulty form of Next: the last index is not respected.
NextBeyond(c) == In(c, {"results"}) /\ Store(c, [dialog[c] EXCEPT !.index = @ + 1])

NextResult(c) ==
  /\ In(c, {"results"}) /\ dialog[c].index + 1 < Len(dialog[c].results)
  /\ Store(c, [dialog[c] EXCEPT !.index = @ + 1])

NewSearch(c) == In(c, {"results"}) /\ Store(c, [Menu EXCEPT !.state = "word"])

\* The menu button of some windows, and the /menu command in all.
BackToMenu(c) == handler[c].pc = "idle" /\ dialog[c] # Menu /\ Store(c, Menu)

\* Faulty form of Shown: the first result, whatever is on screen.
FirstResult(d) == d.results[1]

Shown(d) == d.results[d.index + 1]

\* on_add_to_deck: card_display is stacked on the lookup dialog, with the
\* article on screen as its start data.
AddToDeck(c) ==
  In(c, {"results"}) /\ Store(c, [dialog[c] EXCEPT !.state = "select", !.chosen = Shown(dialog[c])])

-----------------------------------------------------------------------------
(* The card_display dialog.                                                *)

\* on_done: the lookup dialog below comes up again.
Done(c) ==
  /\ In(c, {"select", "added"})
  /\ Store(c, [dialog[c] EXCEPT !.state = "results", !.chosen = NoArticle, !.since = 0])

ToCreate(c) == In(c, {"select"}) /\ Store(c, [dialog[c] EXCEPT !.state = "create"])
BackToSelect(c) == In(c, {"create"}) /\ Store(c, [dialog[c] EXCEPT !.state = "select"])

\* on_create_deck_name
CreateDeck(c) ==
  /\ In(c, {"create"}) /\ deckSeq < MaxDecks
  /\ decks' = decks \cup {deckSeq + 1} /\ deckSeq' = deckSeq + 1
  /\ dialog' = [dialog EXCEPT ![c].state = "select"]
  /\ UNCHANGED <<cards, cardSeq, logs, day, counted, handler, failures>>

\* on_deck_selected begins, with a deck that was there when the window was
\* rendered.
SelectDeck(c, d) ==
  /\ In(c, {"select"}) /\ cardSeq < MaxCards
  /\ handler' = [handler EXCEPT ![c] = [Idle EXCEPT !.pc = "create", !.deck = d]]
  /\ UNCHANGED <<store, day, dialog, failures>>

Taken(d, head) == \E row \in cards : row.deck = d /\ row.article.head = head

\* create_card; it raises if the deck has gone, and tells of a word that is
\* there already.  Either way the window stays.
CreateCard(c) ==
  LET h == handler[c]
      article == dialog[c].chosen
  IN  /\ h.pc = "create"
      /\ IF h.deck \notin decks \/ Taken(h.deck, article.head)
         THEN handler' = [handler EXCEPT ![c] = Idle] /\ UNCHANGED <<cards, cardSeq>>
         ELSE /\ cardSeq' = cardSeq + 1
              /\ cards' = cards \cup {[id |-> cardSeq + 1, deck |-> h.deck, article |-> article]}
              /\ handler' = [handler EXCEPT ![c].pc = "log", ![c].card = cardSeq + 1,
                                         ![c].since = day]
      /\ UNCHANGED <<decks, deckSeq, logs, day, counted, dialog, failures>>

\* Faulty form of LogAdded: the activity is not logged.
LogNothing(c) ==
  /\ handler[c].pc = "log"
  /\ handler' = [handler EXCEPT ![c].pc = "streak"]
  /\ UNCHANGED <<store, day, dialog, failures>>

\* log_activity; the foreign key fails if the card has gone meanwhile.
LogAdded(c) ==
  LET k == handler[c].card
  IN  /\ handler[c].pc = "log"
      /\ IF \E row \in cards : row.id = k
         THEN /\ logs' = [logs EXCEPT ![k] = @ + 1]
              /\ handler' = [handler EXCEPT ![c].pc = "streak"]
         ELSE handler' = [handler EXCEPT ![c] = Idle] /\ UNCHANGED logs
      /\ UNCHANGED <<decks, cards, deckSeq, cardSeq, day, counted, dialog, failures>>

UpdateStreak(c) ==
  /\ handler[c].pc = "streak"
  /\ counted' = counted \cup {day}
  /\ handler' = [handler EXCEPT ![c].pc = "show"]
  /\ UNCHANGED <<decks, cards, deckSeq, cardSeq, logs, day, dialog, failures>>

\* The end of on_deck_selected: the "added" window is sent, the context stored.
ShowAdded(c) ==
  /\ handler[c].pc = "show"
  /\ dialog' = [dialog EXCEPT ![c].state = "added", ![c].since = handler[c].since]
  /\ handler' = [handler EXCEPT ![c] = Idle]
  /\ UNCHANGED <<store, day, failures>>

-----------------------------------------------------------------------------
(* Everything else.                                                        *)

\* An error or a crash; what the handler has committed stays.
Fail(c) ==
  /\ handler[c].pc # "idle" /\ failures < MaxFailures
  /\ failures' = failures + 1
  /\ handler' = [handler EXCEPT ![c] = Idle]
  /\ UNCHANGED <<store, day, dialog>>

\* The user deletes a card or a deck in another chat; logs go with their cards.
Without(gone) ==
  /\ cards' = cards \ gone
  /\ logs' = [i \in DOMAIN logs |-> IF \E row \in gone : row.id = i THEN 0 ELSE logs[i]]
  /\ UNCHANGED <<deckSeq, cardSeq, day, counted, dialog, handler, failures>>
DeleteCard(row) == row \in cards /\ Without({row}) /\ UNCHANGED decks
DeleteDeck(d) ==
  d \in decks /\ decks' = decks \ {d} /\ Without({row \in cards : row.deck = d})

Tick ==
  /\ day < MaxDay
  /\ day' = day + 1
  /\ UNCHANGED <<store, dialog, handler, failures>>

Responses == UNION {[1..n -> Articles] : n \in 0..MaxArticles}

Next ==
  \/ \E c \in Chats :
       \/ OpenLookup(c) \/ Parse(c) \/ Prev(c) \/ NextResult(c) \/ NewSearch(c)
       \/ BackToMenu(c) \/ AddToDeck(c) \/ Done(c) \/ ToCreate(c) \/ BackToSelect(c)
       \/ CreateDeck(c) \/ CreateCard(c) \/ LogAdded(c) \/ UpdateStreak(c) \/ ShowAdded(c)
       \/ Fail(c)
       \/ \E word \in Queries, articles \in Responses : Enter(c, word, articles)
       \/ \E d \in 1..deckSeq : SelectDeck(c, d)
  \/ \E row \in cards : DeleteCard(row)
  \/ \E d \in decks : DeleteDeck(d)
  \/ Tick

Spec == Init /\ [][Next]_vars

-----------------------------------------------------------------------------

\* A search shows every article of the word looked up, however its headword is
\* spelt, as often as the service has it, and no other; the better dictionaries
\* first, and the first of all on screen.
Times(a, s) == Cardinality({i \in DOMAIN s : s[i] = a})
ResultsAsFound ==
  [][\A c \in Chats :
       LET asked == handler[c].articles
           found == dialog'[c].results
           Fits(a) == a.head \in Heads /\ Norm[a.head] = handler[c].query
       IN  dialog[c].state = "word" /\ dialog'[c].state = "results" =>
             /\ \A a \in Articles : Times(a, found) = IF Fits(a) THEN Times(a, asked) ELSE 0
             /\ \A i, j \in DOMAIN found :
                  i < j => Priority[found[i].dict] <= Priority[found[j].dict]
             /\ dialog'[c].index = 0 /\ found # <<>>]_vars

\* The card that is added is the article that was on screen, of the word that
\* was looked up, though it went through the start data of another dialog and
\* other decks, searches and chats came in between.
AddedAsShown ==
  [][\A row \in cards' \ cards : \E c \in Chats :
       LET d == dialog[c]
       IN  /\ handler[c].pc = "create" /\ handler'[c].card = row.id
           /\ row.article = d.results[d.index + 1]
           /\ Norm[row.article.head] = d.query
           /\ row.deck = handler[c].deck /\ row.deck \in decks]_vars

UnderWay(k) == \E c \in Chats : handler[c].pc = "log" /\ handler[c].card = k
Unlogged == {row \in cards : logs[row.id] = 0 /\ ~ UnderWay(row.id)}

AddedIsLogged ==
  /\ Cardinality(Unlogged) <= failures
  /\ \A i \in Ids : logs[i] > 0 => \E row \in cards : row.id = i

AddedDayCounted ==
  \A c \in Chats : dialog[c].state = "added" => \E x \in counted : x >= dialog[c].since

\* Every card added is logged, unless a failure came between the two: a second
\* attempt is refused because the word is there, so each failure can cost a log.
\* No log outlives its card.  And whoever is told that a word was added has had
\* the day counted in the streak: the day it was added, or a later one if
\* midnight has passed.
AddedIsCounted == AddedIsLogged /\ AddedDayCounted
=============================================================================
