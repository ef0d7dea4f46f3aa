----------------------------- MODULE DeckDialog -----------------------------
(***************************************************************************)
(* The deck management dialog (infra/tg/dialogs/deck_management.py) in one *)
(* chat of a user who also works on the same decks in other chats.  What a *)
(* window shows comes from the dialog's stored data, read when the deck or *)
(* card was selected, or from getters that run when the window is          *)
(* rendered.  Each call of a service is a transaction; CardStore shows why *)
(* it may be taken as one step.  A press and the first transaction it      *)
(* makes are one step, since nothing is read between them.  The data is    *)
(* stored once the window was sent; an exception before that leaves the    *)
(* data and the message as they were.                                      *)
(*                                                                         *)
(* A deck never holds a word twice, so a card's id stands for its word.    *)
(* Whether a deck has cards to review is left open (CardSchedule,          *)
(* ReviewSession).                                                         *)
(***************************************************************************)
EXTENDS Integers, FiniteSets

CONSTANTS
  Names,         \* names of decks
  NoName,        \* no deck opened yet, or a deck that is gone
  CardsPerPage,  \* CARDS_PER_PAGE
  MaxDecks,      \* bound: decks ever created
  MaxCards,      \* bound: cards ever created
  MaxElsewhere   \* bound: changes made in the user's other chats

ASSUME CardsPerPageAssumption == CardsPerPage \in Nat \ {0}
ASSUME NoNameAssumption == NoName \notin Names
ASSUME BoundsAssumption == MaxDecks \in Nat /\ MaxCards \in Nat /\ MaxElsewhere \in Nat

VARIABLES
  decks,      \* the name of each deck ever created, NoName once it is deleted
  cards,      \* rows [id, deck]
  cardSeq,    \* the last id given to a card
  dialog,     \* the stored window and data
  screen,     \* what the last message offers: decks or cards, and a pager
  handler,    \* the handler or getter under way
  elsewhere,  \* changes made in other chats so far
  changed,    \* history: what has changed since the deck's data was read
  walk        \* history: what has been seen since the first page of a deck

history == <<changed, walk>>
vars == <<decks, cards, cardSeq, dialog, screen, handler, elsewhere, changed, walk>>

CardIds == 1..MaxCards
DeckIds == 1..MaxDecks
Exists(d) == d \in DOMAIN decks /\ decks[d] # NoName
Decks == {d \in DOMAIN decks : Exists(d)}
IdsIn(d) == {row.id : row \in {r \in cards : r.deck = d}}
Live == {row.id : row \in cards}

Windows == {"outside", "list_decks", "create_deck", "view_deck", "rename_deck",
            "confirm_delete_deck", "view_cards", "view_card", "confirm_delete_card"}
Dialogs ==
  [state : Windows, deck : 0..MaxDecks, name : Names \cup {NoName}, total : 0..MaxCards,
   page : 0..MaxCards, card : 0..MaxCards, word : 0..MaxCards]
Screens == [items : SUBSET Nat, prev : BOOLEAN, next : BOOLEAN]

Outside == [state |-> "outside", deck |-> 0, name |-> NoName, total |-> 0,
            page |-> 0, card |-> 0, word |-> 0]
Offers(items) == [items |-> items, prev |-> FALSE, next |-> FALSE]
Idle == [pc |-> "idle"]
NoWalk == [deck |-> 0, seen |-> {}, counted |-> {}, whole |-> FALSE, torn |-> FALSE]

Handlers ==
       {Idle}
  \cup [pc : {"stats", "render"}, data : Dialogs]
  \cup [pc : {"page"}, data : Dialogs, counted : SUBSET CardIds]

Walks == [deck : 0..MaxDecks, seen : SUBSET CardIds, counted : SUBSET CardIds,
          whole : BOOLEAN, torn : BOOLEAN]

TypeOK ==
  /\ decks \in UNION {[1..n -> Names \cup {NoName}] : n \in 0..MaxDecks}
  /\ cardSeq \in 0..MaxCards
  /\ cards \subseteq [id : 1..cardSeq, deck : DOMAIN decks]
  /\ dialog \in Dialogs /\ screen \in Screens /\ handler \in Handlers
  /\ elsewhere \in 0..MaxElsewhere
  /\ changed \subseteq {"name", "renamed", "cards"}
  /\ walk \in Walks

\* The user may have built up any decks and cards before.
Init ==
  /\ \E n \in 0..MaxDecks : decks \in [1..n -> Names]
  /\ \E m \in 0..MaxCards :
       /\ cardSeq = m
       /\ \E deckOf \in [1..m -> DOMAIN decks] :
            cards = {[id |-> i, deck |-> deckOf[i]] : i \in 1..m}
  /\ dialog = Outside /\ screen = Offers({}) /\ handler = Idle
  /\ elsewhere = 0 /\ changed = {}
  /\ walk = NoWalk

-----------------------------------------------------------------------------
(* Rendering.                                                              *)

\* The window was sent, and the data is stored.
Show(data, shown) ==
  /\ dialog' = data /\ screen' = shown /\ handler' = Idle

Raise == handler' = Idle /\ UNCHANGED <<dialog, screen>>

\* Faulty form of TotalPages: a last page that is not full is not counted.
TotalPagesFull(total) == IF total < CardsPerPage THEN 1 ELSE total \div CardsPerPage

TotalPages(total) == (total + CardsPerPage - 1) \div CardsPerPage

\* LIMIT and OFFSET of the cards ordered by id.
Before(ids, k) == Cardinality({x \in ids : x < k})
OnPage(ids, page) ==
  {k \in ids : /\ Before(ids, k) >= page * CardsPerPage
               /\ Before(ids, k) < (page + 1) * CardsPerPage}

Clamped(page, total) ==
  IF page > TotalPages(total) - 1 THEN TotalPages(total) - 1 ELSE page

\* cards_list_getter counts the cards; an empty list leaves the page as it is.
CountCards(data) ==
  LET ids == IdsIn(data.deck)
  IN  IF ~ Exists(data.deck) THEN Raise
      ELSE IF ids = {} THEN Show(data, Offers({}))
      ELSE /\ handler' = [pc |-> "page", counted |-> ids,
                          data |-> [data EXCEPT !.page = Clamped(@, Cardinality(ids))]]
           /\ UNCHANGED <<dialog, screen>>

\* card_detail_getter; without a card there is no text, which Telegram may refuse.
ShowCard(data) ==
  IF data.card \in Live THEN Show(data, Offers({data.card})) ELSE Show(data, Offers({})) \/ Raise

\* The first transaction of the window's getter; the other getters make none.
Render(data) ==
  CASE data.state = "list_decks" -> Show(data, Offers(Decks))
    [] data.state = "view_cards" -> CountCards(data)
    [] data.state = "view_card"  -> ShowCard(data)
    [] OTHER                     -> Show(data, Offers({}))

Busy(pc) == handler.pc = pc
In(w) == handler = Idle /\ dialog.state = w
To(w) == [dialog EXCEPT !.state = w]
AfterwardsRender(data) ==
  handler' = [pc |-> "render", data |-> data] /\ UNCHANGED <<dialog, screen>>

GetterCall ==
  /\ Busy("render")
  /\ Render(handler.data)
  /\ UNCHANGED <<decks, cards, cardSeq, elsewhere, history>>

\* cards_list_getter reads the page, in a transaction of its own.
GetPage ==
  LET data == handler.data
      counted == handler.counted
      items == OnPage(IdsIn(data.deck), data.page)
      first == data.page = 0
      torn == ~ (counted \subseteq Live)
      whole == ~ torn /\ (first \/ (walk.whole /\ walk.deck = data.deck))
  IN  /\ Busy("page")
      /\ IF ~ Exists(data.deck) THEN Raise /\ UNCHANGED walk
         ELSE /\ Show(data, [items |-> items, prev |-> data.page > 0,
                             next |-> data.page < TotalPages(Cardinality(counted)) - 1])
              /\ walk' = [deck |-> data.deck, whole |-> whole, torn |-> torn,
                          counted |-> IF whole THEN counted ELSE {},
                          seen |-> IF ~ whole THEN {}
                                   ELSE IF first THEN items ELSE items \cup walk.seen]
      /\ UNCHANGED <<decks, cards, cardSeq, elsewhere, changed>>

\* An error or a crash between two transactions.
Fail ==
  /\ handler # Idle
  /\ Raise
  /\ UNCHANGED <<decks, cards, cardSeq, elsewhere, history>>

-----------------------------------------------------------------------------
(* Presses that only read.                                                 *)

SwitchTo ==
  {<<"list_decks", "create_deck">>, <<"create_deck", "list_decks">>,
   <<"view_deck", "view_cards">>, <<"view_deck", "rename_deck">>,
   <<"view_deck", "confirm_delete_deck">>, <<"view_deck", "list_decks">>,
   <<"rename_deck", "view_deck">>, <<"confirm_delete_deck", "view_deck">>,
   <<"view_cards", "view_deck">>, <<"view_card", "confirm_delete_card">>,
   <<"view_card", "view_cards">>, <<"confirm_delete_card", "view_card">>}

OpenDecks ==
  /\ In("outside")
  /\ Render(To("list_decks"))
  /\ UNCHANGED <<decks, cards, cardSeq, elsewhere, history>>

Switch(to) ==
  /\ handler = Idle /\ <<dialog.state, to>> \in SwitchTo
  /\ Render(To(to))
  /\ UNCHANGED <<decks, cards, cardSeq, elsewhere, history>>

\* on_back_to_menu in the list, /menu anywhere.
Leave ==
  /\ handler = Idle /\ dialog.state # "outside"
  /\ Show(Outside, Offers({}))
  /\ changed' = {} /\ walk' = NoWalk
  /\ UNCHANGED <<decks, cards, cardSeq, elsewhere>>

\* on_start_review, offered if some of the cards counted were to be reviewed.
StartReview == In("view_deck") /\ dialog.total > 0 /\ Leave

\* on_deck_selected: get_deck_by_id, and get_deck_stats in GetStats.
SelectDeck(d) ==
  /\ In("list_decks") /\ d \in screen.items
  /\ IF ~ Exists(d) THEN Raise /\ UNCHANGED changed
     ELSE /\ handler' = [pc |-> "stats",
                         data |-> [To("view_deck") EXCEPT !.deck = d, !.name = decks[d]]]
          /\ changed' = changed \ {"name", "renamed"}
          /\ UNCHANGED <<dialog, screen>>
  /\ UNCHANGED <<decks, cards, cardSeq, elsewhere, walk>>

\* get_deck_stats, the last transaction of on_deck_selected and on_rename_deck.
GetStats ==
  LET data == handler.data
  IN  /\ Busy("stats")
      /\ IF ~ Exists(data.deck) THEN Raise /\ UNCHANGED changed
         ELSE /\ Show([data EXCEPT !.total = Cardinality(IdsIn(data.deck))], Offers({}))
              /\ changed' = changed \ {"cards", "renamed"}
      /\ UNCHANGED <<decks, cards, cardSeq, elsewhere, walk>>

\* Faulty form of Earlier: the first page has one before it.
EarlierUnbounded(page) == page - 1

Earlier(page) == IF page = 0 THEN 0 ELSE page - 1

\* on_cards_page_prev, on_cards_page_next.  A second press may be handled when
\* the window no longer offers the button: its handler runs all the same,
\* and may pass by cards added to the page left since that page was shown.
PrevPage ==
  /\ In("view_cards") /\ (screen.prev \/ screen.next)
  /\ Render([dialog EXCEPT !.page = Earlier(@)])
  /\ UNCHANGED <<decks, cards, cardSeq, elsewhere, history>>
NextPage ==
  /\ In("view_cards") /\ (screen.prev \/ screen.next) /\ dialog.page < MaxCards
  /\ Render([dialog EXCEPT !.page = @ + 1])
  /\ walk' = IF screen.next THEN walk ELSE NoWalk
  /\ UNCHANGED <<decks, cards, cardSeq, elsewhere, changed>>

\* Faulty form of Selected: the first card selected remains selected.
SelectedOnce(k) ==
  [To("view_card") EXCEPT !.card = IF @ = 0 THEN k ELSE @, !.word = IF k \in Live THEN k ELSE @]

\* on_card_selected: the word is kept from an earlier card if this one is gone.
Selected(k) == [To("view_card") EXCEPT !.card = k, !.word = IF k \in Live THEN k ELSE @]

SelectCard(k) ==
  /\ In("view_cards") /\ k \in screen.items
  /\ AfterwardsRender(Selected(k))
  /\ UNCHANGED <<decks, cards, cardSeq, elsewhere, history>>

-----------------------------------------------------------------------------
(* Presses and messages that change something.                             *)

\* Decks, cards and history once the cards in gone are deleted.
Without(gone) ==
  /\ cards' = {row \in cards : row.id \notin gone}
  /\ changed' = IF gone = {} THEN changed ELSE changed \cup {"cards"}
  /\ walk' = IF IdsIn(walk.deck) \cap gone = {} THEN walk
             ELSE NoWalk

\* make_on_create_deck_name
CreateDeck(name) ==
  /\ In("create_deck") /\ Cardinality(DOMAIN decks) < MaxDecks
  /\ decks' = [d \in 1..(Cardinality(DOMAIN decks) + 1) |->
                 IF d \in DOMAIN decks THEN decks[d] ELSE name]
  /\ AfterwardsRender(To("list_decks"))
  /\ UNCHANGED <<cards, cardSeq, elsewhere, history>>

\* on_rename_deck: rename_deck, and get_deck_stats in GetStats.
Rename(name) ==
  /\ In("rename_deck")
  /\ IF ~ Exists(dialog.deck) THEN Raise /\ UNCHANGED <<decks, changed>>
     ELSE /\ decks' = [decks EXCEPT ![dialog.deck] = name]
          /\ handler' = [pc |-> "stats", data |-> [To("view_deck") EXCEPT !.name = name]]
          /\ changed' = (changed \ {"name"}) \cup {"renamed"}
          /\ UNCHANGED <<dialog, screen>>
  /\ UNCHANGED <<cards, cardSeq, elsewhere, walk>>

\* on_delete_deck: the cards go with their deck.
DeleteDeck ==
  /\ In("confirm_delete_deck")
  /\ IF ~ Exists(dialog.deck) THEN Raise /\ UNCHANGED <<decks, cards, history>>
     ELSE /\ decks' = [decks EXCEPT ![dialog.deck] = NoName]
          /\ Without(IdsIn(dialog.deck))
          /\ AfterwardsRender(To("list_decks"))
  /\ UNCHANGED <<cardSeq, elsewhere>>

\* on_reset_progress; what it resets is CardSchedule's.
ResetProgress ==
  /\ In("view_card")
  /\ IF dialog.card \in Live THEN AfterwardsRender(dialog) ELSE Raise
  /\ UNCHANGED <<decks, cards, cardSeq, elsewhere, history>>

\* on_delete_card
DeleteCard ==
  /\ In("confirm_delete_card")
  /\ IF dialog.card \notin Live THEN Raise /\ UNCHANGED <<cards, history>>
     ELSE Without({dialog.card}) /\ AfterwardsRender(To("view_cards"))
  /\ UNCHANGED <<decks, cardSeq, elsewhere>>

-----------------------------------------------------------------------------
(* The same user in other chats.                                           *)

Elsewhere ==
  /\ elsewhere < MaxElsewhere
  /\ elsewhere' = elsewhere + 1
  /\ UNCHANGED <<dialog, screen, handler>>

AddElsewhere(d) ==
  /\ Elsewhere
  /\ cardSeq < MaxCards
  /\ cardSeq' = cardSeq + 1
  /\ cards' = cards \cup {[id |-> cardSeq', deck |-> d]}
  /\ changed' = changed \cup {"cards"}
  /\ UNCHANGED <<decks, walk>>

DeleteElsewhere(k) == Elsewhere /\ Without({k}) /\ UNCHANGED <<decks, cardSeq>>

RenameElsewhere(d, name) ==
  /\ Elsewhere
  /\ decks' = [decks EXCEPT ![d] = name]
  /\ changed' = changed \cup {"name"}
  /\ UNCHANGED <<cards, cardSeq, walk>>

DropElsewhere(d) ==
  /\ Elsewhere
  /\ decks' = [decks EXCEPT ![d] = NoName]
  /\ Without(IdsIn(d))
  /\ UNCHANGED cardSeq

Next ==
  \/ OpenDecks \/ Leave \/ StartReview \/ GetStats \/ PrevPage \/ NextPage
  \/ GetterCall \/ GetPage \/ Fail
  \/ \E w \in Windows : Switch(w)
  \/ \E i \in screen.items : SelectDeck(i) \/ SelectCard(i)
  \/ \E name \in Names : CreateDeck(name) \/ Rename(name)
  \/ DeleteDeck \/ ResetProgress \/ DeleteCard
  \/ \E d \in Decks :
       \/ AddElsewhere(d) \/ DropElsewhere(d)
       \/ \E name \in Names : RenameElsewhere(d, name)
  \/ \E k \in Live : DeleteElsewhere(k)

Spec == Init /\ [][Next]_vars

-----------------------------------------------------------------------------

\* Who pages from the first page until none is offered has seen every card
\* counted for that last page, unless a card of the deck was deleted on the way
\* and moved others to pages already passed; cards added meanwhile only come at
\* the end.  And no page is empty unless the deck shrank between the count and
\* the page.
PagerReachesAll ==
  LET here == dialog.state = "view_cards" /\ walk.deck = dialog.deck /\ IdsIn(dialog.deck) # {}
  IN  /\ here /\ walk.whole /\ ~ screen.next => walk.counted \cap Live \subseteq walk.seen
      /\ here /\ ~ walk.torn /\ (screen.prev \/ screen.next) => screen.items # {}

\* A confirmed deletion deletes what the confirmation named: the card with that
\* word and no other, or the one deck opened.  That had the name shown, unless it
\* was renamed in another chat or a rename in this one failed once committed,
\* and as many cards as announced, unless cards were added or deleted, also in
\* this chat, since the deck was opened.
DeletesWhatItNamed ==
  [][LET gone == Live \ {row.id : row \in cards'}
         dropped == {d \in Decks : decks'[d] = NoName}
     IN  elsewhere' = elsewhere /\ (gone # {} \/ dropped # {}) =>
           \/ /\ dialog.state = "confirm_delete_card"
              /\ gone = {dialog.word} /\ dropped = {}
           \/ /\ dialog.state = "confirm_delete_deck"
              /\ dropped = {dialog.deck}
              /\ changed \cap {"name", "renamed"} = {} => decks[dialog.deck] = dialog.name
              /\ "cards" \notin changed => Cardinality(gone) = dialog.total]_vars
=============================================================================
