------------------------------ MODULE CardStore ------------------------------
(***************************************************************************)
(* The decks and cards tables under concurrent calls of DeckService and    *)
(* CardService.  Every service method is one transaction (infra/db/uow.py) *)
(* at READ COMMITTED: it reads in separate statements and ends with at most *)
(* one write, which is decided by the rows and constraints of the moment of *)
(* the write.  So each read is a step, and write and commit are one step.  *)
(* The constraints are those of the schema: a card's (deck, word) is unique *)
(* and its deck exists, and deleting a deck deletes its cards.             *)
(***************************************************************************)
EXTENDS Naturals

CONSTANTS
  Chats, Users,
  UserOf,     \* the user a chat belongs to
  Words, Names,
  NoRequest,
  MaxDecks,   \* bound: decks ever created
  MaxCards    \* bound: cards created before no more calls to add one begin

ASSUME StoreAssumption ==
  /\ UserOf \in [Chats -> Users]
  /\ MaxDecks \in Nat /\ MaxCards \in Nat

VARIABLES
  decks,     \* rows [id, owner, name]
  cards,     \* rows [id, deck, word]
  deckSeq,   \* the last deck id given out
  cardSeq,   \* the last card id given out
  request,   \* per chat: the service call being served, or NoRequest
  pc,        \* per chat: the statement the call has come to
  reply,     \* per chat: the outcome of its last call
  selected   \* per chat: selected_card_id, the card opened in the deck dialog

tables == <<decks, cards, deckSeq, cardSeq>>
vars == <<decks, cards, deckSeq, cardSeq, request, pc, reply, selected>>

DeckRows == [id : Nat, owner : Users, name : Names]
CardRows == [id : Nat, deck : Nat, word : Words]

Requests ==
       [op : {"add"}, deck : Nat, word : Words]
  \cup [op : {"rename"}, deck : Nat, name : Names]
  \cup [op : {"drop"}, deck : Nat]
  \cup [op : {"remove"}, card : Nat]

ASSUME NoRequestAssumption == NoRequest \notin Requests

TypeOK ==
  /\ decks \subseteq DeckRows /\ cards \subseteq CardRows
  /\ deckSeq \in Nat /\ cardSeq \in Nat
  /\ \A row \in decks : row.id <= deckSeq
  /\ \A row \in cards : row.id <= cardSeq
  /\ request \in [Chats -> Requests \cup {NoRequest}]
  /\ pc \in [Chats -> {"idle", "verify", "find", "get", "write"}]
  /\ \A c \in Chats : request[c] = NoRequest <=> pc[c] = "idle"
  /\ reply \in [Chats -> {"none", "ok", "exists", "missing", "denied", "failed"}]
  /\ selected \in [Chats -> Nat]

Known(d) == \E row \in decks : row.id = d

\* Faulty form of Owned: any existing deck will do.
OwnedByAnyone(c, d) == Known(d)

Owned(c, d) == \E row \in decks : row.id = d /\ row.owner = UserOf[c]
HasWord(d, w) == \E row \in cards : row.deck = d /\ row.word = w

Init ==
  /\ decks = {} /\ cards = {} /\ deckSeq = 0 /\ cardSeq = 0
  /\ request = [c \in Chats |-> NoRequest]
  /\ pc = [c \in Chats |-> "idle"]
  /\ reply = [c \in Chats |-> "none"]
  /\ selected = [c \in Chats |-> 0]

-----------------------------------------------------------------------------
(* Calls and their outcomes.                                               *)

Begin(c, r, first) ==
  /\ pc[c] = "idle"
  /\ request' = [request EXCEPT ![c] = r]
  /\ pc' = [pc EXCEPT ![c] = first]
  /\ reply' = [reply EXCEPT ![c] = "none"]
  /\ UNCHANGED <<tables, selected>>

BeginAdd(c, d, w) ==
  cardSeq < MaxCards /\ Begin(c, [op |-> "add", deck |-> d, word |-> w], "verify")
BeginRename(c, d, n) == Begin(c, [op |-> "rename", deck |-> d, name |-> n], "verify")
BeginDrop(c, d) == Begin(c, [op |-> "drop", deck |-> d], "verify")
BeginRemove(c) ==
  selected[c] # 0 /\ Begin(c, [op |-> "remove", card |-> selected[c]], "get")

At(c, op, where) == pc[c] = where /\ request[c].op = op

\* Faulty form of Reply: the transaction is left open.
ReplyLeavesOpen(c, answer) ==
  /\ request' = [request EXCEPT ![c] = NoRequest]
  /\ reply' = [reply EXCEPT ![c] = answer]
  /\ UNCHANGED pc

Reply(c, answer) ==
  /\ request' = [request EXCEPT ![c] = NoRequest]
  /\ pc' = [pc EXCEPT ![c] = "idle"]
  /\ reply' = [reply EXCEPT ![c] = answer]

GoOn(c, where) ==
  /\ pc' = [pc EXCEPT ![c] = where]
  /\ UNCHANGED <<request, reply>>

\* The session is rolled back by an error or lost in a crash.
Abort(c) ==
  /\ pc[c] # "idle"
  /\ Reply(c, "failed")
  /\ UNCHANGED <<tables, selected>>

-----------------------------------------------------------------------------
(* The statements.                                                         *)

\* create_deck: a single INSERT.
CreateDeck(c, name) ==
  /\ pc[c] = "idle"
  /\ deckSeq < MaxDecks
  /\ decks' = decks \cup {[id |-> deckSeq + 1, owner |-> UserOf[c], name |-> name]}
  /\ deckSeq' = deckSeq + 1
  /\ reply' = [reply EXCEPT ![c] = "ok"]
  /\ UNCHANGED <<cards, cardSeq, request, pc, selected>>

\* on_card_selected: the card is one of a deck of this user's.
SelectCard(c) ==
  /\ pc[c] = "idle"
  /\ \E row \in cards : Owned(c, row.deck) /\ selected' = [selected EXCEPT ![c] = row.id]
  /\ UNCHANGED <<tables, request, pc, reply>>

\* _verify_deck_owner, the first statement of the calls that name a deck.
Verify(c) ==
  LET r == request[c]
  IN  /\ pc[c] = "verify"
      /\ \/ ~ Known(r.deck) /\ Reply(c, "missing")
         \/ Known(r.deck) /\ ~ Owned(c, r.deck) /\ Reply(c, "denied")
         \/ Owned(c, r.deck) /\ GoOn(c, IF r.op = "add" THEN "find" ELSE "write")
      /\ UNCHANGED <<tables, selected>>

\* create_card looks for the word before it inserts.
Find(c) ==
  LET r == request[c]
  IN  /\ pc[c] = "find"
      /\ IF HasWord(r.deck, r.word) THEN Reply(c, "exists") ELSE GoOn(c, "write")
      /\ UNCHANGED <<tables, selected>>

\* Faulty form of Violates: the foreign key alone, without the unique key.
ViolatesOnlyFK(r) == ~ Known(r.deck)

Violates(r) == ~ Known(r.deck) \/ HasWord(r.deck, r.word)

\* The INSERT of create_card.  Either constraint of the table raises
\* IntegrityError, which create_card turns into None: "the word exists".
Insert(c) ==
  LET r == request[c]
  IN  /\ At(c, "add", "write")
      /\ IF Violates(r)
         THEN Reply(c, "exists") /\ UNCHANGED tables
         ELSE /\ cards' = cards \cup {[id |-> cardSeq + 1, deck |-> r.deck, word |-> r.word]}
              /\ cardSeq' = cardSeq + 1
              /\ Reply(c, "ok")
              /\ UNCHANGED <<decks, deckSeq>>
      /\ UNCHANGED selected

\* rename_deck: UPDATE ... RETURNING, empty if the deck has gone.
UpdateName(c) ==
  LET r == request[c]
  IN  /\ At(c, "rename", "write")
      /\ IF ~ Known(r.deck) THEN Reply(c, "missing") /\ UNCHANGED decks
         ELSE /\ decks' = {IF row.id = r.deck THEN [row EXCEPT !.name = r.name] ELSE row
                             : row \in decks}
              /\ Reply(c, "ok")
      /\ UNCHANGED <<cards, deckSeq, cardSeq, selected>>

\* Faulty form of WithoutDeck: the cards are left behind.
WithoutDeckOnly(d) == cards

WithoutDeck(d) == {row \in cards : row.deck # d}

\* delete_deck; a deck that has gone since Verify matches no row, which is
\* not an error.
DeleteDeck(c) ==
  LET d == request[c].deck
  IN  /\ At(c, "drop", "write")
      /\ decks' = {row \in decks : row.id # d}
      /\ cards' = WithoutDeck(d)
      /\ Reply(c, "ok")
      /\ UNCHANGED <<deckSeq, cardSeq, selected>>

\* delete_card reads the row by primary key, then deletes it.
GetCard(c) ==
  /\ pc[c] = "get"
  /\ IF \E row \in cards : row.id = request[c].card
     THEN GoOn(c, "write") ELSE Reply(c, "missing")
  /\ UNCHANGED <<tables, selected>>

DeleteCard(c) ==
  /\ At(c, "remove", "write")
  /\ cards' = {row \in cards : row.id # request[c].card}
  /\ Reply(c, "ok")
  /\ UNCHANGED <<decks, deckSeq, cardSeq, selected>>

Next ==
  \E c \in Chats :
    \/ \E n \in Names : CreateDeck(c, n)
    \/ \E d \in 1..deckSeq :
         \/ \E w \in Words : BeginAdd(c, d, w)
         \/ \E n \in Names : BeginRename(c, d, n)
         \/ BeginDrop(c, d)
    \/ SelectCard(c) \/ BeginRemove(c) \/ Abort(c)
    \/ Verify(c) \/ Find(c) \/ Insert(c) \/ UpdateName(c)
    \/ DeleteDeck(c) \/ GetCard(c) \/ DeleteCard(c)

Spec == Init /\ [][Next]_vars

-----------------------------------------------------------------------------

UniqueWords == \A a, b \in cards : a.deck = b.deck /\ a.word = b.word => a = b
NoOrphans == \A row \in cards : Known(row.deck)

\* No deck holds a word twice, however many chats add it at once: create_card
\* looks first, but two chats may both look before either inserts.  And no card
\* outlives its deck, also when it is added while the deck goes.
ConstraintsKept == UniqueWords /\ NoOrphans

\* A deck is renamed or deleted, and a card created or deleted, only by a call
\* from a chat of the deck's owner.  delete_card does not verify the owner; it
\* is safe because a chat can only name a card it was shown in a deck of its
\* own, and ids are never given out again.
ActsFor(c, d) == \E row \in decks : row.id = d /\ row.owner = UserOf[c]
OwnersOnly ==
  [][/\ \A row \in decks \ decks' :
          \E c \in Chats : request'[c] # request[c] /\ ActsFor(c, row.id)
     /\ \A row \in (cards \ cards') \cup (cards' \ cards) :
          \E c \in Chats : request'[c] # request[c] /\ ActsFor(c, row.deck)]_vars

Promise == INSTANCE Library WITH decks <- decks, cards <- cards,
                                 request <- request, reply <- reply

\* Every call takes effect at one instant and its reply is true of that
\* instant: the checks made in earlier statements never decide wrongly.
ImplementsLibrary == Promise!Spec
=============================================================================
