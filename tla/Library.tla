------------------------------- MODULE Library -------------------------------
(***************************************************************************)
(* What the deck and card services promise: every call takes effect at one *)
(* instant, in the tables as they are at that instant, and its reply tells *)
(* what happened.  A user can change only decks of their own, a deck never *)
(* holds a word twice, and a card never outlives its deck.                 *)
(***************************************************************************)
EXTENDS Naturals

CONSTANTS Chats, UserOf, Words, Names, NoRequest

VARIABLES
  decks,    \* rows [id, owner, name]
  cards,    \* rows [id, deck, word]
  request,  \* per chat: the call being served, or NoRequest
  reply     \* per chat: the reply to its last call

vars == <<decks, cards, request, reply>>

Requests ==
       [op : {"add"}, deck : Nat, word : Words]
  \cup [op : {"rename"}, deck : Nat, name : Names]
  \cup [op : {"drop"}, deck : Nat]
  \cup [op : {"remove"}, card : Nat]

Owned(c, d) == \E row \in decks : row.id = d /\ row.owner = UserOf[c]
Known(d) == \E row \in decks : row.id = d
HasWord(d, w) == \E row \in cards : row.deck = d /\ row.word = w

Init ==
  /\ decks = {} /\ cards = {}
  /\ request = [c \in Chats |-> NoRequest]
  /\ reply = [c \in Chats |-> "none"]

NewDeck(c) ==
  /\ request[c] = NoRequest
  /\ \E new \in decks' :
       /\ new.owner = UserOf[c] /\ \A row \in decks : row.id # new.id
       /\ decks' = decks \cup {new}
  /\ reply' = [reply EXCEPT ![c] = "ok"]
  /\ UNCHANGED <<cards, request>>

Begin(c) ==
  /\ request[c] = NoRequest
  /\ request'[c] \in Requests
  /\ request' = [request EXCEPT ![c] = request'[c]]
  /\ reply' = [reply EXCEPT ![c] = "none"]
  /\ UNCHANGED <<decks, cards>>

Answer(c, answer) ==
  /\ request' = [request EXCEPT ![c] = NoRequest]
  /\ reply' = [reply EXCEPT ![c] = answer]

\* A call that changes nothing: it failed, it names a deck or card that is
\* gone or a deck of someone else, or the word is there already.  "exists" is
\* also the reply when the deck itself has disappeared during the call.
Refuse(c) ==
  LET r == request[c]
  IN  /\ r # NoRequest
      /\ \/ Answer(c, "failed")
         \/ r.op # "remove" /\ ~ Known(r.deck) /\ Answer(c, "missing")
         \/ r.op # "remove" /\ Known(r.deck) /\ ~ Owned(c, r.deck) /\ Answer(c, "denied")
         \/ r.op = "add" /\ HasWord(r.deck, r.word) /\ Answer(c, "exists")
         \/ r.op = "add" /\ ~ Known(r.deck) /\ Answer(c, "exists")
         \/ r.op = "remove" /\ (\A row \in cards : row.id # r.card) /\ Answer(c, "missing")
      /\ UNCHANGED <<decks, cards>>

Add(c) ==
  LET r == request[c]
  IN  /\ r # NoRequest /\ r.op = "add"
      /\ Owned(c, r.deck) /\ ~ HasWord(r.deck, r.word)
      /\ \E new \in cards' :
           /\ new.deck = r.deck /\ new.word = r.word /\ \A row \in cards : row.id # new.id
           /\ cards' = cards \cup {new}
      /\ Answer(c, "ok")
      /\ UNCHANGED decks

Rename(c) ==
  LET r == request[c]
  IN  /\ r # NoRequest /\ r.op = "rename"
      /\ Owned(c, r.deck)
      /\ decks' = {IF row.id = r.deck THEN [row EXCEPT !.name = r.name] ELSE row : row \in decks}
      /\ Answer(c, "ok")
      /\ UNCHANGED cards

\* Dropping a deck that somebody else has just dropped succeeds, too.
Drop(c) ==
  LET r == request[c]
  IN  /\ r # NoRequest /\ r.op = "drop"
      /\ Known(r.deck) => Owned(c, r.deck)
      /\ decks' = {row \in decks : row.id # r.deck}
      /\ cards' = {row \in cards : row.deck # r.deck}
      /\ Answer(c, "ok")

Remove(c) ==
  LET r == request[c]
  IN  /\ r # NoRequest /\ r.op = "remove"
      /\ cards' = {row \in cards : row.id # r.card}
      /\ Answer(c, "ok")
      /\ UNCHANGED decks

Next ==
  \E c \in Chats :
    NewDeck(c) \/ Begin(c) \/ Refuse(c) \/ Add(c) \/ Rename(c) \/ Drop(c) \/ Remove(c)

Spec == Init /\ [][Next]_vars
=============================================================================
