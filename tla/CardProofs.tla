----------------------------- MODULE CardProofs -----------------------------
(***************************************************************************)
(* Proofs about CardStore for any chats, users, words, names and bounds,   *)
(* and about CardSchedule for any chats, any ratings in 0..5 and any       *)
(* bounds.                                                                 *)
(*                                                                         *)
(* Of the tables: what a call has found out in one statement must still be *)
(* true, or do no harm, in a later one.  Cleared is what is left of the    *)
(* owner check, and OwnSelection is what stands in for the check that      *)
(* delete_card does not make.  Both survive because ids are never given    *)
(* out again.                                                              *)
(*                                                                         *)
(* Of the schedule of one row: the invariant that is inductive is          *)
(* ScheduleInv.  What CardSchedule claims of the row is claimed of every   *)
(* pending write too, because a pending write becomes the row without      *)
(* being looked at again.                                                  *)
(***************************************************************************)
EXTENDS CardStore, CardSchedule, TLAPS

\* Which call can be at which statement.
Staged ==
  \A c \in Chats :
    /\ pc[c] = "verify" => request[c].op \in {"add", "rename", "drop"}
    /\ pc[c] = "find" => request[c].op = "add"
    /\ pc[c] = "get" => request[c].op = "remove"

UniqueIds ==
  /\ \A a, b \in decks : a.id = b.id => a = b
  /\ \A a, b \in cards : a.id = b.id => a = b

\* Calls and contexts name only ids that were given out before.
IdsGivenOut ==
  \A c \in Chats :
    /\ selected[c] <= cardSeq
    /\ pc[c] # "idle" /\ request[c].op # "remove" => request[c].deck <= deckSeq
    /\ pc[c] # "idle" /\ request[c].op = "remove" => request[c].card <= cardSeq

\* A call past its owner check names a deck that is nobody else's.
Cleared ==
  \A c \in Chats :
    pc[c] \in {"find", "write"} /\ request[c].op # "remove" =>
      \A row \in decks : row.id = request[c].deck => row.owner = UserOf[c]

\* A card that a chat has selected, or is deleting, is in a deck of its user's.
OwnSelection ==
  \A c \in Chats : \A row \in cards :
    /\ row.id = selected[c] => Owned(c, row.deck)
    /\ pc[c] # "idle" /\ request[c].op = "remove" /\ row.id = request[c].card
         => Owned(c, row.deck)

Inv ==
  /\ TypeOK
  /\ UniqueWords
  /\ NoOrphans
  /\ Staged
  /\ UniqueIds
  /\ IdsGivenOut
  /\ Cleared
  /\ OwnSelection

-----------------------------------------------------------------------------
(* Facts about the calls.                                                  *)

\* A reply ends the call of one chat and leaves the others alone.
LEMMA ReplyEnds ==
  ASSUME Inv, NEW c \in Chats, NEW answer, Reply(c, answer),
         answer \in {"ok", "exists", "missing", "denied", "failed"}
  PROVE  /\ request' \in [Chats -> Requests \cup {NoRequest}]
         /\ pc' \in [Chats -> {"idle", "verify", "find", "get", "write"}]
         /\ reply' \in [Chats -> {"none", "ok", "exists", "missing", "denied", "failed"}]
         /\ pc'[c] = "idle" /\ request'[c] = NoRequest
         /\ \A d \in Chats : d # c => pc'[d] = pc[d] /\ request'[d] = request[d]
         /\ \A d \in Chats : request'[d] = NoRequest <=> pc'[d] = "idle"
BY DEF Reply, Inv, TypeOK

\* What Inv says of calls and contexts is kept when a chat's call ends and no
\* row appears or changes its deck or owner.
LEMMA EndKeeps ==
  ASSUME Inv, NEW c \in Chats, NEW answer, Reply(c, answer),
         answer \in {"ok", "exists", "missing", "denied", "failed"},
         UNCHANGED <<tables, selected>>
  PROVE  Inv'
<1>1. TypeOK'
  BY ReplyEnds DEF Inv, TypeOK, tables
<1>2. \A d \in Chats : pc'[d] # "idle" => d # c /\ pc'[d] = pc[d] /\ request'[d] = request[d]
  BY ReplyEnds
<1>3. UniqueWords' /\ NoOrphans' /\ UniqueIds'
  BY DEF Inv, tables, UniqueWords, NoOrphans, UniqueIds, Known
<1>4. Staged' /\ IdsGivenOut' /\ Cleared' /\ OwnSelection'
  BY <1>2 DEF Inv, tables, Staged, IdsGivenOut, Cleared, OwnSelection, Owned
<1> QED  BY <1>1, <1>3, <1>4 DEF Inv

LEMMA InitInv == Init => Inv
BY NoRequestAssumption, StoreAssumption
DEF Init, Inv, TypeOK, UniqueWords, NoOrphans, Staged, UniqueIds, IdsGivenOut, Cleared,
    OwnSelection, Requests

-----------------------------------------------------------------------------
(* One lemma per action.                                                   *)

\* A call begins with its owner check or, if it has none, with a card that is
\* the user's own.
LEMMA BeginInv ==
  ASSUME Inv, NEW c \in Chats, NEW r \in Requests, NEW first, Begin(c, r, first),
         \/ first = "verify" /\ r.op \in {"add", "rename", "drop"} /\ r.deck <= deckSeq
         \/ first = "get" /\ r.op = "remove" /\ r.card = selected[c]
  PROVE  Inv'
<1>1. /\ request' = [request EXCEPT ![c] = r] /\ pc' = [pc EXCEPT ![c] = first]
      /\ reply' = [reply EXCEPT ![c] = "none"]
      /\ UNCHANGED <<decks, cards, deckSeq, cardSeq, selected>>
      /\ first \in {"verify", "get"}
  BY DEF Begin, tables
<1>2. /\ request'[c] = r /\ pc'[c] = first
      /\ \A d \in Chats : d # c => pc'[d] = pc[d] /\ request'[d] = request[d]
  BY <1>1 DEF Inv, TypeOK
<1>3. r # NoRequest
  BY NoRequestAssumption
<1>4. TypeOK'
  BY <1>1, <1>2, <1>3 DEF Inv, TypeOK
<1>5. UniqueWords' /\ NoOrphans' /\ UniqueIds'
  BY <1>1 DEF Inv, UniqueWords, NoOrphans, UniqueIds, Known
<1>6. Staged' /\ Cleared'
  BY <1>1, <1>2 DEF Inv, Staged, Cleared
<1>7. IdsGivenOut' /\ OwnSelection'
  BY <1>1, <1>2 DEF Inv, IdsGivenOut, OwnSelection, Owned
<1> QED  BY <1>4, <1>5, <1>6, <1>7 DEF Inv

\* A call goes on to a later statement; past the owner check it is cleared.
LEMMA GoOnInv ==
  ASSUME Inv, NEW c \in Chats, NEW where, GoOn(c, where), pc[c] # "idle",
         UNCHANGED <<tables, selected>>,
         \/ where = "find" /\ request[c].op = "add" /\ Owned(c, request[c].deck)
         \/ /\ where = "write" /\ request[c].op # "remove"
            /\ Owned(c, request[c].deck) \/ pc[c] = "find"
         \/ where = "write" /\ request[c].op = "remove"
  PROVE  Inv'
<1>1. /\ pc' = [pc EXCEPT ![c] = where]
      /\ UNCHANGED <<decks, cards, deckSeq, cardSeq, selected, request, reply>>
      /\ where \in {"find", "write"}
  BY DEF GoOn, tables
<1>2. pc'[c] = where /\ \A d \in Chats : d # c => pc'[d] = pc[d]
  BY <1>1 DEF Inv, TypeOK
<1>3. TypeOK'
  BY <1>1, <1>2 DEF Inv, TypeOK
<1>4. UniqueWords' /\ NoOrphans' /\ UniqueIds'
  BY <1>1 DEF Inv, UniqueWords, NoOrphans, UniqueIds, Known
<1>5. Staged'
  BY <1>1, <1>2 DEF Inv, Staged
<1>6. IdsGivenOut' /\ OwnSelection'
  BY <1>1, <1>2 DEF Inv, IdsGivenOut, OwnSelection, Owned
<1>7. Cleared'
  <2>1. ASSUME request[c].op # "remove", NEW row \in decks, row.id = request[c].deck
        PROVE  row.owner = UserOf[c]
    <3>1. CASE Owned(c, request[c].deck)
      BY <2>1, <3>1 DEF Owned, Inv, UniqueIds
    <3>2. CASE pc[c] = "find"
      BY <2>1, <3>2 DEF Inv, Cleared
    <3> QED  BY <2>1, <3>1, <3>2
  <2> QED  BY <1>1, <1>2, <2>1 DEF Inv, Cleared
<1> QED  BY <1>3, <1>4, <1>5, <1>6, <1>7 DEF Inv

LEMMA CreateDeckInv ==
  ASSUME Inv, NEW c \in Chats, NEW n \in Names, CreateDeck(c, n)
  PROVE  Inv'
<1> DEFINE new == [id |-> deckSeq + 1, owner |-> UserOf[c], name |-> n]
<1>1. /\ decks' = decks \cup {new} /\ deckSeq' = deckSeq + 1
      /\ reply' = [reply EXCEPT ![c] = "ok"]
      /\ UNCHANGED <<cards, cardSeq, request, pc, selected>>
      /\ deckSeq \in Nat
      /\ \A row \in decks : row.id \in Nat /\ row.id <= deckSeq
  BY DEF CreateDeck, Inv, TypeOK, DeckRows
<1>. new \in DeckRows
  <2>1. UserOf[c] \in Users
    BY StoreAssumption
  <2> QED  BY <1>1, <2>1 DEF DeckRows
<1>2. \A row \in decks : row.id # new.id
  BY <1>1
<1>3. TypeOK'
  BY <1>1 DEF Inv, TypeOK
<1>4. UniqueWords' /\ NoOrphans' /\ UniqueIds'
  BY <1>1, <1>2 DEF Inv, UniqueWords, NoOrphans, UniqueIds, Known
<1>5. Staged'
  BY <1>1 DEF Inv, Staged
<1>6. IdsGivenOut'
  <2>1. ASSUME NEW d \in Chats, pc[d] # "idle", request[d].op # "remove"
        PROVE  request[d].deck \in Nat
    BY <2>1 DEF Inv, TypeOK, Requests
  <2> QED  BY <1>1, <2>1 DEF Inv, IdsGivenOut
<1>7. Cleared'
  <2>1. ASSUME NEW d \in Chats, pc[d] # "idle", request[d].op # "remove"
        PROVE  request[d].deck # new.id
    <3>1. request[d].deck \in Nat /\ request[d].deck <= deckSeq
      BY <2>1 DEF Inv, TypeOK, Requests, IdsGivenOut
    <3> QED  BY <1>1, <3>1
  <2> QED  BY <1>1, <2>1 DEF Inv, Cleared
<1>8. OwnSelection'
  BY <1>1 DEF Inv, OwnSelection, Owned
<1> QED  BY <1>3, <1>4, <1>5, <1>6, <1>7, <1>8 DEF Inv

LEMMA SelectCardInv ==
  ASSUME Inv, NEW c \in Chats, SelectCard(c)
  PROVE  Inv'
<1>1. PICK row \in cards : Owned(c, row.deck) /\ selected' = [selected EXCEPT ![c] = row.id]
  BY DEF SelectCard
<1>2. UNCHANGED <<decks, cards, deckSeq, cardSeq, request, pc, reply>>
  BY DEF SelectCard, tables
<1>3. row.id \in Nat /\ row.id <= cardSeq
  BY DEF Inv, TypeOK, CardRows
<1>4. TypeOK' /\ selected'[c] = row.id /\ \A d \in Chats : d # c => selected'[d] = selected[d]
  BY <1>1, <1>2, <1>3 DEF Inv, TypeOK
<1>5. UniqueWords' /\ NoOrphans' /\ UniqueIds' /\ Staged' /\ Cleared'
  BY <1>2 DEF Inv, UniqueWords, NoOrphans, UniqueIds, Staged, Cleared, Known
<1>6. IdsGivenOut'
  BY <1>2, <1>3, <1>4 DEF Inv, IdsGivenOut
<1>7. OwnSelection'
  BY <1>1, <1>2, <1>4 DEF Inv, OwnSelection, Owned, UniqueIds
<1> QED  BY <1>4, <1>5, <1>6, <1>7 DEF Inv

LEMMA VerifyInv ==
  ASSUME Inv, NEW c \in Chats, Verify(c)
  PROVE  Inv'
<1> DEFINE r == request[c]
<1>1. pc[c] = "verify" /\ UNCHANGED <<tables, selected>> /\ r.op \in {"add", "rename", "drop"}
  BY DEF Verify, Inv, Staged
<1>2. CASE Reply(c, "missing") \/ Reply(c, "denied")
  BY <1>1, <1>2, EndKeeps
<1>3. CASE Owned(c, r.deck) /\ GoOn(c, IF r.op = "add" THEN "find" ELSE "write")
  <2>1. CASE r.op = "add"
    BY <1>1, <1>3, <2>1, GoOnInv
  <2>2. CASE r.op # "add"
    BY <1>1, <1>3, <2>2, GoOnInv
  <2> QED  BY <2>1, <2>2
<1> QED  BY <1>2, <1>3 DEF Verify

LEMMA FindInv ==
  ASSUME Inv, NEW c \in Chats, Find(c)
  PROVE  Inv'
<1>1. pc[c] = "find" /\ UNCHANGED <<tables, selected>> /\ request[c].op = "add"
  BY DEF Find, Inv, Staged
<1>2. CASE Reply(c, "exists")
  BY <1>1, <1>2, EndKeeps
<1>3. CASE GoOn(c, "write")
  BY <1>1, <1>3, GoOnInv
<1> QED  BY <1>2, <1>3 DEF Find

LEMMA GetCardInv ==
  ASSUME Inv, NEW c \in Chats, GetCard(c)
  PROVE  Inv'
<1>1. pc[c] = "get" /\ UNCHANGED <<tables, selected>> /\ request[c].op = "remove"
  BY DEF GetCard, Inv, Staged
<1>2. CASE Reply(c, "missing")
  BY <1>1, <1>2, EndKeeps
<1>3. CASE GoOn(c, "write")
  BY <1>1, <1>3, GoOnInv
<1> QED  BY <1>2, <1>3 DEF GetCard

LEMMA AbortInv ==
  ASSUME Inv, NEW c \in Chats, Abort(c)
  PROVE  Inv'
BY EndKeeps DEF Abort

\* The two constraints decide at the moment of the insert, so what Find saw
\* does not matter; Cleared makes the new card one of the user's own.
LEMMA InsertInv ==
  ASSUME Inv, NEW c \in Chats, Insert(c)
  PROVE  Inv'
<1> DEFINE r == request[c]
           new == [id |-> cardSeq + 1, deck |-> r.deck, word |-> r.word]
<1>1. pc[c] = "write" /\ r.op = "add" /\ selected' = selected
  BY DEF Insert, At
<1>2. CASE Violates(r)
  BY <1>1, <1>2, EndKeeps DEF Insert
<1>3. CASE ~ Violates(r)
  <2>1. /\ cards' = cards \cup {new} /\ cardSeq' = cardSeq + 1 /\ Reply(c, "ok")
        /\ UNCHANGED <<decks, deckSeq>>
    BY <1>3 DEF Insert
  <2>2. Known(r.deck) /\ ~ HasWord(r.deck, r.word)
    BY <1>3 DEF Violates
  <2>3. r \in Requests /\ r.deck \in Nat /\ r.word \in Words
    BY <1>1 DEF Inv, TypeOK, Requests
  <2>4. /\ cardSeq \in Nat /\ new \in CardRows
        /\ \A row \in cards : row.id \in Nat /\ row.id <= cardSeq
    BY <2>3 DEF Inv, TypeOK, CardRows
  <2>5. \A row \in cards : row.id # new.id
    BY <2>4
  <2>6. \A d \in Chats : pc'[d] # "idle" => d # c /\ pc'[d] = pc[d] /\ request'[d] = request[d]
    BY <2>1, ReplyEnds
  <2>7. TypeOK'
    BY <1>1, <2>1, <2>4, ReplyEnds DEF Inv, TypeOK
  <2>8. UniqueWords' /\ NoOrphans' /\ UniqueIds'
    BY <2>1, <2>2, <2>5 DEF Inv, UniqueWords, NoOrphans, UniqueIds, Known, HasWord
  <2>9. Staged' /\ Cleared'
    BY <2>1, <2>6 DEF Inv, Staged, Cleared
  <2>10. \A d \in Chats : /\ selected[d] # new.id
                          /\ pc[d] # "idle" /\ request[d].op = "remove" => request[d].card # new.id
    <3>1. ASSUME NEW d \in Chats PROVE selected[d] # new.id
      BY <2>4 DEF Inv, TypeOK, IdsGivenOut
    <3>2. ASSUME NEW d \in Chats, pc[d] # "idle", request[d].op = "remove"
          PROVE  request[d].card # new.id
      <4>1. request[d].card \in Nat /\ request[d].card <= cardSeq
        BY <3>2 DEF Inv, TypeOK, Requests, IdsGivenOut
      <4> QED  BY <2>4, <4>1
    <3> QED  BY <3>1, <3>2
  <2>11. IdsGivenOut'
    <3>1. \A d \in Chats : selected[d] \in Nat
      BY DEF Inv, TypeOK
    <3>2. ASSUME NEW d \in Chats, pc[d] # "idle", request[d].op = "remove"
          PROVE  request[d].card \in Nat
      BY <3>2 DEF Inv, TypeOK, Requests
    <3> QED  BY <1>1, <2>1, <2>4, <2>6, <3>1, <3>2 DEF Inv, IdsGivenOut
  <2>12. OwnSelection'
    <3>1. SUFFICES ASSUME NEW d \in Chats, NEW row \in cards'
                   PROVE  /\ row.id = selected'[d] => Owned(d, row.deck)'
                          /\ pc'[d] # "idle" /\ request'[d].op = "remove" /\ row.id = request'[d].card
                               => Owned(d, row.deck)'
      BY DEF OwnSelection
    <3>2. Owned(d, row.deck)' <=> Owned(d, row.deck)
      BY <2>1 DEF Owned
    <3>3. CASE row = new
      <4>1. row.id # selected'[d]
        BY <1>1, <2>10, <3>3
      <4>2. pc'[d] # "idle" /\ request'[d].op = "remove" => row.id # request'[d].card
        BY <2>6, <2>10, <3>3
      <4> QED  BY <4>1, <4>2
    <3>4. CASE row \in cards
      BY <1>1, <2>6, <3>2, <3>4 DEF Inv, OwnSelection
    <3> QED  BY <2>1, <3>3, <3>4
  <2> QED  BY <2>7, <2>8, <2>9, <2>11, <2>12 DEF Inv
<1> QED  BY <1>2, <1>3

\* Renaming keeps ids and owners.
LEMMA UpdateNameInv ==
  ASSUME Inv, NEW c \in Chats, UpdateName(c)
  PROVE  Inv'
<1> DEFINE r == request[c]
           renamed(row) == IF row.id = r.deck THEN [row EXCEPT !.name = r.name] ELSE row
<1>1. /\ pc[c] = "write" /\ r.op = "rename" /\ UNCHANGED <<cards, deckSeq, cardSeq, selected>>
      /\ r.name \in Names
  BY DEF UpdateName, At, Inv, TypeOK, Requests
<1>2. CASE ~ Known(r.deck)
  BY <1>1, <1>2, EndKeeps DEF UpdateName, tables
<1>3. CASE Known(r.deck)
  <2>1. decks' = {renamed(row) : row \in decks} /\ Reply(c, "ok")
    BY <1>3 DEF UpdateName
  <2>2. \A row \in decks : /\ renamed(row) \in DeckRows
                           /\ renamed(row).id = row.id /\ renamed(row).owner = row.owner
    BY <1>1 DEF Inv, TypeOK, DeckRows
  <2> HIDE DEF renamed
  <2>3. \A d \in Chats : pc'[d] # "idle" => d # c /\ pc'[d] = pc[d] /\ request'[d] = request[d]
    BY <2>1, ReplyEnds
  <2>4. TypeOK'
    BY <1>1, <2>1, <2>2, ReplyEnds DEF Inv, TypeOK
  <2>5. /\ \A d : Known(d)' <=> Known(d)
        /\ \A e \in Chats : \A d : Owned(e, d)' <=> Owned(e, d)
    <3>1. ASSUME NEW d PROVE Known(d)' <=> Known(d)
      <4>1. (\E row \in decks' : row.id = d) <=> \E row \in decks : renamed(row).id = d
        BY <2>1
      <4> QED  BY <2>2, <4>1 DEF Known
    <3>2. ASSUME NEW e \in Chats, NEW d PROVE Owned(e, d)' <=> Owned(e, d)
      <4>1. (\E row \in decks' : row.id = d /\ row.owner = UserOf[e])
              <=> \E row \in decks : renamed(row).id = d /\ renamed(row).owner = UserOf[e]
        BY <2>1
      <4> QED  BY <2>2, <4>1 DEF Owned
    <3> QED  BY <3>1, <3>2
  <2>6. UniqueWords' /\ NoOrphans' /\ UniqueIds'
    BY <1>1, <2>1, <2>2, <2>5 DEF Inv, UniqueWords, NoOrphans, UniqueIds
  <2>7. Staged' /\ IdsGivenOut' /\ Cleared'
    BY <1>1, <2>1, <2>2, <2>3 DEF Inv, Staged, IdsGivenOut, Cleared
  <2>8. OwnSelection'
    BY <1>1, <2>3, <2>5 DEF Inv, OwnSelection
  <2> QED  BY <2>4, <2>6, <2>7, <2>8 DEF Inv
<1> QED  BY <1>2, <1>3

\* A deck takes its cards along; the decks and cards that stay are untouched.
LEMMA DeleteDeckInv ==
  ASSUME Inv, NEW c \in Chats, DeleteDeck(c)
  PROVE  Inv'
<1> DEFINE d == request[c].deck
<1>1. /\ decks' = {row \in decks : row.id # d} /\ cards' = {row \in cards : row.deck # d}
      /\ Reply(c, "ok") /\ UNCHANGED <<deckSeq, cardSeq, selected>>
  BY DEF DeleteDeck, WithoutDeck
<1> HIDE DEF d
<1>2. \A e \in Chats : pc'[e] # "idle" => e # c /\ pc'[e] = pc[e] /\ request'[e] = request[e]
  BY <1>1, ReplyEnds
<1>3. TypeOK'
  BY <1>1, ReplyEnds DEF Inv, TypeOK
<1>4. UniqueWords' /\ NoOrphans' /\ UniqueIds'
  BY <1>1 DEF Inv, UniqueWords, NoOrphans, UniqueIds, Known
<1>5. Staged' /\ IdsGivenOut' /\ Cleared'
  BY <1>1, <1>2 DEF Inv, Staged, IdsGivenOut, Cleared
<1>6. OwnSelection'
  BY <1>1, <1>2 DEF Inv, OwnSelection, Owned
<1> QED  BY <1>3, <1>4, <1>5, <1>6 DEF Inv

LEMMA DeleteCardInv ==
  ASSUME Inv, NEW c \in Chats, DeleteCard(c)
  PROVE  Inv'
<1>1. /\ cards' = {row \in cards : row.id # request[c].card} /\ Reply(c, "ok")
      /\ UNCHANGED <<decks, deckSeq, cardSeq, selected>>
  BY DEF DeleteCard
<1>2. \A e \in Chats : pc'[e] # "idle" => e # c /\ pc'[e] = pc[e] /\ request'[e] = request[e]
  BY <1>1, ReplyEnds
<1>3. TypeOK'
  BY <1>1, ReplyEnds DEF Inv, TypeOK
<1>4. UniqueWords' /\ NoOrphans' /\ UniqueIds'
  BY <1>1 DEF Inv, UniqueWords, NoOrphans, UniqueIds, Known
<1>5. Staged' /\ IdsGivenOut' /\ Cleared' /\ OwnSelection'
  BY <1>1, <1>2 DEF Inv, Staged, IdsGivenOut, Cleared, OwnSelection, Owned
<1> QED  BY <1>3, <1>4, <1>5 DEF Inv

LEMMA NextInv == Inv /\ [Next]_vars => Inv'
<1> SUFFICES ASSUME Inv, [Next]_vars PROVE Inv'
  OBVIOUS
<1>1. CASE UNCHANGED vars
  BY <1>1
  DEF vars, tables, Inv, TypeOK, UniqueWords, NoOrphans, Staged, UniqueIds, IdsGivenOut,
      Cleared, OwnSelection, Known, Owned
<1>2. ASSUME NEW c \in Chats, NEW n \in Names, CreateDeck(c, n) PROVE Inv'
  BY <1>2, CreateDeckInv
<1>3. ASSUME NEW c \in Chats, NEW d \in 1..deckSeq, NEW w \in Words, BeginAdd(c, d, w)
      PROVE  Inv'
  <2>1. [op |-> "add", deck |-> d, word |-> w] \in Requests /\ d <= deckSeq
    BY DEF Requests, Inv, TypeOK
  <2> QED  BY <1>3, <2>1, BeginInv DEF BeginAdd
<1>4. ASSUME NEW c \in Chats, NEW d \in 1..deckSeq, NEW n \in Names, BeginRename(c, d, n)
      PROVE  Inv'
  <2>1. [op |-> "rename", deck |-> d, name |-> n] \in Requests /\ d <= deckSeq
    BY DEF Requests, Inv, TypeOK
  <2> QED  BY <1>4, <2>1, BeginInv DEF BeginRename
<1>5. ASSUME NEW c \in Chats, NEW d \in 1..deckSeq, BeginDrop(c, d) PROVE Inv'
  <2>1. [op |-> "drop", deck |-> d] \in Requests /\ d <= deckSeq
    BY DEF Requests, Inv, TypeOK
  <2> QED  BY <1>5, <2>1, BeginInv DEF BeginDrop
<1>6. ASSUME NEW c \in Chats, BeginRemove(c) PROVE Inv'
  <2>1. [op |-> "remove", card |-> selected[c]] \in Requests
    BY DEF Requests, Inv, TypeOK
  <2> QED  BY <1>6, <2>1, BeginInv DEF BeginRemove
<1>7. ASSUME NEW c \in Chats, SelectCard(c) \/ Abort(c) PROVE Inv'
  BY <1>7, SelectCardInv, AbortInv
<1>8. ASSUME NEW c \in Chats, Verify(c) \/ Find(c) \/ GetCard(c) PROVE Inv'
  BY <1>8, VerifyInv, FindInv, GetCardInv
<1>9. ASSUME NEW c \in Chats,
             Insert(c) \/ UpdateName(c) \/ DeleteDeck(c) \/ DeleteCard(c)
      PROVE  Inv'
  BY <1>9, InsertInv, UpdateNameInv, DeleteDeckInv, DeleteCardInv
<1> QED  BY <1>1, <1>2, <1>3, <1>4, <1>5, <1>6, <1>7, <1>8, <1>9 DEF Next

\* The invariant of the tables holds in every reachable state: whatever a call
\* found out in one statement, other calls between its statements leave true.
THEOREM Invariance == Spec => []Inv
BY InitInv, NextInv, PTL DEF Spec

\* Tables, calls and contexts keep their types.
THEOREM TypeCorrect == Spec => []TypeOK
BY Invariance, PTL DEF Inv

\* No deck ever holds a word twice.
THEOREM WordsAreUnique == Spec => []UniqueWords
BY Invariance, PTL DEF Inv

\* No card ever outlives its deck.
THEOREM NoCardIsOrphaned == Spec => []NoOrphans
BY Invariance, PTL DEF Inv

\* The constraints of the schema hold of the tables in every state.
THEOREM ConstraintsAreKept == Spec => []ConstraintsKept
BY Invariance, PTL DEF Inv, ConstraintsKept

-----------------------------------------------------------------------------
(* Who acts on what.                                                       *)

\* What OwnersOnly says of one step.
ByOwner ==
  /\ \A row \in decks \ decks' : \E c \in Chats : request'[c] # request[c] /\ ActsFor(c, row.id)
  /\ \A row \in (cards \ cards') \cup (cards' \ cards) :
       \E c \in Chats : request'[c] # request[c] /\ ActsFor(c, row.deck)

LEMMA NextByOwner == Inv /\ [Next]_vars => ByOwner \/ UNCHANGED vars
<1> SUFFICES ASSUME Inv, Next PROVE ByOwner
  OBVIOUS
<1>1. ASSUME UNCHANGED tables PROVE ByOwner
  BY <1>1 DEF ByOwner, tables
<1>2. ASSUME NEW c \in Chats, NEW n \in Names, CreateDeck(c, n) PROVE ByOwner
  BY <1>2 DEF CreateDeck, ByOwner
<1>3. ASSUME NEW c \in Chats, NEW r, NEW first, Begin(c, r, first) PROVE ByOwner
  BY <1>1, <1>3 DEF Begin
<1>4. ASSUME NEW c \in Chats,
             SelectCard(c) \/ Abort(c) \/ Verify(c) \/ Find(c) \/ GetCard(c)
      PROVE  ByOwner
  BY <1>1, <1>4 DEF SelectCard, Abort, Verify, Find, GetCard
<1>5. ASSUME NEW c \in Chats, pc[c] # "idle", NEW answer, Reply(c, answer)
      PROVE  request'[c] # request[c]
  BY <1>5 DEF Reply, Inv, TypeOK
<1>6. ASSUME NEW c \in Chats, Insert(c) PROVE ByOwner
  <2> DEFINE r == request[c]
             new == [id |-> cardSeq + 1, deck |-> r.deck, word |-> r.word]
  <2>1. pc[c] = "write" /\ r.op = "add"
    BY <1>6 DEF Insert, At
  <2>2. CASE Violates(r)
    BY <1>1, <1>6, <2>2 DEF Insert
  <2>3. CASE ~ Violates(r)
    <3>1. cards' = cards \cup {new} /\ Reply(c, "ok") /\ decks' = decks /\ new.deck = r.deck
      BY <1>6, <2>3 DEF Insert
    <3>2. ActsFor(c, r.deck)
      BY <2>1, <2>3 DEF Violates, Known, ActsFor, Inv, Cleared
    <3>3. request'[c] # request[c]
      BY <1>5, <2>1, <3>1
    <3> QED  BY <3>1, <3>2, <3>3 DEF ByOwner
  <2> QED  BY <2>2, <2>3
<1>7. ASSUME NEW c \in Chats, UpdateName(c) PROVE ByOwner
  <2>1. pc[c] = "write" /\ request[c].op = "rename" /\ cards' = cards
    BY <1>7 DEF UpdateName, At
  <2>2. CASE ~ Known(request[c].deck)
    BY <1>7, <2>1, <2>2 DEF UpdateName, ByOwner
  <2>3. CASE Known(request[c].deck)
    <3>1. Reply(c, "ok") /\ \A row \in decks \ decks' : row.id = request[c].deck
      BY <1>7, <2>3 DEF UpdateName
    <3>2. ActsFor(c, request[c].deck)
      BY <2>1, <2>3 DEF Known, ActsFor, Inv, Cleared
    <3>3. request'[c] # request[c]
      BY <1>5, <2>1, <3>1
    <3> QED  BY <2>1, <3>1, <3>2, <3>3 DEF ByOwner
  <2> QED  BY <2>2, <2>3
<1>8. ASSUME NEW c \in Chats, DeleteDeck(c) PROVE ByOwner
  <2> DEFINE d == request[c].deck
  <2>1. /\ pc[c] = "write" /\ request[c].op = "drop" /\ Reply(c, "ok")
        /\ decks' = {row \in decks : row.id # d} /\ cards' = {row \in cards : row.deck # d}
    BY <1>8 DEF DeleteDeck, At, WithoutDeck
  <2>2. Known(d) => ActsFor(c, d)
    BY <2>1 DEF Known, ActsFor, Inv, Cleared
  <2>3. request'[c] # request[c]
    BY <1>5, <2>1
  <2>4. \A row \in decks \ decks' : row.id = d /\ Known(d)
    BY <2>1 DEF Known
  <2>5. \A row \in (cards \ cards') \cup (cards' \ cards) : row.deck = d /\ Known(d)
    BY <2>1 DEF Inv, NoOrphans
  <2> QED  BY <2>2, <2>3, <2>4, <2>5 DEF ByOwner
<1>9. ASSUME NEW c \in Chats, DeleteCard(c) PROVE ByOwner
  <2>1. /\ pc[c] = "write" /\ request[c].op = "remove" /\ Reply(c, "ok") /\ decks' = decks
        /\ cards' = {row \in cards : row.id # request[c].card}
    BY <1>9 DEF DeleteCard, At
  <2>2. \A row \in (cards \ cards') \cup (cards' \ cards) : ActsFor(c, row.deck)
    BY <2>1 DEF Inv, OwnSelection, Owned, ActsFor
  <2>3. request'[c] # request[c]
    BY <1>5, <2>1
  <2> QED  BY <2>1, <2>2, <2>3 DEF ByOwner
<1> QED
  BY <1>2, <1>3, <1>4, <1>6, <1>7, <1>8, <1>9
  DEF Next, BeginAdd, BeginRename, BeginDrop, BeginRemove

\* Decks and cards are changed by their owner's chats only.
THEOREM OwnersAlone == Spec => OwnersOnly
<1>1. Inv /\ [Next]_vars => [ByOwner]_vars
  BY NextByOwner
<1>2. OwnersOnly <=> [][ByOwner]_vars
  BY DEF OwnersOnly, ByOwner
<1> QED  BY <1>1, <1>2, Invariance, PTL DEF Spec

-----------------------------------------------------------------------------
(* CardStore implements Library.                                           *)

LEMMA InitImplements == Init => Promise!Init
BY DEF Init, Promise!Init

LEMMA NextImplements == Inv /\ [Next]_vars => [Promise!Next]_(Promise!vars)
<1> SUFFICES ASSUME Inv, [Next]_vars PROVE [Promise!Next]_(Promise!vars)
  OBVIOUS
<1> USE DEF Inv
<1>1. ASSUME UNCHANGED <<decks, cards, request, reply>>
      PROVE  [Promise!Next]_(Promise!vars)
  BY <1>1 DEF Promise!vars
<1>2. ASSUME NEW c \in Chats, NEW n \in Names, CreateDeck(c, n) PROVE Promise!NewDeck(c)
  <2> DEFINE new == [id |-> deckSeq + 1, owner |-> UserOf[c], name |-> n]
  <2>1. /\ decks' = decks \cup {new} /\ new.owner = UserOf[c] /\ new.id = deckSeq + 1
        /\ new \in decks'
    BY <1>2 DEF CreateDeck
  <2>2. \A row \in decks : row.id # new.id
    BY <2>1 DEF TypeOK, DeckRows
  <2>3. request[c] = NoRequest
    BY <1>2 DEF CreateDeck, TypeOK
  <2> HIDE DEF new
  <2> QED  BY <1>2, <2>1, <2>2, <2>3 DEF CreateDeck, Promise!NewDeck
<1>3. ASSUME NEW c \in Chats, NEW r \in Requests, NEW first, Begin(c, r, first)
      PROVE  Promise!Begin(c)
  <2>1. request[c] = NoRequest /\ request' = [request EXCEPT ![c] = r] /\ request'[c] = r
    BY <1>3 DEF Begin, TypeOK
  <2>2. r \in Promise!Requests
    BY DEF Requests, Promise!Requests
  <2> QED  BY <1>3, <2>1, <2>2 DEF Begin, tables, Promise!Begin
<1>4. ASSUME NEW c \in Chats, NEW answer, Reply(c, answer) PROVE Promise!Answer(c, answer)
  BY <1>4 DEF Reply, Promise!Answer
<1>5. ASSUME NEW c \in Chats, pc[c] # "idle" PROVE request[c] # NoRequest
  BY <1>5 DEF TypeOK
<1>6. ASSUME NEW c \in Chats, Verify(c)
      PROVE  Promise!Refuse(c) \/ UNCHANGED <<decks, cards, request, reply>>
  <2>1. /\ pc[c] = "verify" /\ UNCHANGED <<decks, cards>> /\ request[c] # NoRequest
        /\ request[c].op # "remove"
    BY <1>6, <1>5 DEF Verify, tables, Staged
  <2>2. CASE ~ Known(request[c].deck) /\ Reply(c, "missing")
    BY <2>1, <2>2, <1>4 DEF Promise!Refuse, Promise!Known, Known
  <2>3. CASE Known(request[c].deck) /\ ~ Owned(c, request[c].deck) /\ Reply(c, "denied")
    BY <2>1, <2>3, <1>4 DEF Promise!Refuse, Promise!Known, Known, Promise!Owned, Owned
  <2>4. CASE UNCHANGED <<request, reply>>
    BY <2>1, <2>4
  <2> QED  BY <1>6, <2>2, <2>3, <2>4 DEF Verify, GoOn
<1>7. ASSUME NEW c \in Chats, Find(c)
      PROVE  Promise!Refuse(c) \/ UNCHANGED <<decks, cards, request, reply>>
  <2>1. /\ UNCHANGED <<decks, cards>> /\ request[c] # NoRequest /\ request[c].op = "add"
    BY <1>7, <1>5 DEF Find, tables, Staged
  <2>2. CASE HasWord(request[c].deck, request[c].word)
    <3>1. Reply(c, "exists")
      BY <1>7, <2>2 DEF Find
    <3> QED  BY <2>1, <2>2, <3>1, <1>4 DEF Promise!Refuse, Promise!HasWord, HasWord
  <2>3. CASE ~ HasWord(request[c].deck, request[c].word)
    BY <1>7, <2>1, <2>3 DEF Find, GoOn
  <2> QED  BY <2>2, <2>3
<1>8. ASSUME NEW c \in Chats, GetCard(c)
      PROVE  Promise!Refuse(c) \/ UNCHANGED <<decks, cards, request, reply>>
  <2>1. /\ UNCHANGED <<decks, cards>> /\ request[c] # NoRequest /\ request[c].op = "remove"
    BY <1>8, <1>5 DEF GetCard, tables, Staged
  <2>2. CASE \A row \in cards : row.id # request[c].card
    <3>1. Reply(c, "missing")
      BY <1>8, <2>2 DEF GetCard
    <3> QED  BY <2>1, <2>2, <3>1, <1>4 DEF Promise!Refuse
  <2>3. CASE \E row \in cards : row.id = request[c].card
    BY <1>8, <2>1, <2>3 DEF GetCard, GoOn
  <2> QED  BY <2>2, <2>3
<1>9. ASSUME NEW c \in Chats, Abort(c) PROVE Promise!Refuse(c)
  BY <1>9, <1>4, <1>5 DEF Abort, tables, Promise!Refuse
<1>10. ASSUME NEW c \in Chats, Insert(c) PROVE Promise!Refuse(c) \/ Promise!Add(c)
  <2> DEFINE r == request[c]
             new == [id |-> cardSeq + 1, deck |-> r.deck, word |-> r.word]
  <2>1. pc[c] = "write" /\ r.op = "add" /\ r # NoRequest
    BY <1>10, <1>5 DEF Insert, At
  <2>2. CASE Violates(r)
    <3>1. Reply(c, "exists") /\ UNCHANGED <<decks, cards>>
      BY <1>10, <2>2 DEF Insert, tables
    <3>2. CASE ~ Known(r.deck)
      BY <2>1, <3>1, <3>2, <1>4 DEF Promise!Refuse, Promise!Known, Known
    <3>3. CASE HasWord(r.deck, r.word)
      BY <2>1, <3>1, <3>3, <1>4 DEF Promise!Refuse, Promise!HasWord, HasWord
    <3> QED  BY <2>2, <3>2, <3>3 DEF Violates
  <2>3. CASE ~ Violates(r)
    <3>1. /\ cards' = cards \cup {new} /\ Reply(c, "ok") /\ decks' = decks
          /\ new.deck = r.deck /\ new.word = r.word /\ new.id = cardSeq + 1 /\ new \in cards'
      BY <1>10, <2>3 DEF Insert
    <3>2. Promise!Owned(c, r.deck) /\ ~ Promise!HasWord(r.deck, r.word)
      BY <2>1, <2>3 DEF Violates, Known, HasWord, Promise!Owned, Promise!HasWord, Cleared
    <3>3. \A row \in cards : row.id # new.id
      BY <3>1 DEF TypeOK, CardRows
    <3> HIDE DEF new
    <3> QED  BY <2>1, <3>1, <3>2, <3>3, <1>4 DEF Promise!Add
  <2> QED  BY <2>2, <2>3
<1>11. ASSUME NEW c \in Chats, UpdateName(c) PROVE Promise!Refuse(c) \/ Promise!Rename(c)
  <2> DEFINE r == request[c]
  <2>1. pc[c] = "write" /\ r.op = "rename" /\ r # NoRequest /\ cards' = cards
    BY <1>11, <1>5 DEF UpdateName, At
  <2>2. CASE ~ Known(r.deck)
    BY <1>11, <2>1, <2>2, <1>4 DEF UpdateName, Promise!Refuse, Promise!Known, Known
  <2>3. CASE Known(r.deck)
    <3>1. Promise!Owned(c, r.deck)
      BY <2>1, <2>3 DEF Known, Promise!Owned, Cleared
    <3> QED  BY <1>11, <2>1, <2>3, <3>1, <1>4 DEF UpdateName, Promise!Rename
  <2> QED  BY <2>2, <2>3
<1>12. ASSUME NEW c \in Chats, DeleteDeck(c) PROVE Promise!Drop(c)
  <2> DEFINE r == request[c]
  <2>1. pc[c] = "write" /\ r.op = "drop" /\ r # NoRequest
    BY <1>12, <1>5 DEF DeleteDeck, At
  <2>2. Promise!Known(r.deck) => Promise!Owned(c, r.deck)
    BY <2>1 DEF Promise!Known, Promise!Owned, Cleared
  <2> QED  BY <1>12, <2>1, <2>2, <1>4 DEF DeleteDeck, WithoutDeck, Promise!Drop
<1>13. ASSUME NEW c \in Chats, DeleteCard(c) PROVE Promise!Remove(c)
  BY <1>13, <1>4, <1>5 DEF DeleteCard, At, Promise!Remove
<1>14. ASSUME NEW c \in Chats, SelectCard(c) PROVE UNCHANGED <<decks, cards, request, reply>>
  BY <1>14 DEF SelectCard, tables
<1>15. CASE UNCHANGED vars
  BY <1>1, <1>15 DEF vars
<1>16. ASSUME NEW c \in Chats, NEW d \in 1..deckSeq, NEW w \in Words, BeginAdd(c, d, w)
       PROVE  Promise!Begin(c)
  <2>1. [op |-> "add", deck |-> d, word |-> w] \in Requests
    BY DEF Requests, TypeOK
  <2> QED  BY <1>16, <2>1, <1>3 DEF BeginAdd
<1>17. ASSUME NEW c \in Chats, NEW d \in 1..deckSeq, NEW n \in Names, BeginRename(c, d, n)
       PROVE  Promise!Begin(c)
  <2>1. [op |-> "rename", deck |-> d, name |-> n] \in Requests
    BY DEF Requests, TypeOK
  <2> QED  BY <1>17, <2>1, <1>3 DEF BeginRename
<1>18. ASSUME NEW c \in Chats, NEW d \in 1..deckSeq, BeginDrop(c, d) PROVE Promise!Begin(c)
  <2>1. [op |-> "drop", deck |-> d] \in Requests
    BY DEF Requests, TypeOK
  <2> QED  BY <1>18, <2>1, <1>3 DEF BeginDrop
<1>19. ASSUME NEW c \in Chats, BeginRemove(c) PROVE Promise!Begin(c)
  <2>1. [op |-> "remove", card |-> selected[c]] \in Requests
    BY DEF Requests, TypeOK
  <2> QED  BY <1>19, <2>1, <1>3 DEF BeginRemove
<1> QED
  BY <1>1, <1>2, <1>6, <1>7, <1>8, <1>9, <1>10, <1>11, <1>12, <1>13, <1>14, <1>15, <1>16,
     <1>17, <1>18, <1>19
  DEF Next, Promise!Next

\* Every call takes effect at one instant, and its reply is true of it.
THEOREM Implements == Spec => ImplementsLibrary
<1>1. Init => Promise!Init
  BY InitImplements
<1>2. Inv /\ [Next]_vars => [Promise!Next]_(Promise!vars)
  BY NextImplements
<1> QED  BY <1>1, <1>2, Invariance, PTL DEF Spec, ImplementsLibrary, Promise!Spec

-----------------------------------------------------------------------------
(* The schedule of one card.                                               *)

\* What a pending rating owes to the row it read and to the history.
PendingSound(c) ==
  /\ pending[c].write.repetitions = NextRepetitions(pending[c].read.repetitions, pending[c].quality)
  /\ pending[c].write.repetitions <= started
  /\ pending[c].write.next <= today + pending[c].write.interval
  /\ card # NoRow /\ ~ raced => pending[c].read = card

ScheduleInv ==
  /\ ScheduleTypeOK
  /\ ScheduleWellFormed
  /\ PassLengthens
  /\ RepetitionsExact
  /\ RepetitionsEarned
  /\ DueWithinInterval
  /\ \A c \in OwnChats : ~ Idle(c) => PendingSound(c)

-----------------------------------------------------------------------------

\* SM2Service.calculate keeps the ease an integer at or above its floor.
LEMMA EaseFloor ==
  ASSUME NEW ease \in Nat, NEW q \in 0..5
  PROVE  NextEase(ease, q) \in Nat /\ NextEase(ease, q) >= MinEase
<1>1. EaseChange(q) \in Int
  <2>1. q \in {0, 1, 2, 3, 4, 5}
    OBVIOUS
  <2> QED  BY <2>1 DEF EaseChange
<1> QED  BY <1>1 DEF NextEase, MinEase

\* Rounding interval * ease to a whole day never loses the growth, once the
\* interval is at least the six days of the second pass.
LEMMA RoundedGrows ==
  ASSUME NEW interval \in Nat, NEW ease \in Nat,
         interval >= 6, ease >= MinEase,
         NEW n \in Rounded(interval, ease)
  PROVE  n \in Nat /\ n > interval
<1> DEFINE product == interval * ease
<1>1. product \in Nat /\ product >= interval * 130
  <2>1. PICK k \in Nat : ease = 130 + k
    <3>1. ease - 130 \in Nat /\ ease = 130 + (ease - 130)
      BY DEF MinEase
    <3> QED  BY <3>1
  <2>2. interval * ease = interval * 130 + interval * k /\ interval * k \in Nat
    BY <2>1
  <2> QED  BY <2>2
<1>2. n = (product + 50) \div 100 \/ n = (product + 49) \div 100
  BY DEF Rounded
<1> HIDE DEF product
<1>3. product + 49 >= (interval + 1) * 100
  BY <1>1
<1> QED  BY <1>1, <1>2, <1>3

\* What one rating does to the interval of a well-formed row.
LEMMA IntervalStep ==
  ASSUME NEW r \in Rows, WellFormed(r), NEW q \in 0..5,
         NEW n \in NextIntervals(r.interval, r.ease, r.repetitions, q)
  PROVE  /\ n \in Nat /\ n >= 1
         /\ Passed(q) => n >= r.interval
         /\ Passed(q) /\ r.repetitions = 0 => n = 1
         /\ Passed(q) /\ r.repetitions >= 1 => n >= 6
         /\ Passed(q) /\ r.repetitions >= 2 => n > r.interval
         /\ ~ Passed(q) => n = 1
<1> r.interval \in Nat /\ r.ease \in Nat /\ r.repetitions \in Nat
  BY DEF Rows
<1>1. CASE ~ Passed(q)
  BY <1>1 DEF NextIntervals
<1>2. CASE Passed(q) /\ r.repetitions = 0
  BY <1>2 DEF NextIntervals, WellFormed
<1>3. CASE Passed(q) /\ r.repetitions = 1
  BY <1>3 DEF NextIntervals, WellFormed
<1>4. CASE Passed(q) /\ r.repetitions >= 2
  <2>1. n \in Rounded(r.interval, r.ease)
    BY <1>4 DEF NextIntervals
  <2>2. r.interval >= 6 /\ r.ease >= MinEase
    BY <1>4 DEF WellFormed
  <2> QED  BY <1>4, <2>1, <2>2, RoundedGrows
<1> QED  BY <1>1, <1>2, <1>3, <1>4

\* A rating turns a well-formed row into a well-formed one.
LEMMA RescheduledSound ==
  ASSUME today \in Nat, NEW r \in Rows, WellFormed(r), NEW q \in 0..5,
         NEW w \in Rescheduled(r, q)
  PROVE  /\ w \in Rows
         /\ WellFormed(w)
         /\ w.repetitions = NextRepetitions(r.repetitions, q)
         /\ w.next = today + w.interval
         /\ Passed(q) => w.interval >= r.interval
         /\ Passed(q) /\ r.repetitions >= 2 => w.interval > r.interval
<1>1. PICK n \in NextIntervals(r.interval, r.ease, r.repetitions, q) :
        w = [ease |-> NextEase(r.ease, q), interval |-> n,
             repetitions |-> NextRepetitions(r.repetitions, q),
             next |-> today + n, isNew |-> FALSE]
  BY DEF Rescheduled
<1> r.interval \in Nat /\ r.ease \in Nat /\ r.repetitions \in Nat
  BY DEF Rows
<1>2. /\ n \in Nat /\ n >= 1
      /\ Passed(q) => n >= r.interval
      /\ Passed(q) /\ r.repetitions = 0 => n = 1
      /\ Passed(q) /\ r.repetitions >= 1 => n >= 6
      /\ Passed(q) /\ r.repetitions >= 2 => n > r.interval
      /\ ~ Passed(q) => n = 1
  BY IntervalStep
<1>3. NextEase(r.ease, q) \in Nat /\ NextEase(r.ease, q) >= MinEase
  BY EaseFloor
<1>4. /\ NextRepetitions(r.repetitions, q) \in Nat
      /\ Passed(q) => NextRepetitions(r.repetitions, q) = r.repetitions + 1
      /\ ~ Passed(q) => NextRepetitions(r.repetitions, q) = 0
  BY DEF NextRepetitions
<1>5. w \in Rows
  BY <1>1, <1>2, <1>3, <1>4 DEF Rows
<1>6. WellFormed(w)
  BY <1>1, <1>2, <1>3, <1>4 DEF WellFormed
<1> QED  BY <1>1, <1>2, <1>5, <1>6

\* A card just created, or just reset, is well formed and due at once.
LEMMA NewRowSound ==
  ASSUME today \in Nat
  PROVE  /\ NewRow \in Rows /\ NewRow # NoRow
         /\ WellFormed(NewRow)
         /\ NewRow.repetitions = 0
         /\ NewRow.next = today /\ NewRow.interval = 0
BY DEF NewRow, Rows, NoRow, WellFormed, MinEase, DefaultEase, DefaultInterval,
       DefaultRepetitions

\* A row and a pending rating are never confused with their absence.
LEMMA NeverConfused ==
  /\ NoRow \notin Rows
  /\ Nothing \notin Ratings
BY DEF NoRow, Rows, Nothing, Ratings

-----------------------------------------------------------------------------

\* A card just created.
LEMMA ScheduleInitInv == ScheduleInit => ScheduleInv
<1> SUFFICES ASSUME ScheduleInit PROVE ScheduleInv
  OBVIOUS
<1> USE DEF ScheduleInit
<1>1. today \in Nat /\ started \in Nat /\ passes \in Nat /\ raced \in BOOLEAN
  OBVIOUS
<1>2. card = NewRow /\ \A c \in OwnChats : Idle(c)
  BY DEF Idle
<1>3. ScheduleTypeOK
  BY <1>1, NewRowSound DEF ScheduleTypeOK
<1> QED
  BY <1>1, <1>2, <1>3, NewRowSound
  DEF ScheduleInv, ScheduleWellFormed, PassLengthens, RepetitionsExact, RepetitionsEarned,
      DueWithinInterval

\* The read step: the new pending write is well formed because the row it was
\* computed from is; the row itself does not change.
LEMMA ReviewReadInv ==
  ASSUME ScheduleInv, NEW c \in OwnChats, NEW q \in Qualities, ReviewRead(c, q)
  PROVE  ScheduleInv'
<1> USE DEF ScheduleInv
<1> DEFINE w == pending'[c].write
<1>0. /\ ScheduleTypeOK /\ card \in Rows /\ WellFormed(card) /\ q \in 0..5
      /\ UNCHANGED <<card, today, passes, raced>>
      /\ started \in Nat /\ started' = started + 1 /\ today \in Nat
  BY QualitiesAssumption DEF ReviewRead, ScheduleTypeOK, ScheduleWellFormed
<1>1. /\ w \in Rescheduled(card, q)
      /\ pending' = [pending EXCEPT ![c] = [read |-> card, write |-> w, quality |-> q]]
      /\ pending'[c] = [read |-> card, write |-> w, quality |-> q]
  BY <1>0 DEF ReviewRead, ScheduleTypeOK
<1> HIDE DEF w
<1>2. /\ w \in Rows
      /\ WellFormed(w)
      /\ w.repetitions = NextRepetitions(card.repetitions, q)
      /\ w.next = today + w.interval
      /\ Passed(q) => w.interval >= card.interval
      /\ Passed(q) /\ card.repetitions >= 2 => w.interval > card.interval
  BY <1>0, <1>1, RescheduledSound
<1>3. [read |-> card, write |-> w, quality |-> q] \in Ratings
  BY <1>0, <1>2 DEF Ratings
<1>4. ScheduleTypeOK'
  BY <1>0, <1>1, <1>3 DEF ScheduleTypeOK
<1>5. \A d \in OwnChats : d # c => pending'[d] = pending[d]
  BY <1>1, <1>0 DEF ScheduleTypeOK
<1>6. w.repetitions <= started'
  <2>1. card.repetitions \in Nat /\ card.repetitions <= started
    BY <1>0, NeverConfused DEF Rows, RepetitionsEarned
  <2> QED  BY <1>0, <1>2, <2>1 DEF NextRepetitions
<1>7. ScheduleWellFormed'
  BY <1>0, <1>1, <1>2, <1>5 DEF ScheduleWellFormed, Idle
<1>8. PassLengthens'
  BY <1>0, <1>1, <1>2, <1>5 DEF PassLengthens, Idle
<1>9. RepetitionsExact' /\ RepetitionsEarned' /\ DueWithinInterval'
  <2>1. card.repetitions \in Nat
    BY <1>0 DEF Rows
  <2> QED  BY <1>0, <2>1 DEF RepetitionsExact, RepetitionsEarned, DueWithinInterval
<1>10. \A d \in OwnChats : (~ Idle(d))' => PendingSound(d)'
  <2>1. PendingSound(c)'
    <3>1. pending'[c].read = card /\ pending'[c].write = w /\ pending'[c].quality = q
      BY <1>1
    <3>2. w.next <= today' + w.interval
      BY <1>0, <1>2 DEF Rows
    <3> QED  BY <1>0, <1>2, <1>6, <3>1, <3>2 DEF PendingSound
  <2>2. ASSUME NEW d \in OwnChats, d # c, pending[d] # Nothing
        PROVE  PendingSound(d)'
    <3>1. PendingSound(d) /\ pending[d].write.repetitions \in Nat
      BY <2>2 DEF Idle, ScheduleTypeOK, Ratings, Rows
    <3> QED  BY <1>0, <1>5, <2>2, <3>1 DEF PendingSound
  <2> QED  BY <2>1, <2>2, <1>5 DEF Idle
<1> QED  BY <1>4, <1>7, <1>8, <1>9, <1>10
\* The write step: a well-formed pending write becomes the row.  Whoever else
\* was pending read an older row, which is what raced' records.
LEMMA ReviewWriteInv ==
  ASSUME ScheduleInv, NEW c \in OwnChats, ReviewWrite(c)
  PROVE  ScheduleInv'
<1> USE DEF ScheduleInv
<1>0. /\ ScheduleTypeOK /\ ~ Idle(c) /\ UNCHANGED <<today, started>>
      /\ pending' = [pending EXCEPT ![c] = Nothing]
      /\ pending[c] \in Ratings /\ PendingSound(c)
      /\ WellFormed(pending[c].write)
  BY DEF ReviewWrite, ScheduleTypeOK, Idle, ScheduleWellFormed
<1>1. /\ pending'[c] = Nothing
      /\ \A d \in OwnChats : d # c => pending'[d] = pending[d]
  BY <1>0 DEF ScheduleTypeOK
<1>2. \A d \in OwnChats : (~ Idle(d))' => d # c /\ ~ Idle(d) /\ pending'[d] = pending[d]
  BY <1>1 DEF Idle
<1>3. CASE card = NoRow
  <2>1. UNCHANGED <<card, passes, raced>>
    BY <1>3 DEF ReviewWrite
  <2>2. ScheduleTypeOK'
    BY <1>0, <2>1 DEF ScheduleTypeOK
  <2>3. ScheduleWellFormed' /\ PassLengthens' /\ RepetitionsExact'
        /\ RepetitionsEarned' /\ DueWithinInterval'
    BY <1>2, <1>3, <2>1
    DEF ScheduleWellFormed, PassLengthens, RepetitionsExact, RepetitionsEarned, DueWithinInterval
  <2>4. \A d \in OwnChats : (~ Idle(d))' => PendingSound(d)'
    BY <1>0, <1>2, <1>3, <2>1 DEF PendingSound
  <2> QED  BY <2>2, <2>3, <2>4
<1>4. CASE card # NoRow
  <2>1. /\ card' = pending[c].write
        /\ passes' = IF Passed(pending[c].quality) THEN passes + 1 ELSE 0
        /\ raced' = (raced \/ OtherPending(c))
    BY <1>4 DEF ReviewWrite
  <2>2. /\ card' \in Rows /\ card' # NoRow /\ card \in Rows
        /\ pending[c].read \in Rows /\ passes \in Nat
    BY <1>0, <1>4, <2>1, NeverConfused DEF Ratings, ScheduleTypeOK
  <2>3. passes' \in Nat /\ raced' \in BOOLEAN
    BY <2>1, <2>2
  <2>4. ScheduleTypeOK'
    BY <1>0, <2>2, <2>3 DEF ScheduleTypeOK
  <2>5. ScheduleWellFormed' /\ PassLengthens'
    BY <1>0, <1>2, <2>1 DEF ScheduleWellFormed, PassLengthens
  <2>6. RepetitionsExact'
    <3>1. SUFFICES ASSUME ~ raced' PROVE card'.repetitions = passes'
      BY DEF RepetitionsExact
    <3>2. ~ raced /\ pending[c].read = card /\ card.repetitions = passes
      BY <1>0, <1>4, <2>1, <3>1 DEF PendingSound, RepetitionsExact
    <3>3. card'.repetitions = NextRepetitions(passes, pending[c].quality)
      BY <1>0, <2>1, <3>2 DEF PendingSound
    <3> QED  BY <2>1, <3>3 DEF NextRepetitions
  <2>7. RepetitionsEarned' /\ DueWithinInterval'
    BY <1>0, <2>1 DEF PendingSound, RepetitionsEarned, DueWithinInterval
  <2>8. \A d \in OwnChats : (~ Idle(d))' => PendingSound(d)'
    <3>1. SUFFICES ASSUME NEW d \in OwnChats, (~ Idle(d))' PROVE PendingSound(d)'
      OBVIOUS
    <3>2. d # c /\ ~ Idle(d) /\ pending'[d] = pending[d] /\ PendingSound(d)
      BY <1>2, <3>1
    <3>3. raced'
      BY <2>1, <3>2 DEF OtherPending
    <3> QED  BY <1>0, <3>2, <3>3 DEF PendingSound
  <2> QED  BY <2>4, <2>5, <2>6, <2>7, <2>8
<1> QED  BY <1>3, <1>4

\* A reset installs a new row under whatever ratings are pending.
LEMMA ResetProgressInv ==
  ASSUME ScheduleInv, NEW c \in OwnChats, ResetProgress(c)
  PROVE  ScheduleInv'
<1> USE DEF ScheduleInv
<1>1. /\ ScheduleTypeOK /\ Idle(c) /\ card # NoRow
      /\ card' = NewRow /\ passes' = 0 /\ raced' = (raced \/ OtherPending(c))
      /\ UNCHANGED <<today, pending, started>>
      /\ today \in Nat /\ started \in Nat
  BY DEF ResetProgress, ScheduleTypeOK
<1>2. /\ card' \in Rows /\ card' # NoRow /\ WellFormed(card')
      /\ card'.repetitions = 0 /\ card'.next = today /\ card'.interval = 0
  BY <1>1, NewRowSound
<1>3. ScheduleTypeOK'
  BY <1>1, <1>2 DEF ScheduleTypeOK
<1>4. ScheduleWellFormed' /\ PassLengthens'
  BY <1>1, <1>2 DEF ScheduleWellFormed, PassLengthens, Idle
<1>5. RepetitionsExact' /\ RepetitionsEarned' /\ DueWithinInterval'
  BY <1>1, <1>2 DEF RepetitionsExact, RepetitionsEarned, DueWithinInterval
<1>6. \A d \in OwnChats : (~ Idle(d))' => PendingSound(d)'
  <2>1. SUFFICES ASSUME NEW d \in OwnChats, (~ Idle(d))' PROVE PendingSound(d)'
    OBVIOUS
  <2>2. ~ Idle(d) /\ d # c /\ PendingSound(d)
    BY <1>1, <2>1 DEF Idle
  <2>3. raced'
    BY <1>1, <2>2 DEF OtherPending
  <2> QED  BY <1>1, <2>2, <2>3 DEF PendingSound
<1> QED  BY <1>3, <1>4, <1>5, <1>6

\* A deletion leaves the ratings pending that find no row.
LEMMA DeleteRowInv ==
  ASSUME ScheduleInv, NEW c \in OwnChats, DeleteRow(c)
  PROVE  ScheduleInv'
<1>1. /\ card' = NoRow /\ UNCHANGED <<today, pending, started, passes, raced>>
  BY DEF DeleteRow
<1>2. /\ ScheduleTypeOK' /\ ScheduleWellFormed' /\ PassLengthens'
      /\ RepetitionsExact' /\ RepetitionsEarned' /\ DueWithinInterval'
  BY <1>1
  DEF ScheduleInv, ScheduleTypeOK, ScheduleWellFormed, PassLengthens, RepetitionsExact,
      RepetitionsEarned, DueWithinInterval, Idle
<1>3. \A d \in OwnChats : (~ Idle(d))' => PendingSound(d)'
  BY <1>1 DEF ScheduleInv, PendingSound, Idle
<1> QED  BY <1>2, <1>3 DEF ScheduleInv

\* The clock only makes due dates nearer.
LEMMA NextDayInv ==
  ASSUME ScheduleInv, NextDay
  PROVE  ScheduleInv'
<1>1. /\ today' = today + 1 /\ UNCHANGED <<card, pending, started, passes, raced>>
      /\ today \in Nat /\ ScheduleTypeOK
  BY DEF NextDay, ScheduleInv, ScheduleTypeOK
<1>2. /\ ScheduleTypeOK' /\ ScheduleWellFormed' /\ PassLengthens'
      /\ RepetitionsExact' /\ RepetitionsEarned'
  BY <1>1
  DEF ScheduleInv, ScheduleTypeOK, ScheduleWellFormed, PassLengthens, RepetitionsExact,
      RepetitionsEarned, Idle
<1>3. DueWithinInterval'
  BY <1>1 DEF ScheduleInv, DueWithinInterval, ScheduleTypeOK, Rows
<1>4. \A d \in OwnChats : (~ Idle(d))' => PendingSound(d)'
  <2>1. SUFFICES ASSUME NEW d \in OwnChats, (~ Idle(d))' PROVE PendingSound(d)'
    OBVIOUS
  <2>2. ~ Idle(d) /\ PendingSound(d) /\ pending[d].write \in Rows
    BY <1>1, <2>1 DEF ScheduleInv, Idle, ScheduleTypeOK, Ratings
  <2> QED  BY <1>1, <2>2 DEF PendingSound, Rows
<1> QED  BY <1>2, <1>3, <1>4 DEF ScheduleInv

\* Every step keeps the invariant.
LEMMA ScheduleNextInv == ScheduleInv /\ [ScheduleNext]_scheduleVars => ScheduleInv'
<1> SUFFICES ASSUME ScheduleInv, [ScheduleNext]_scheduleVars PROVE ScheduleInv'
  OBVIOUS
<1>1. ASSUME NEW c \in OwnChats, NEW q \in Qualities, ReviewRead(c, q) PROVE ScheduleInv'
  BY <1>1, ReviewReadInv
<1>2. ASSUME NEW c \in OwnChats, ReviewWrite(c) PROVE ScheduleInv'
  BY <1>2, ReviewWriteInv
<1>3. ASSUME NEW c \in OwnChats, ResetProgress(c) PROVE ScheduleInv'
  BY <1>3, ResetProgressInv
<1>4. ASSUME NEW c \in OwnChats, DeleteRow(c) PROVE ScheduleInv'
  BY <1>4, DeleteRowInv
<1>5. CASE NextDay
  BY <1>5, NextDayInv
<1>6. CASE UNCHANGED scheduleVars
  BY <1>6
  DEF scheduleVars, ScheduleInv, ScheduleTypeOK, ScheduleWellFormed, PassLengthens,
      RepetitionsExact, RepetitionsEarned, DueWithinInterval, PendingSound, Idle
<1> QED  BY <1>1, <1>2, <1>3, <1>4, <1>5, <1>6 DEF ScheduleNext

\* The invariant of the schedule holds in every reachable state, whatever
\* ratings, resets and deletions come between the two steps of review_card.
THEOREM ScheduleInvariance == ScheduleSpec => []ScheduleInv
BY ScheduleInitInv, ScheduleNextInv, PTL DEF ScheduleSpec

\* Every variable keeps its type.
THEOREM ScheduleTypeCorrect == ScheduleSpec => []ScheduleTypeOK
BY ScheduleInvariance, PTL DEF ScheduleInv

\* SM-2's state is consistent in every reachable row and pending write.
THEOREM WellFormedSchedules == ScheduleSpec => []ScheduleWellFormed
BY ScheduleInvariance, PTL DEF ScheduleInv

\* A pass never shortens the interval it starts from, and from the third pass
\* in a row on it lengthens it, for every ease and interval a card can reach.
THEOREM PassesLengthen == ScheduleSpec => []PassLengthens
BY ScheduleInvariance, PTL DEF ScheduleInv

\* Only a write that lands inside another chat's rating can make a row count
\* its passes wrongly.
THEOREM RepetitionsAreExact == ScheduleSpec => []RepetitionsExact
BY ScheduleInvariance, PTL DEF ScheduleInv

\* Whatever is lost or undone, a row never records more passes than ratings.
THEOREM RepetitionsAreEarned == ScheduleSpec => []RepetitionsEarned
BY ScheduleInvariance, PTL DEF ScheduleInv

\* What a row's count of passes means, and what bounds it.
THEOREM RepetitionsAreSound == ScheduleSpec => []RepetitionsSound
BY ScheduleInvariance, PTL DEF ScheduleInv, RepetitionsSound

\* A card is never out of the review list for longer than its interval.
THEOREM DueDatesWithinInterval == ScheduleSpec => []DueWithinInterval
BY ScheduleInvariance, PTL DEF ScheduleInv
=============================================================================
