-------------------------- MODULE DeckDialogProofs --------------------------
(***************************************************************************)
(* Proofs about DeckDialog for any number of decks, cards and changes made *)
(* elsewhere, and any size of a page.  What is stored of a deck and a card *)
(* (or under way to be stored) tells no more than what is still true of    *)
(* them (Sound); and who pages by the buttons offered has, before a page,  *)
(* seen all the cards that come before it (Complete).                      *)
(***************************************************************************)
EXTENDS DeckDialog, FiniteSetTheorems, FunctionTheorems, TLAPS

IdsOf(cs, d) == {row.id : row \in {r \in cs : r.deck = d}}
LiveOf(cs) == {row.id : row \in cs}

\* Windows that show or ask about one deck.
OfDeck(state) == state \notin {"outside", "list_decks", "create_deck"}

\* The pages before page p are full, and all their cards have been seen.
Complete(p, cs, w) ==
  LET ids == IdsOf(cs, w.deck)
  IN  /\ p * CardsPerPage <= Cardinality(ids)
      /\ \A k \in ids : Before(ids, k) < p * CardsPerPage => k \in w.seen

\* Data d over decks ds, cards cs with the last id n, changes ch and walk w: the
\* deck was there; a card that is not the word shown is gone for good.
Placed(d, ds, cs, n, w) ==
  /\ OfDeck(d.state) => d.deck \in DOMAIN ds
  /\ d.card # d.word => d.card \in 1..n /\ d.card \notin LiveOf(cs)
  /\ w.whole => Complete(d.page, cs, w)

Lives(ds, d) == d \in DOMAIN ds /\ ds[d] # NoName

\* And the deck's name and number of cards are true unless they were changed.
Sound(d, ds, cs, n, ch, w) ==
  /\ Placed(d, ds, cs, n, w)
  /\ OfDeck(d.state) /\ Lives(ds, d.deck) /\ ch \cap {"name", "renamed"} = {} =>
       ds[d.deck] = d.name
  /\ OfDeck(d.state) /\ Lives(ds, d.deck) /\ "cards" \notin ch =>
       d.total = Cardinality(IdsOf(cs, d.deck))

\* The cards counted for a page come before all that were added since.
CountSound(h, cs, n) ==
  LET ids == IdsOf(cs, h.data.deck)
  IN  /\ h.counted \subseteq 1..n /\ h.counted # {}
      /\ h.counted \cap LiveOf(cs) \subseteq ids
      /\ \A k \in ids \ h.counted, x \in h.counted : x < k
      /\ h.data.page < TotalPages(Cardinality(h.counted))

HandlerSound(h, ds, cs, n, ch, w) ==
  /\ h.pc = "render" => Sound(h.data, ds, cs, n, ch, w)
  /\ h.pc = "stats" =>
       /\ Placed(h.data, ds, cs, n, w) /\ h.data.state = "view_deck"
       /\ Lives(ds, h.data.deck) /\ "name" \notin ch => ds[h.data.deck] = h.data.name
  /\ h.pc = "page" =>
       /\ Sound(h.data, ds, cs, n, ch, w) /\ h.data.state = "view_cards"
       /\ CountSound(h, cs, n)

\* What the list of cards on screen, sc, tells of the cards and of the walk.
ListSound(d, sc, cs, n, w) ==
  d.state = "view_cards" =>
    /\ sc.items \subseteq 1..n
    /\ w.whole /\ sc.next => Complete(d.page + 1, cs, w)
    /\ w.whole /\ w.deck = d.deck /\ ~ sc.next => w.counted \subseteq w.seen
    /\ w.deck = d.deck /\ ~ w.torn /\ (sc.prev \/ sc.next) => sc.items # {}

\* A walk w over cards cs that is whole has missed no deletion.
WalkSound(w, cs) == w \in Walks /\ (w.whole => w.counted \subseteq IdsOf(cs, w.deck))

Inv ==
  /\ TypeOK /\ WalkSound(walk, cards)
  /\ Sound(dialog, decks, cards, cardSeq, changed, walk)
  /\ HandlerSound(handler, decks, cards, cardSeq, changed, walk)
  /\ ListSound(dialog, screen, cards, cardSeq, walk)

-----------------------------------------------------------------------------
(* Cards in the order of their ids.                                        *)

LEMMA Counting ==
  ASSUME NEW n \in Nat, NEW ids \in SUBSET (1..n)
  PROVE  /\ IsFiniteSet(ids) /\ Cardinality(ids) \in Nat /\ Cardinality(ids) <= n
         /\ ids # {} <=> Cardinality(ids) > 0
         /\ \A k \in ids : Before(ids, k) \in Nat /\ Before(ids, k) < Cardinality(ids)
<1>1. IsFiniteSet(1..n) /\ Cardinality(1..n) = n
  BY FS_Interval
<1>2. IsFiniteSet(ids) /\ Cardinality(ids) \in Nat /\ Cardinality(ids) <= n
  BY <1>1, FS_Subset, FS_CardinalityType
<1>3. ids # {} <=> Cardinality(ids) > 0
  BY <1>2, FS_EmptySet
<1>4. ASSUME NEW k \in ids PROVE Before(ids, k) \in Nat /\ Before(ids, k) < Cardinality(ids)
  <2> DEFINE B == {x \in ids : x < k}
             Others == ids \ {k}
  <2>1. B \in SUBSET Others
    OBVIOUS
  <2>2. IsFiniteSet(Others) /\ Cardinality(Others) = Cardinality(ids) - 1
    BY <1>2, FS_RemoveElement
  <2> HIDE DEF B, Others
  <2>3. IsFiniteSet(B) /\ Cardinality(B) <= Cardinality(ids) - 1
    BY <2>1, <2>2, FS_Subset
  <2>4. Cardinality(B) \in Nat
    BY <2>3, FS_CardinalityType
  <2>5. Before(ids, k) = Cardinality(B)
    BY DEF Before, B
  <2> QED
    BY <1>2, <2>3, <2>4, <2>5
<1> QED
  BY <1>2, <1>3, <1>4

\* Ids that come after all the others do not change the places of those.
LEMMA LaterIds ==
  ASSUME NEW n \in Nat, NEW ids \in SUBSET (1..n), NEW old \in SUBSET ids,
         \A k \in ids \ old, x \in old : x < k
  PROVE  /\ \A k \in old : Before(ids, k) = Before(old, k)
         /\ \A k \in ids \ old : Before(ids, k) >= Cardinality(old)
         /\ Cardinality(old) <= Cardinality(ids)
<1>1. ASSUME NEW k \in old PROVE {x \in ids : x < k} = {x \in old : x < k}
  <2>1. \A x \in ids : x \in Nat
    OBVIOUS
  <2>2. ASSUME NEW x \in ids, x < k PROVE x \in old
    BY <2>1, <2>2
  <2> QED
    BY <2>2
<1>2. ASSUME NEW k \in ids \ old PROVE Before(ids, k) >= Cardinality(old)
  <2>1. old \subseteq {x \in ids : x < k}
    OBVIOUS
  <2>2. IsFiniteSet({x \in ids : x < k})
    BY Counting, FS_Subset
  <2>3. Cardinality(old) <= Cardinality({x \in ids : x < k})
    BY <2>1, <2>2, FS_Subset
  <2>4. Cardinality(old) \in Nat /\ Cardinality({x \in ids : x < k}) \in Nat
    BY <2>1, <2>2, FS_Subset, FS_CardinalityType
  <2> QED
    BY <2>3, <2>4 DEF Before
<1>3. Cardinality(old) <= Cardinality(ids)
  BY Counting, FS_Subset
<1> QED
  BY <1>1, <1>2, <1>3 DEF Before

\* Every place up to the number of ids is taken.
LEMMA PlacesTaken ==
  ASSUME NEW n \in Nat, NEW ids \in SUBSET (1..n), NEW m \in Nat, m < Cardinality(ids)
  PROVE  \E k \in ids : Before(ids, k) = m
<1> DEFINE size == Cardinality(ids)
           P == [k \in ids |-> Before(ids, k)]
<1>1. IsFiniteSet(ids) /\ size \in Nat
      /\ \A k \in ids : Before(ids, k) \in 0..(size - 1)
  BY Counting
<1>2. ASSUME NEW j \in ids, NEW k \in ids, j < k PROVE Before(ids, j) < Before(ids, k)
  <2> DEFINE A == {x \in ids : x < j}
             B == {x \in ids : x < k}
  <2>1. j \notin A /\ A \cup {j} \subseteq B
    <3>1. \A x \in ids : x \in Nat
      OBVIOUS
    <3>2. j \notin A
      BY <3>1
    <3>3. \A x \in A : x \in B
      BY <1>2, <3>1
    <3> QED
      BY <1>2, <3>2, <3>3
  <2>2. IsFiniteSet(A) /\ IsFiniteSet(B)
    BY <1>1, FS_Subset
  <2>3. Before(ids, j) = Cardinality(A) /\ Before(ids, k) = Cardinality(B)
    BY DEF Before
  <2> HIDE DEF A, B
  <2>4. Cardinality(A \cup {j}) = Cardinality(A) + 1
    BY <2>1, <2>2, FS_AddElement
  <2>5. Cardinality(A \cup {j}) <= Cardinality(B)
    BY <2>1, <2>2, FS_Subset
  <2> QED
    BY <1>1, <2>3, <2>4, <2>5
<1>3. \A j, k \in ids : j # k => Before(ids, j) # Before(ids, k)
  <2>1. ASSUME NEW j \in ids, NEW k \in ids, j # k PROVE Before(ids, j) # Before(ids, k)
    <3>1. j < k \/ k < j
      BY <2>1
    <3>2. Before(ids, j) \in Nat /\ Before(ids, k) \in Nat
      BY <1>1
    <3> QED
      BY <1>2, <3>1, <3>2
  <2> QED
    BY <2>1
<1>4. P \in Injection(ids, 0..(size - 1))
  BY <1>1, <1>3 DEF Injection, IsInjective
<1>5. IsFiniteSet(0..(size - 1)) /\ Cardinality(0..(size - 1)) = size
  <2>1. 0 \in Int /\ size - 1 \in Int /\ size > 0 /\ size \in Nat
    BY <1>1
  <2> HIDE DEF size
  <2> QED
    BY <2>1, FS_Interval
<1>6. P \in Surjection(ids, 0..(size - 1))
  BY <1>4, <1>5, FS_Injection
<1>7. m \in 0..(size - 1)
  BY <1>1
<1> QED
  BY <1>6, <1>7 DEF Surjection

\* The pages hold the cards, and the last page is not empty.
LEMMA Pages ==
  ASSUME NEW n \in Nat
  PROVE  /\ TotalPages(n) \in Nat /\ n <= TotalPages(n) * CardsPerPage
         /\ n > 0 => TotalPages(n) > 0 /\ (TotalPages(n) - 1) * CardsPerPage < n
<1> DEFINE a == n + CardsPerPage - 1
           t == a \div CardsPerPage
           r == a % CardsPerPage
<1>1. CardsPerPage \in Nat /\ CardsPerPage > 0 /\ a \in Nat
  BY CardsPerPageAssumption
<1>2. t \in Nat /\ r \in 0..(CardsPerPage - 1) /\ a = CardsPerPage * t + r
  BY <1>1
<1>3. t = TotalPages(n)
  BY DEF TotalPages
<1> HIDE DEF t, r
<1>4. n <= t * CardsPerPage
  BY <1>1, <1>2
<1>5. n > 0 => t > 0
  BY <1>1, <1>2
<1>6. (t - 1) * CardsPerPage = CardsPerPage * t - CardsPerPage
  BY <1>1, <1>2
<1> QED
  BY <1>1, <1>2, <1>3, <1>4, <1>5, <1>6

LEMMA PageOrder ==
  ASSUME NEW p \in Nat, NEW q \in Nat, p <= q
  PROVE  /\ p * CardsPerPage \in Nat /\ p * CardsPerPage <= q * CardsPerPage
         /\ (p + 1) * CardsPerPage = p * CardsPerPage + CardsPerPage
<1>1. CardsPerPage \in Nat
  BY CardsPerPageAssumption
<1>2. p * CardsPerPage \in Nat /\ (p + 1) * CardsPerPage = p * CardsPerPage + CardsPerPage
  BY <1>1
<1>3. PICK d \in Nat : q = p + d
  <2>1. q - p \in Nat /\ q = p + (q - p)
    OBVIOUS
  <2> QED
    BY <2>1
<1>4. q * CardsPerPage = p * CardsPerPage + d * CardsPerPage /\ d * CardsPerPage \in Nat
  BY <1>1, <1>3
<1> QED
  BY <1>2, <1>4

-----------------------------------------------------------------------------
(* The rows and what is known of them.                                     *)

LEMMA SameNames ==
  /\ \A d : IdsIn(d) = IdsOf(cards, d) /\ (Exists(d) <=> Lives(decks, d))
  /\ Live = LiveOf(cards)
BY DEF IdsIn, IdsOf, Exists, Lives, Live, LiveOf

LEMMA Basics ==
  ASSUME TypeOK
  PROVE  /\ cardSeq \in Nat /\ MaxCards \in Nat /\ MaxDecks \in Nat /\ cardSeq <= MaxCards
         /\ LiveOf(cards) \subseteq 1..cardSeq
         /\ \A d : IdsOf(cards, d) \subseteq 1..cardSeq /\ IdsOf(cards, d) \subseteq LiveOf(cards)
         /\ IdsOf(cards, 0) = {}
         /\ DOMAIN decks \subseteq 1..MaxDecks /\ \A d \in DOMAIN decks : d # 0
         /\ \A d \in DOMAIN decks : decks[d] \in Names \cup {NoName}
<1>1. PICK n \in 0..MaxDecks : decks \in [1..n -> Names \cup {NoName}]
  BY DEF TypeOK
<1>2. /\ cardSeq \in Nat /\ MaxCards \in Nat /\ MaxDecks \in Nat /\ cardSeq <= MaxCards
  BY BoundsAssumption DEF TypeOK
<1>3. DOMAIN decks = 1..n /\ DOMAIN decks \subseteq 1..MaxDecks
      /\ \A d \in DOMAIN decks : d # 0 /\ decks[d] \in Names \cup {NoName}
  BY <1>1, <1>2
<1>4. \A row \in cards : row.id \in 1..cardSeq /\ row.deck \in DOMAIN decks
  BY DEF TypeOK
<1> QED
  BY <1>2, <1>3, <1>4 DEF LiveOf, IdsOf

\* What is known of the data does not depend on the window, as long as it is
\* one of the same deck.
LEMMA OtherWindow ==
  ASSUME NEW d, NEW e, NEW ds, NEW cs, NEW n, NEW ch, NEW w,
         e.deck = d.deck, e.name = d.name, e.total = d.total, e.page = d.page,
         e.card = d.card, e.word = d.word, OfDeck(e.state) => OfDeck(d.state),
         Sound(d, ds, cs, n, ch, w)
  PROVE  Sound(e, ds, cs, n, ch, w)
BY DEF Sound, Placed

LEMMA Variants ==
  ASSUME NEW d \in Dialogs, NEW st \in Windows
  PROVE  LET e == [d EXCEPT !.state = st]
         IN  /\ e \in Dialogs /\ e.state = st /\ e.deck = d.deck /\ e.name = d.name
             /\ e.total = d.total /\ e.page = d.page /\ e.card = d.card /\ e.word = d.word
BY DEF Dialogs

LEMMA Fields ==
  ASSUME NEW d \in Dialogs
  PROVE  /\ d.state \in Windows /\ d.deck \in 0..MaxDecks /\ d.name \in Names \cup {NoName}
         /\ d.total \in 0..MaxCards /\ d.page \in 0..MaxCards /\ d.page \in Nat
         /\ d.card \in 0..MaxCards /\ d.word \in 0..MaxCards
BY DEF Dialogs

\* Who has not walked from the first page is not known to have seen anything.
LEMMA Forgets ==
  ASSUME NEW d, NEW h, NEW sc, NEW ds, NEW cs, NEW n, NEW ch, NEW w
  PROVE  /\ Placed(d, ds, cs, n, w) => Placed(d, ds, cs, n, NoWalk)
         /\ Sound(d, ds, cs, n, ch, w) => Sound(d, ds, cs, n, ch, NoWalk)
         /\ HandlerSound(h, ds, cs, n, ch, w) => HandlerSound(h, ds, cs, n, ch, NoWalk)
         /\ ListSound(d, sc, cs, n, w) /\ d.deck # 0 => ListSound(d, sc, cs, n, NoWalk)
<1>1. NoWalk.whole = FALSE /\ NoWalk.deck = 0
  BY DEF NoWalk
<1>2. Placed(d, ds, cs, n, w) => Placed(d, ds, cs, n, NoWalk)
  BY <1>1 DEF Placed
<1>3. Sound(d, ds, cs, n, ch, w) => Sound(d, ds, cs, n, ch, NoWalk)
  BY <1>2 DEF Sound
<1>4. HandlerSound(h, ds, cs, n, ch, w) => HandlerSound(h, ds, cs, n, ch, NoWalk)
  BY <1>1 DEF HandlerSound, Sound, Placed
<1>5. ListSound(d, sc, cs, n, w) /\ d.deck # 0 => ListSound(d, sc, cs, n, NoWalk)
  BY <1>1 DEF ListSound
<1> QED
  BY <1>2, <1>3, <1>4, <1>5

\* A card is added: it comes after all the others.
LEMMA CardAdded ==
  ASSUME NEW d, NEW h, NEW sc, NEW ds, NEW n \in Nat, NEW ch, NEW w, NEW cs, NEW deck,
         LiveOf(cs) \subseteq 1..n, d.page \in Nat, h.pc # "idle" => h.data.page \in Nat
  PROVE  LET more == cs \cup {[id |-> n + 1, deck |-> deck]}
             known == ch \cup {"cards"}
         IN  /\ \A p \in Nat : Complete(p, cs, w) => Complete(p, more, w)
             /\ Sound(d, ds, cs, n, ch, w) => Sound(d, ds, more, n + 1, known, w)
             /\ HandlerSound(h, ds, cs, n, ch, w) => HandlerSound(h, ds, more, n + 1, known, w)
             /\ ListSound(d, sc, cs, n, w) => ListSound(d, sc, more, n + 1, w)
             /\ \A x : IdsOf(cs, x) \subseteq IdsOf(more, x)
<1> DEFINE new == [id |-> n + 1, deck |-> deck]
           more == cs \cup {new}
           known == ch \cup {"cards"}
<1>1. /\ LiveOf(more) = LiveOf(cs) \cup {n + 1}
      /\ \A x : IdsOf(more, x) = IF x = deck THEN IdsOf(cs, x) \cup {n + 1} ELSE IdsOf(cs, x)
      /\ \A x : IdsOf(cs, x) \subseteq 1..n
  <2>1. new.id = n + 1 /\ new.deck = deck
    OBVIOUS
  <2> HIDE DEF new
  <2>2. LiveOf(more) = LiveOf(cs) \cup {n + 1}
    BY <2>1 DEF LiveOf
  <2>3. \A x : IdsOf(more, x) = IF x = deck THEN IdsOf(cs, x) \cup {n + 1} ELSE IdsOf(cs, x)
    BY <2>1 DEF IdsOf
  <2>4. \A x : IdsOf(cs, x) \subseteq LiveOf(cs)
    BY DEF LiveOf, IdsOf
  <2> QED
    BY <2>2, <2>3, <2>4
<1> HIDE DEF more
<1>2. ASSUME NEW p \in Nat, Complete(p, cs, w) PROVE Complete(p, more, w)
  <2> DEFINE old == IdsOf(cs, w.deck)
             ids == IdsOf(more, w.deck)
  <2>1. /\ ids \in SUBSET (1..(n + 1)) /\ old \in SUBSET ids /\ n + 1 \in Nat
        /\ old \in SUBSET (1..n)
        /\ \A k \in ids \ old, x \in old : x < k
    BY <1>1
  <2>2. p * CardsPerPage <= Cardinality(old)
        /\ \A k \in old : Before(old, k) < p * CardsPerPage => k \in w.seen
    BY <1>2 DEF Complete
  <2> HIDE DEF old, ids
  <2>3. /\ \A k \in old : Before(ids, k) = Before(old, k)
        /\ \A k \in ids \ old : Before(ids, k) >= Cardinality(old)
        /\ Cardinality(old) <= Cardinality(ids)
    BY <2>1, LaterIds
  <2>4. p * CardsPerPage \in Nat
    BY PageOrder
  <2>6. Cardinality(old) \in Nat
    BY <2>1, Counting
  <2>7. Cardinality(ids) \in Nat /\ \A k \in ids : Before(ids, k) \in Nat
    BY <2>1, Counting
  <2>5. \A k \in ids : Before(ids, k) < p * CardsPerPage => k \in w.seen
    BY <2>2, <2>3, <2>4, <2>6, <2>7
  <2>8. p * CardsPerPage <= Cardinality(ids)
    BY <2>2, <2>3, <2>4, <2>6, <2>7
  <2> QED
    BY <2>5, <2>8 DEF Complete, ids, old
<1>3. ASSUME NEW e, e.page \in Nat, Placed(e, ds, cs, n, w) PROVE Placed(e, ds, more, n + 1, w)
  <2>1. e.card \in 1..n /\ e.card \notin LiveOf(cs) =>
          e.card \in 1..(n + 1) /\ e.card \notin LiveOf(more)
    BY <1>1
  <2> QED
    BY <1>2, <1>3, <2>1 DEF Placed
<1>4. ASSUME NEW e, e.page \in Nat, Sound(e, ds, cs, n, ch, w)
      PROVE  Sound(e, ds, more, n + 1, known, w)
  BY <1>3, <1>4 DEF Sound
<1>5. ASSUME HandlerSound(h, ds, cs, n, ch, w) PROVE HandlerSound(h, ds, more, n + 1, known, w)
  <2>1. ASSUME CountSound(h, cs, n) PROVE CountSound(h, more, n + 1)
    BY <1>1, <2>1 DEF CountSound
  <2> QED
    BY <1>3, <1>4, <1>5, <2>1 DEF HandlerSound
<1>6. ASSUME ListSound(d, sc, cs, n, w) PROVE ListSound(d, sc, more, n + 1, w)
  BY <1>2, <1>6 DEF ListSound
<1> QED
  BY <1>1, <1>2, <1>4, <1>5, <1>6 DEF more

\* Cards are deleted: a walk that they belong to is over.
Lacking(cs, gone) == {row \in cs : row.id \notin gone}
Noted(ch, gone) == IF gone = {} THEN ch ELSE ch \cup {"cards"}
Walked(w, cs, gone) == IF IdsOf(cs, w.deck) \cap gone = {} THEN w ELSE NoWalk

LEMMA CardsGone ==
  ASSUME NEW d, NEW h, NEW sc, NEW ds, NEW n \in Nat, NEW ch, NEW w, NEW cs, NEW gone
  PROVE  LET less == Lacking(cs, gone)
             known == Noted(ch, gone)
             walked == Walked(w, cs, gone)
         IN  /\ Sound(d, ds, cs, n, ch, w) => Sound(d, ds, less, n, known, walked)
             /\ HandlerSound(h, ds, cs, n, ch, w) => HandlerSound(h, ds, less, n, known, walked)
             /\ ListSound(d, sc, cs, n, w) /\ d.deck # 0 => ListSound(d, sc, less, n, walked)
             /\ (w.whole => w.counted \subseteq IdsOf(cs, w.deck)) =>
                  (walked.whole => walked.counted \subseteq IdsOf(less, walked.deck))
             /\ LiveOf(less) = LiveOf(cs) \ gone
<1> DEFINE less == Lacking(cs, gone)
           known == Noted(ch, gone)
           walked == Walked(w, cs, gone)
<1>1. /\ LiveOf(less) = LiveOf(cs) \ gone
      /\ \A x : IdsOf(less, x) = IdsOf(cs, x) \ gone
      /\ gone = {} => less = cs
  BY DEF LiveOf, IdsOf, Lacking
<1>2. NoWalk.whole = FALSE /\ NoWalk.deck = 0
  BY DEF NoWalk
<1> HIDE DEF less
<1>3. walked.whole => walked = w /\ IdsOf(less, w.deck) = IdsOf(cs, w.deck)
  BY <1>1, <1>2 DEF Walked
<1>4. walked.deck = w.deck \/ walked.deck = 0
  BY <1>2 DEF Walked
<1>5. walked.deck # 0 => walked = w
  BY <1>2 DEF Walked
<1> HIDE DEF walked, known
<1>6. ASSUME NEW p, walked.whole, Complete(p, cs, w) PROVE Complete(p, less, walked)
  BY <1>3, <1>6 DEF Complete
<1>7. ASSUME NEW e, Placed(e, ds, cs, n, w) PROVE Placed(e, ds, less, n, walked)
  BY <1>1, <1>3, <1>6, <1>7 DEF Placed
<1>8. ASSUME NEW e, Sound(e, ds, cs, n, ch, w) PROVE Sound(e, ds, less, n, known, walked)
  <2>1. CASE gone = {}
    BY <1>1, <1>7, <1>8, <2>1 DEF Sound, Noted, known
  <2>2. CASE gone # {}
    BY <1>7, <1>8, <2>2 DEF Sound, Noted, known
  <2> QED
    BY <2>1, <2>2
<1>9. ASSUME HandlerSound(h, ds, cs, n, ch, w) PROVE HandlerSound(h, ds, less, n, known, walked)
  <2>1. ASSUME CountSound(h, cs, n) PROVE CountSound(h, less, n)
    BY <1>1, <2>1 DEF CountSound
  <2>2. ("name" \notin known => "name" \notin ch) /\ ("cards" \notin known => "cards" \notin ch)
    BY DEF Noted, known
  <2> QED
    BY <1>7, <1>8, <1>9, <2>1, <2>2 DEF HandlerSound
<1>10. ASSUME ListSound(d, sc, cs, n, w), d.deck # 0 PROVE ListSound(d, sc, less, n, walked)
  BY <1>3, <1>5, <1>6, <1>10 DEF ListSound
<1>11. ASSUME w.whole => w.counted \subseteq IdsOf(cs, w.deck), walked.whole
       PROVE  walked.counted \subseteq IdsOf(less, walked.deck)
  BY <1>3, <1>11
<1> QED
  BY <1>1, <1>8, <1>9, <1>10, <1>11 DEF less, known, walked

\* Decks are created, renamed or dropped.
LEMMA DecksChanged ==
  ASSUME NEW d, NEW h, NEW sc, NEW ds, NEW n, NEW ch, NEW w, NEW cs, NEW new, NEW known,
         DOMAIN ds \subseteq DOMAIN new,
         \A x \in DOMAIN ds : Lives(new, x) => Lives(ds, x),
         "cards" \notin known => "cards" \notin ch,
         "name" \notin known =>
           "name" \notin ch /\ \A x \in DOMAIN ds : Lives(new, x) => new[x] = ds[x],
         "renamed" \notin known => "renamed" \notin ch,
         h.pc = "stats" => OfDeck(h.data.state)
  PROVE  /\ Sound(d, ds, cs, n, ch, w) => Sound(d, new, cs, n, known, w)
         /\ HandlerSound(h, ds, cs, n, ch, w) => HandlerSound(h, new, cs, n, known, w)
<1>1. ASSUME NEW e, Placed(e, ds, cs, n, w) PROVE Placed(e, new, cs, n, w)
  BY <1>1 DEF Placed
<1>2. ASSUME NEW e, Sound(e, ds, cs, n, ch, w) PROVE Sound(e, new, cs, n, known, w)
  <2>1. OfDeck(e.state) => e.deck \in DOMAIN ds
    BY <1>2 DEF Sound, Placed
  <2> QED
    BY <1>1, <1>2, <2>1 DEF Sound
<1>3. ASSUME HandlerSound(h, ds, cs, n, ch, w) PROVE HandlerSound(h, new, cs, n, known, w)
  BY <1>1, <1>2, <1>3 DEF HandlerSound, Placed
<1> QED
  BY <1>2, <1>3

-----------------------------------------------------------------------------
(* Steps that show or read something.                                      *)

LEMMA InitInv == Init => Inv
<1> SUFFICES ASSUME Init PROVE Inv
  OBVIOUS
<1>1. PICK n \in 0..MaxDecks : decks \in [1..n -> Names]
  BY DEF Init
<1>2. decks \in UNION {[1..i -> Names \cup {NoName}] : i \in 0..MaxDecks}
  <2>1. decks \in [1..n -> Names \cup {NoName}]
    BY <1>1
  <2> QED
    BY <2>1
<1>3. cardSeq \in 0..MaxCards /\ cards \subseteq [id : 1..cardSeq, deck : DOMAIN decks]
  <2>1. PICK m \in 0..MaxCards :
          /\ cardSeq = m
          /\ \E deckOf \in [1..m -> DOMAIN decks] :
               cards = {[id |-> i, deck |-> deckOf[i]] : i \in 1..m}
    BY DEF Init
  <2> QED
    BY <2>1
<1>4. 0 \in 0..MaxDecks /\ 0 \in 0..MaxCards /\ 0 \in 0..MaxElsewhere
  BY BoundsAssumption
<1>5. /\ Outside \in Dialogs /\ Outside.state = "outside" /\ Outside.card = Outside.word
      /\ NoWalk \in Walks /\ NoWalk.whole = FALSE
  BY <1>4 DEF Outside, Dialogs, Windows, NoWalk, Walks
<1>6. Offers({}) \in Screens /\ Idle \in Handlers /\ Idle.pc = "idle"
  BY DEF Offers, Screens, Handlers, Idle
<1>7. TypeOK
  BY <1>2, <1>3, <1>4, <1>5, <1>6 DEF Init, TypeOK
<1>8. Sound(Outside, decks, cards, cardSeq, changed, NoWalk)
  BY <1>5 DEF Sound, Placed, OfDeck
<1> QED
  BY <1>5, <1>6, <1>7, <1>8 DEF Init, Inv, WalkSound, HandlerSound, ListSound

\* The first pages of those seen are seen as well.
LEMMA FewerPages ==
  ASSUME NEW n \in Nat, NEW cs, NEW w, IdsOf(cs, w.deck) \subseteq 1..n,
         NEW p \in Nat, NEW q \in Nat, q <= p, Complete(p, cs, w)
  PROVE  Complete(q, cs, w)
<1> DEFINE ids == IdsOf(cs, w.deck)
<1>1. p * CardsPerPage <= Cardinality(ids)
      /\ \A k \in ids : Before(ids, k) < p * CardsPerPage => k \in w.seen
  BY DEF Complete
<1>2. Cardinality(ids) \in Nat /\ \A k \in ids : Before(ids, k) \in Nat
  BY Counting
<1>3. q * CardsPerPage \in Nat /\ q * CardsPerPage <= p * CardsPerPage
  BY PageOrder
<1>4. p * CardsPerPage \in Nat
  BY PageOrder
<1> HIDE DEF ids
<1>5. q * CardsPerPage <= Cardinality(ids)
      /\ \A k \in ids : Before(ids, k) < q * CardsPerPage => k \in w.seen
  BY <1>1, <1>2, <1>3, <1>4
<1> QED
  BY <1>5 DEF Complete, ids

LEMMA Repaged ==
  ASSUME TypeOK, NEW d \in Dialogs, NEW q \in 0..d.page, NEW w,
         Sound(d, decks, cards, cardSeq, changed, w)
  PROVE  LET e == [d EXCEPT !.page = q]
         IN  /\ e \in Dialogs /\ e.state = d.state /\ e.deck = d.deck /\ e.page = q
             /\ Sound(e, decks, cards, cardSeq, changed, w)
<1> DEFINE e == [d EXCEPT !.page = q]
<1>1. d.page \in Nat /\ d.page \in 0..MaxCards
  BY Fields
<1>2. /\ e \in Dialogs /\ e.state = d.state /\ e.deck = d.deck /\ e.name = d.name
      /\ e.total = d.total /\ e.page = q /\ e.card = d.card /\ e.word = d.word
  BY <1>1, BoundsAssumption DEF Dialogs
<1>3. w.whole /\ Complete(d.page, cards, w) => Complete(q, cards, w)
  BY <1>1, Basics, FewerPages
<1> HIDE DEF e
<1>4. Sound(e, decks, cards, cardSeq, changed, w)
  BY <1>2, <1>3 DEF Sound, Placed
<1> QED
  BY <1>2, <1>4 DEF e

\* A window was rendered, or its getter has counted the cards.
LEMMA Renders ==
  ASSUME TypeOK, NEW data \in Dialogs, WalkSound(walk', cards),
         Sound(data, decks, cards, cardSeq, changed, walk'),
         Sound(dialog, decks, cards, cardSeq, changed, walk'),
         ListSound(dialog, screen, cards, cardSeq, walk'),
         Render(data), UNCHANGED <<decks, cards, cardSeq, elsewhere, changed>>
  PROVE  Inv'
<1>1. Idle \in Handlers /\ Idle.pc = "idle"
  BY DEF Handlers, Idle
<1>2. ASSUME Raise PROVE Inv'
  <2>1. TypeOK'
    BY <1>1, <1>2 DEF Raise, TypeOK, WalkSound
  <2> QED
    BY <1>1, <1>2, <2>1 DEF Raise, Inv, HandlerSound
<1>3. ASSUME NEW items \in SUBSET Nat, Show(data, Offers(items)),
             data.state = "view_cards" => items = {} /\ IdsOf(cards, data.deck) = {}
      PROVE  Inv'
  <2>1. Offers(items) \in Screens /\ Offers(items).items = items
        /\ Offers(items).prev = FALSE /\ Offers(items).next = FALSE
    BY DEF Offers, Screens
  <2>2. TypeOK'
    BY <1>1, <1>3, <2>1 DEF Show, TypeOK, WalkSound
  <2>3. ListSound(data, Offers(items), cards, cardSeq, walk')
    BY <1>3, <2>1 DEF ListSound, WalkSound
  <2> QED
    BY <1>1, <1>3, <2>2, <2>3 DEF Show, Inv, HandlerSound
<1>4. CASE data.state = "view_cards"
  <2> DEFINE ids == IdsOf(cards, data.deck)
             page == Clamped(data.page, Cardinality(ids))
             next == [data EXCEPT !.page = page]
  <2>1. Render(data) <=> CountCards(data)
    BY <1>4 DEF Render
  <2>2. CASE ~ Exists(data.deck)
    BY <1>2, <2>1, <2>2 DEF CountCards
  <2>3. CASE Exists(data.deck) /\ ids = {}
    <3>1. Show(data, Offers({}))
      BY <2>1, <2>3, SameNames DEF CountCards
    <3> QED
      BY <1>3, <2>3, <3>1
  <2>4. CASE Exists(data.deck) /\ ids # {}
    <3>1. /\ handler' = [pc |-> "page", counted |-> ids, data |-> next]
          /\ dialog' = dialog /\ screen' = screen
      BY <2>1, <2>4, SameNames DEF CountCards
    <3>2. /\ ids \in SUBSET (1..cardSeq) /\ ids \subseteq CardIds /\ cardSeq \in Nat
          /\ ids \subseteq LiveOf(cards)
      BY Basics DEF CardIds
    <3>3. Cardinality(ids) \in Nat /\ Cardinality(ids) > 0
      BY <2>4, <3>2, Counting
    <3>4. TotalPages(Cardinality(ids)) \in Nat /\ TotalPages(Cardinality(ids)) > 0
      BY <3>3, Pages
    <3>5. page \in 0..data.page /\ page < TotalPages(Cardinality(ids))
      <4>1. data.page \in Nat
        BY Fields
      <4> QED
        BY <3>4, <4>1 DEF Clamped
    <3> HIDE DEF page
    <3>6. next \in Dialogs /\ next.state = data.state /\ next.deck = data.deck /\ next.page = page
          /\ Sound(next, decks, cards, cardSeq, changed, walk')
      BY <3>5, Repaged
    <3> HIDE DEF next
    <3>7. handler'.pc = "page" /\ handler'.counted = ids /\ handler'.data = next
          /\ handler' \in Handlers
      BY <3>1, <3>2, <3>6 DEF Handlers
    <3>8. TypeOK'
      BY <3>1, <3>7 DEF TypeOK, WalkSound
    <3>9. CountSound(handler', cards, cardSeq)
      BY <2>4, <3>2, <3>5, <3>6, <3>7 DEF CountSound
    <3>10. HandlerSound(handler', decks, cards, cardSeq, changed, walk')
      BY <1>4, <3>6, <3>7, <3>9 DEF HandlerSound
    <3> QED
      BY <3>1, <3>8, <3>10 DEF Inv
  <2> QED
    BY <2>2, <2>3, <2>4
<1>5. CASE data.state = "view_card"
  <2>1. ShowCard(data)
    BY <1>5 DEF Render
  <2>2. data.card \in Nat
    BY Fields, BoundsAssumption
  <2>3. CASE Show(data, Offers({data.card}))
    BY <1>3, <1>5, <2>2, <2>3
  <2>4. CASE Show(data, Offers({}))
    BY <1>3, <1>5, <2>4
  <2>5. CASE Raise
    BY <1>2, <2>5
  <2> QED
    BY <2>1, <2>3, <2>4, <2>5 DEF ShowCard
<1>6. CASE data.state = "list_decks"
  <2>1. Show(data, Offers(Decks))
    BY <1>6 DEF Render
  <2>2. Decks \in SUBSET Nat
    BY Basics DEF Decks
  <2> QED
    BY <1>3, <1>6, <2>1, <2>2
<1>7. CASE data.state \notin {"view_cards", "view_card", "list_decks"}
  <2>1. Show(data, Offers({}))
    BY <1>7 DEF Render
  <2> QED
    BY <1>3, <1>7, <2>1
<1> QED
  BY <1>4, <1>5, <1>6, <1>7

\* The same with nothing else changed.
LEMMA RendersOnly ==
  ASSUME Inv, NEW data \in Dialogs, Sound(data, decks, cards, cardSeq, changed, walk),
         Render(data), UNCHANGED <<decks, cards, cardSeq, elsewhere, history>>
  PROVE  Inv'
<1>1. walk' = walk /\ changed' = changed
  BY DEF history
<1> QED
  BY <1>1, Renders DEF Inv

LEMMA OpenDecksKeepsInv == Inv /\ OpenDecks => Inv'
<1> SUFFICES ASSUME Inv, OpenDecks PROVE Inv'
  OBVIOUS
<1> DEFINE data == To("list_decks")
<1>1. dialog \in Dialogs
  BY DEF Inv, TypeOK
<1>2. /\ data \in Dialogs /\ data.state = "list_decks" /\ data.deck = dialog.deck
      /\ data.name = dialog.name /\ data.total = dialog.total /\ data.page = dialog.page
      /\ data.card = dialog.card /\ data.word = dialog.word
  BY <1>1, Variants DEF To, Windows
<1>3. Render(data) /\ UNCHANGED <<decks, cards, cardSeq, elsewhere, history>>
  BY DEF OpenDecks
<1> HIDE DEF data
<1>4. Sound(data, decks, cards, cardSeq, changed, walk)
  BY <1>2, OtherWindow DEF Inv, OfDeck
<1> QED
  BY <1>2, <1>3, <1>4, RendersOnly

LEMMA SwitchKeepsInv ==
  ASSUME Inv, NEW to \in Windows, Switch(to)
  PROVE  Inv'
<1> DEFINE data == To(to)
<1>1. dialog \in Dialogs
  BY DEF Inv, TypeOK
<1>2. /\ data \in Dialogs /\ data.state = to /\ data.deck = dialog.deck
      /\ data.name = dialog.name /\ data.total = dialog.total /\ data.page = dialog.page
      /\ data.card = dialog.card /\ data.word = dialog.word
  BY <1>1, Variants DEF To
<1>3. Render(data) /\ UNCHANGED <<decks, cards, cardSeq, elsewhere, history>>
  BY DEF Switch
<1>4. OfDeck(to) => OfDeck(dialog.state)
  BY DEF Switch, SwitchTo, OfDeck
<1> HIDE DEF data
<1>5. Sound(data, decks, cards, cardSeq, changed, walk)
  BY <1>2, <1>4, OtherWindow DEF Inv
<1> QED
  BY <1>2, <1>3, <1>5, RendersOnly

LEMMA GetterCallKeepsInv == Inv /\ GetterCall => Inv'
<1> SUFFICES ASSUME Inv, GetterCall PROVE Inv'
  OBVIOUS
<1>1. handler.pc = "render" /\ handler \in Handlers
  BY DEF Inv, TypeOK, GetterCall, Busy
<1>2. handler.data \in Dialogs
  BY <1>1 DEF Handlers, Idle
<1>3. Sound(handler.data, decks, cards, cardSeq, changed, walk)
  BY <1>1 DEF Inv, HandlerSound
<1> QED
  BY <1>2, <1>3, RendersOnly DEF GetterCall

LEMMA PrevPageKeepsInv == Inv /\ PrevPage => Inv'
<1> SUFFICES ASSUME Inv, PrevPage PROVE Inv'
  OBVIOUS
<1> DEFINE data == [dialog EXCEPT !.page = Earlier(@)]
<1>1. dialog \in Dialogs /\ TypeOK
  BY DEF Inv, TypeOK
<1>2. Earlier(dialog.page) \in 0..dialog.page
  BY <1>1, Fields DEF Earlier
<1>3. data \in Dialogs /\ Sound(data, decks, cards, cardSeq, changed, walk)
  BY <1>1, <1>2, Repaged DEF Inv
<1> QED
  BY <1>3, RendersOnly DEF PrevPage

LEMMA NextPageKeepsInv == Inv /\ NextPage => Inv'
<1> SUFFICES ASSUME Inv, NextPage PROVE Inv'
  OBVIOUS
<1> DEFINE data == [dialog EXCEPT !.page = @ + 1]
<1>1. dialog \in Dialogs /\ TypeOK /\ dialog.page < MaxCards /\ dialog.state = "view_cards"
  BY DEF Inv, TypeOK, NextPage, In
<1>2. /\ data \in Dialogs /\ data.state = dialog.state /\ data.deck = dialog.deck
      /\ data.name = dialog.name /\ data.total = dialog.total /\ data.page = dialog.page + 1
      /\ data.card = dialog.card /\ data.word = dialog.word
  BY <1>1, BoundsAssumption DEF Dialogs
<1>3. Render(data) /\ UNCHANGED <<decks, cards, cardSeq, elsewhere, changed>>
  BY DEF NextPage
<1> HIDE DEF data
<1>4. /\ Sound(dialog, decks, cards, cardSeq, changed, walk)
      /\ ListSound(dialog, screen, cards, cardSeq, walk)
      /\ WalkSound(walk, cards)
  BY DEF Inv
<1>5. CASE screen.next
  <2>1. walk' = walk
    BY <1>5 DEF NextPage
  <2>2. walk.whole => Complete(dialog.page + 1, cards, walk)
    BY <1>1, <1>4, <1>5 DEF ListSound
  <2>3. Sound(data, decks, cards, cardSeq, changed, walk)
    BY <1>2, <1>4, <2>2 DEF Sound, Placed
  <2> QED
    BY <1>1, <1>2, <1>3, <1>4, <2>1, <2>3, Renders
<1>6. CASE ~ screen.next
  <2>1. walk' = NoWalk /\ WalkSound(NoWalk, cards) /\ NoWalk.whole = FALSE
    BY <1>6, BoundsAssumption DEF NextPage, NoWalk, WalkSound, Walks
  <2>2. dialog.deck # 0
    BY <1>1, <1>4, Basics DEF Sound, Placed, OfDeck
  <2>3. /\ Sound(dialog, decks, cards, cardSeq, changed, NoWalk)
        /\ ListSound(dialog, screen, cards, cardSeq, NoWalk)
    BY <1>4, <2>2, Forgets
  <2>4. Sound(data, decks, cards, cardSeq, changed, NoWalk)
    BY <1>2, <2>1, <2>3 DEF Sound, Placed
  <2> QED
    BY <1>1, <1>2, <1>3, <2>1, <2>3, <2>4, Renders
<1> QED
  BY <1>5, <1>6

LEMMA LeaveKeepsInv == Inv /\ Leave => Inv'
<1> SUFFICES ASSUME Inv, Leave PROVE Inv'
  OBVIOUS
<1>1. /\ dialog' = Outside /\ screen' = Offers({}) /\ handler' = Idle
      /\ changed' = {} /\ walk' = NoWalk
      /\ decks' = decks /\ cards' = cards /\ cardSeq' = cardSeq /\ elsewhere' = elsewhere
  BY DEF Leave, Show
<1>2. /\ Outside \in Dialogs /\ Outside.state = "outside" /\ Outside.card = Outside.word
      /\ NoWalk \in Walks /\ NoWalk.whole = FALSE
  BY BoundsAssumption DEF Outside, Dialogs, Windows, NoWalk, Walks
<1>3. Offers({}) \in Screens /\ Idle \in Handlers /\ Idle.pc = "idle"
  BY DEF Offers, Screens, Handlers, Idle
<1>4. TypeOK'
  BY <1>1, <1>2, <1>3 DEF Inv, TypeOK
<1>5. Sound(Outside, decks, cards, cardSeq, {}, NoWalk)
  BY <1>2 DEF Sound, Placed, OfDeck
<1> QED
  BY <1>1, <1>2, <1>3, <1>4, <1>5 DEF Inv, WalkSound, HandlerSound, ListSound

LEMMA FailKeepsInv == Inv /\ Fail => Inv'
<1> SUFFICES ASSUME Inv, Fail PROVE Inv'
  OBVIOUS
<1>1. /\ dialog' = dialog /\ screen' = screen /\ handler' = Idle
      /\ changed' = changed /\ walk' = walk
      /\ decks' = decks /\ cards' = cards /\ cardSeq' = cardSeq /\ elsewhere' = elsewhere
  BY DEF Fail, Raise, history
<1>2. Idle \in Handlers /\ Idle.pc = "idle"
  BY DEF Handlers, Idle
<1> QED
  BY <1>1, <1>2 DEF Inv, TypeOK, HandlerSound

\* A deck's data is read while the list of decks is still stored.
LEMMA SelectDeckKeepsInv ==
  ASSUME Inv, NEW d, SelectDeck(d)
  PROVE  Inv'
<1>1. /\ screen' = screen /\ dialog' = dialog
      /\ decks' = decks /\ cards' = cards /\ cardSeq' = cardSeq /\ elsewhere' = elsewhere
      /\ walk' = walk /\ dialog.state = "list_decks"
  BY DEF SelectDeck, Raise, In
<1>2. CASE ~ Exists(d)
  <2>1. handler' = Idle /\ Idle \in Handlers /\ Idle.pc = "idle" /\ changed' = changed
    BY <1>2 DEF SelectDeck, Raise, Handlers, Idle
  <2> QED
    BY <1>1, <2>1 DEF Inv, TypeOK, HandlerSound
<1>3. CASE Exists(d)
  <2> DEFINE data == [To("view_deck") EXCEPT !.deck = d, !.name = decks[d]]
  <2>1. handler' = [pc |-> "stats", data |-> data] /\ changed' = changed \ {"name", "renamed"}
    BY <1>3 DEF SelectDeck
  <2>2. TypeOK /\ dialog \in Dialogs
    BY DEF Inv, TypeOK
  <2>3. d \in DOMAIN decks /\ d \in 0..MaxDecks /\ decks[d] \in Names \cup {NoName}
    <3>1. d \in DOMAIN decks
      BY <1>3 DEF Exists
    <3>2. d \in 1..MaxDecks /\ decks[d] \in Names \cup {NoName}
      BY <2>2, <3>1, Basics
    <3> QED
      BY <3>1, <3>2, BoundsAssumption
  <2>4. To("view_deck") \in Dialogs /\ To("view_deck").state = "view_deck"
        /\ To("view_deck").page = dialog.page /\ To("view_deck").card = dialog.card
        /\ To("view_deck").word = dialog.word
    BY <2>2, Variants DEF To, Windows
  <2>5. /\ data \in Dialogs /\ data.state = "view_deck" /\ data.deck = d /\ data.name = decks[d]
        /\ data.page = dialog.page /\ data.card = dialog.card /\ data.word = dialog.word
    BY <2>3, <2>4 DEF Dialogs
  <2> HIDE DEF data
  <2>6. handler' \in Handlers /\ handler'.pc = "stats" /\ handler'.data = data
    BY <2>1, <2>5 DEF Handlers
  <2>7. TypeOK'
    BY <1>1, <2>1, <2>6 DEF Inv, TypeOK
  <2>8. Placed(dialog, decks, cards, cardSeq, walk)
    BY DEF Inv, Sound
  <2>9. Placed(data, decks, cards, cardSeq, walk)
    BY <2>3, <2>5, <2>8 DEF Placed
  <2>10. HandlerSound(handler', decks, cards, cardSeq, changed', walk)
    BY <2>5, <2>6, <2>9 DEF HandlerSound
  <2>11. Sound(dialog, decks, cards, cardSeq, changed', walk)
    BY <1>1, <2>8 DEF Sound, OfDeck
  <2> QED
    BY <1>1, <2>7, <2>10, <2>11 DEF Inv
<1> QED
  BY <1>2, <1>3

LEMMA GetStatsKeepsInv == Inv /\ GetStats => Inv'
<1> SUFFICES ASSUME Inv, GetStats PROVE Inv'
  OBVIOUS
<1> DEFINE d == handler.data.deck
           data == [handler.data EXCEPT !.total = Cardinality(IdsIn(d))]
<1>1. /\ decks' = decks /\ cards' = cards /\ cardSeq' = cardSeq /\ elsewhere' = elsewhere
      /\ walk' = walk /\ handler.pc = "stats" /\ handler' = Idle
      /\ Idle \in Handlers /\ Idle.pc = "idle"
  BY DEF GetStats, Raise, Show, Busy, Handlers, Idle
<1>2. CASE ~ Exists(d)
  <2>1. changed' = changed /\ dialog' = dialog /\ screen' = screen
    BY <1>2 DEF GetStats, Raise
  <2> QED
    BY <1>1, <2>1 DEF Inv, TypeOK, HandlerSound
<1>3. CASE Exists(d)
  <2>1. dialog' = data /\ screen' = Offers({}) /\ changed' = changed \ {"cards", "renamed"}
    BY <1>3 DEF GetStats, Show
  <2>2. TypeOK /\ handler \in Handlers
    BY DEF Inv, TypeOK
  <2>3. handler.data \in Dialogs
    BY <1>1, <2>2 DEF Handlers, Idle
  <2>4. Cardinality(IdsIn(d)) \in 0..MaxCards /\ IdsIn(d) = IdsOf(cards, d)
    <3>1. IdsOf(cards, d) \in SUBSET (1..cardSeq) /\ cardSeq \in Nat /\ cardSeq <= MaxCards
          /\ MaxCards \in Nat
      BY <2>2, Basics
    <3>2. Cardinality(IdsOf(cards, d)) \in Nat /\ Cardinality(IdsOf(cards, d)) <= cardSeq
      BY <3>1, Counting
    <3> QED
      BY <3>1, <3>2, SameNames
  <2>5. /\ data \in Dialogs /\ data.state = handler.data.state /\ data.deck = d
        /\ data.name = handler.data.name /\ data.total = Cardinality(IdsOf(cards, d))
        /\ data.page = handler.data.page /\ data.card = handler.data.card
        /\ data.word = handler.data.word
    BY <2>3, <2>4 DEF Dialogs
  <2> HIDE DEF data
  <2>6. /\ Placed(handler.data, decks, cards, cardSeq, walk) /\ handler.data.state = "view_deck"
        /\ Lives(decks, d) /\ "name" \notin changed => decks[d] = handler.data.name
    BY <1>1 DEF Inv, HandlerSound
  <2>7. Placed(data, decks, cards, cardSeq, walk)
    BY <2>5, <2>6 DEF Placed
  <2>8. Sound(data, decks, cards, cardSeq, changed', walk)
    BY <2>1, <2>5, <2>6, <2>7 DEF Sound
  <2>9. Offers({}) \in Screens
    BY DEF Offers, Screens
  <2>10. TypeOK'
    BY <1>1, <2>1, <2>5, <2>9 DEF Inv, TypeOK
  <2>11. ListSound(data, screen', cards, cardSeq, walk)
    BY <2>5, <2>6 DEF ListSound
  <2> QED
    BY <1>1, <2>1, <2>8, <2>10, <2>11 DEF Inv, HandlerSound
<1> QED
  BY <1>2, <1>3

\* A handler goes on to render; what the dialog stores and shows is still sound.
LEMMA AfterwardsKeepsInv ==
  ASSUME TypeOK, dialog.state # "view_cards" \/ ListSound(dialog, screen, cards', cardSeq', walk'),
         NEW data \in Dialogs, AfterwardsRender(data),
         decks' \in UNION {[1..n -> Names \cup {NoName}] : n \in 0..MaxDecks},
         cardSeq' \in 0..MaxCards, cards' \subseteq [id : 1..cardSeq', deck : DOMAIN decks'],
         elsewhere' \in 0..MaxElsewhere, changed' \subseteq {"name", "renamed", "cards"},
         WalkSound(walk', cards'),
         Sound(data, decks', cards', cardSeq', changed', walk'),
         Sound(dialog, decks', cards', cardSeq', changed', walk')
  PROVE  Inv'
<1>1. handler' = [pc |-> "render", data |-> data] /\ dialog' = dialog /\ screen' = screen
  BY DEF AfterwardsRender
<1>2. handler' \in Handlers /\ handler'.pc = "render" /\ handler'.data = data
  BY <1>1 DEF Handlers
<1>3. TypeOK'
  BY <1>1, <1>2 DEF TypeOK, WalkSound
<1>4. HandlerSound(handler', decks', cards', cardSeq', changed', walk')
  BY <1>2 DEF HandlerSound
<1>5. ListSound(dialog, screen, cards', cardSeq', walk')
  BY DEF ListSound
<1> QED
  BY <1>1, <1>3, <1>4, <1>5 DEF Inv

LEMMA SelectCardKeepsInv ==
  ASSUME Inv, NEW k, SelectCard(k)
  PROVE  Inv'
<1> DEFINE data == Selected(k)
<1>1. /\ decks' = decks /\ cards' = cards /\ cardSeq' = cardSeq /\ elsewhere' = elsewhere
      /\ changed' = changed /\ walk' = walk /\ dialog.state = "view_cards"
      /\ AfterwardsRender(data) /\ k \in screen.items
  BY DEF SelectCard, In, history
<1>2. TypeOK /\ dialog \in Dialogs /\ Sound(dialog, decks, cards, cardSeq, changed, walk)
      /\ ListSound(dialog, screen, cards, cardSeq, walk) /\ WalkSound(walk, cards)
  BY DEF Inv, TypeOK
<1>3. k \in 1..cardSeq /\ k \in 0..MaxCards
  <2>1. k \in 1..cardSeq
    BY <1>1, <1>2 DEF ListSound
  <2> QED
    BY <1>2, <2>1, Basics
<1>4. /\ To("view_card") \in Dialogs /\ To("view_card").state = "view_card"
      /\ To("view_card").deck = dialog.deck /\ To("view_card").name = dialog.name
      /\ To("view_card").total = dialog.total /\ To("view_card").page = dialog.page
      /\ To("view_card").word = dialog.word
  BY <1>2, Variants DEF To, Windows
<1>5. /\ data \in Dialogs /\ data.state = "view_card" /\ data.deck = dialog.deck
      /\ data.name = dialog.name /\ data.total = dialog.total /\ data.page = dialog.page
      /\ data.card = k /\ (k \in Live => data.word = k)
  BY <1>3, <1>4 DEF Selected, Dialogs
<1> HIDE DEF data
<1>6. Sound(data, decks, cards, cardSeq, changed, walk)
  BY <1>1, <1>2, <1>3, <1>5, SameNames DEF Sound, Placed, OfDeck
<1>7. /\ decks \in UNION {[1..n -> Names \cup {NoName}] : n \in 0..MaxDecks}
      /\ cardSeq \in 0..MaxCards /\ cards \subseteq [id : 1..cardSeq, deck : DOMAIN decks]
      /\ elsewhere \in 0..MaxElsewhere /\ changed \subseteq {"name", "renamed", "cards"}
  BY <1>2 DEF TypeOK
<1> QED
  BY <1>1, <1>2, <1>5, <1>6, <1>7, AfterwardsKeepsInv

LEMMA ResetProgressKeepsInv == Inv /\ ResetProgress => Inv'
<1> SUFFICES ASSUME Inv, ResetProgress PROVE Inv'
  OBVIOUS
<1>1. /\ decks' = decks /\ cards' = cards /\ cardSeq' = cardSeq /\ elsewhere' = elsewhere
      /\ changed' = changed /\ walk' = walk
  BY DEF ResetProgress, history
<1>2. CASE AfterwardsRender(dialog)
  <2>1. /\ decks \in UNION {[1..n -> Names \cup {NoName}] : n \in 0..MaxDecks}
        /\ cardSeq \in 0..MaxCards /\ cards \subseteq [id : 1..cardSeq, deck : DOMAIN decks]
        /\ elsewhere \in 0..MaxElsewhere /\ changed \subseteq {"name", "renamed", "cards"}
        /\ dialog \in Dialogs /\ TypeOK
    BY DEF Inv, TypeOK
  <2>2. /\ Sound(dialog, decks, cards, cardSeq, changed, walk) /\ WalkSound(walk, cards)
        /\ ListSound(dialog, screen, cards, cardSeq, walk)
    BY DEF Inv
  <2> QED
    BY <1>1, <1>2, <2>1, <2>2, AfterwardsKeepsInv
<1>3. CASE Raise
  <2>1. handler' = Idle /\ Idle \in Handlers /\ Idle.pc = "idle"
        /\ dialog' = dialog /\ screen' = screen
    BY <1>3 DEF Raise, Handlers, Idle
  <2> QED
    BY <1>1, <2>1 DEF Inv, TypeOK, HandlerSound
<1> QED
  BY <1>2, <1>3 DEF ResetProgress

\* A page p of the cards ids, of which old were counted for it, the others being
\* later ones: it is full of those that come next, and only the last page has
\* none after it.
LEMMA PageShown ==
  ASSUME NEW n \in Nat, NEW ids \in SUBSET (1..n), NEW old \in SUBSET ids, old # {},
         \A k \in ids \ old, x \in old : x < k,
         NEW p \in Nat, p < TotalPages(Cardinality(old))
  PROVE  /\ OnPage(ids, p) # {}
         /\ \A k \in ids : Before(ids, k) < (p + 1) * CardsPerPage =>
              Before(ids, k) < p * CardsPerPage \/ k \in OnPage(ids, p)
         /\ p < TotalPages(Cardinality(old)) - 1 =>
              (p + 1) * CardsPerPage <= Cardinality(ids)
         /\ ~ p < TotalPages(Cardinality(old)) - 1 =>
              \A k \in old : Before(ids, k) < (p + 1) * CardsPerPage
<1> DEFINE t == TotalPages(Cardinality(old))
<1>1. old \in SUBSET (1..n)
  OBVIOUS
<1>2. Cardinality(old) \in Nat /\ Cardinality(old) > 0
      /\ \A k \in old : Before(old, k) \in Nat /\ Before(old, k) < Cardinality(old)
  BY <1>1, Counting
<1>3. Cardinality(ids) \in Nat /\ \A k \in ids : Before(ids, k) \in Nat
  BY Counting
<1>4. /\ \A k \in old : Before(ids, k) = Before(old, k)
      /\ Cardinality(old) <= Cardinality(ids)
  BY LaterIds
<1>5. /\ t \in Nat /\ t > 0 /\ Cardinality(old) <= t * CardsPerPage
      /\ (t - 1) * CardsPerPage < Cardinality(old)
  BY <1>2, Pages
<1> HIDE DEF t
<1>6. CardsPerPage \in Nat /\ CardsPerPage > 0
  BY CardsPerPageAssumption
<1>7. /\ p * CardsPerPage \in Nat /\ p * CardsPerPage <= (t - 1) * CardsPerPage
      /\ (p + 1) * CardsPerPage = p * CardsPerPage + CardsPerPage
  <2>1. t - 1 \in Nat /\ p <= t - 1
    BY <1>5 DEF t
  <2> QED
    BY <2>1, PageOrder
<1>8. (t - 1) * CardsPerPage \in Nat
  <2>1. t - 1 \in Nat
    BY <1>5
  <2> QED
    BY <2>1, PageOrder
<1>9. \A k \in ids : Before(ids, k) < (p + 1) * CardsPerPage =>
        Before(ids, k) < p * CardsPerPage \/ k \in OnPage(ids, p)
  BY <1>3, <1>7 DEF OnPage
<1>10. OnPage(ids, p) # {}
  <2>1. p * CardsPerPage < Cardinality(ids)
    BY <1>2, <1>3, <1>4, <1>5, <1>7, <1>8
  <2>2. PICK k \in ids : Before(ids, k) = p * CardsPerPage
    BY <1>7, <2>1, PlacesTaken
  <2>3. k \in OnPage(ids, p)
    BY <1>3, <1>6, <1>7, <2>2 DEF OnPage
  <2> QED
    BY <2>3
<1>11. ASSUME p < t - 1 PROVE (p + 1) * CardsPerPage <= Cardinality(ids)
  <2>1. p + 1 \in Nat /\ t - 1 \in Nat /\ p + 1 <= t - 1
    BY <1>5, <1>11
  <2>2. (p + 1) * CardsPerPage \in Nat /\ (p + 1) * CardsPerPage <= (t - 1) * CardsPerPage
    BY <2>1, PageOrder
  <2> QED
    BY <1>2, <1>3, <1>4, <1>5, <1>8, <2>2
<1>12. ASSUME ~ p < t - 1, NEW k \in old PROVE Before(ids, k) < (p + 1) * CardsPerPage
  <2>1. t = p + 1
    BY <1>5, <1>12 DEF t
  <2>2. Before(ids, k) = Before(old, k) /\ Before(old, k) \in Nat
        /\ Before(old, k) < Cardinality(old) /\ Cardinality(old) <= (p + 1) * CardsPerPage
    BY <1>2, <1>4, <1>5, <2>1
  <2>3. (p + 1) * CardsPerPage \in Nat
    BY <1>6, <1>7
  <2> QED
    BY <1>2, <2>2, <2>3
<1> QED
  BY <1>9, <1>10, <1>11, <1>12 DEF t

LEMMA GetPageKeepsInv == Inv /\ GetPage => Inv'
<1> SUFFICES ASSUME Inv, GetPage PROVE Inv'
  OBVIOUS
<1> DEFINE data == handler.data
           counted == handler.counted
           ids == IdsOf(cards, data.deck)
           items == OnPage(ids, data.page)
           first == data.page = 0
           torn == ~ (counted \subseteq LiveOf(cards))
           whole == ~ torn /\ (first \/ (walk.whole /\ walk.deck = data.deck))
           next == data.page < TotalPages(Cardinality(counted)) - 1
           sc == [items |-> items, prev |-> data.page > 0, next |-> next]
           w == [deck |-> data.deck, whole |-> whole, torn |-> torn,
                 counted |-> IF whole THEN counted ELSE {},
                 seen |-> IF ~ whole THEN {}
                          ELSE IF first THEN items ELSE items \cup walk.seen]
<1>1. /\ decks' = decks /\ cards' = cards /\ cardSeq' = cardSeq /\ elsewhere' = elsewhere
      /\ changed' = changed /\ handler.pc = "page" /\ handler' = Idle
      /\ Idle \in Handlers /\ Idle.pc = "idle"
  BY DEF GetPage, Raise, Show, Busy, Handlers, Idle
<1>2. CASE ~ Exists(data.deck)
  <2>1. walk' = walk /\ dialog' = dialog /\ screen' = screen
    BY <1>2 DEF GetPage, Raise
  <2> QED
    BY <1>1, <2>1 DEF Inv, TypeOK, HandlerSound
<1>3. CASE Exists(data.deck)
  <2>1. dialog' = data /\ screen' = sc /\ walk' = w
    BY <1>3, SameNames DEF GetPage, Show
  <2>2. TypeOK /\ handler \in Handlers /\ WalkSound(walk, cards) /\ walk \in Walks
    BY DEF Inv, TypeOK
  <2>3. data \in Dialogs /\ counted \subseteq CardIds
    BY <1>1, <2>2 DEF Handlers, Idle
  <2>4. data.page \in Nat /\ data.deck \in 0..MaxDecks
    BY <2>3, Fields
  <2>5. /\ Sound(data, decks, cards, cardSeq, changed, walk) /\ data.state = "view_cards"
        /\ counted \subseteq 1..cardSeq /\ counted # {}
        /\ counted \cap LiveOf(cards) \subseteq ids
        /\ \A k \in ids \ counted, x \in counted : x < k
        /\ data.page < TotalPages(Cardinality(counted))
    BY <1>1 DEF Inv, HandlerSound, CountSound
  <2>6. cardSeq \in Nat /\ ids \in SUBSET (1..cardSeq) /\ ids \subseteq CardIds
    BY <2>2, Basics DEF CardIds
  <2> HIDE DEF data, counted
  <2>7. items \subseteq ids
    BY DEF OnPage
  <2>8. ASSUME ~ torn
        PROVE  /\ counted \subseteq ids /\ items # {}
               /\ \A k \in ids : Before(ids, k) < (data.page + 1) * CardsPerPage =>
                    Before(ids, k) < data.page * CardsPerPage \/ k \in items
               /\ next => (data.page + 1) * CardsPerPage <= Cardinality(ids)
               /\ ~ next => \A k \in counted : Before(ids, k) < (data.page + 1) * CardsPerPage
    <3>1. counted \subseteq ids
      BY <2>5, <2>8
    <3> HIDE DEF ids
    <3> QED
      BY <2>4, <2>5, <2>6, <3>1, PageShown
  <2> HIDE DEF items, next, ids
  <2>9. ASSUME whole
        PROVE  /\ data.page * CardsPerPage <= Cardinality(ids)
               /\ \A k \in ids : Before(ids, k) < data.page * CardsPerPage => k \in w.seen
               /\ items \subseteq w.seen
    <3>1. items \subseteq w.seen
      BY <2>9
    <3>2. CASE first
      <4>1. data.page * CardsPerPage = 0
        BY <3>2, CardsPerPageAssumption
      <4>2. Cardinality(ids) \in Nat /\ \A k \in ids : Before(ids, k) \in Nat
        BY <2>6, Counting
      <4> QED
        BY <3>1, <4>1, <4>2
    <3>3. CASE ~ first
      <4>1. walk.whole /\ walk.deck = data.deck /\ w.seen = items \cup walk.seen
        BY <2>9, <3>3
      <4>2. Complete(data.page, cards, walk)
        BY <2>5, <4>1 DEF Sound, Placed
      <4> QED
        BY <3>1, <4>1, <4>2 DEF Complete, ids
    <3> QED
      BY <3>2, <3>3
  <2>10. w \in Walks /\ w.deck = data.deck /\ w.whole = whole /\ w.torn = torn
         /\ (whole => w.counted = counted)
    BY <2>2, <2>3, <2>4, <2>6, <2>7 DEF Walks
  <2>11. WalkSound(w, cards)
    BY <2>8, <2>10 DEF WalkSound, ids
  <2>12. Placed(data, decks, cards, cardSeq, w)
    <3>1. whole => Complete(data.page, cards, w)
      BY <2>9, <2>10 DEF Complete, ids
    <3> QED
      BY <2>5, <2>10, <3>1 DEF Sound, Placed
  <2>13. Sound(data, decks, cards, cardSeq, changed, w)
    BY <2>5, <2>12 DEF Sound
  <2>14. sc \in Screens /\ sc.items = items /\ sc.next = next
    <3> DEFINE prev == data.page > 0
    <3>1. items \in SUBSET Nat
      BY <2>6, <2>7
    <3>2. next \in BOOLEAN /\ prev \in BOOLEAN
      BY DEF next
    <3> HIDE DEF prev
    <3>3. [items |-> items, prev |-> prev, next |-> next] \in Screens
      BY <3>1, <3>2 DEF Screens
    <3> QED
      BY <3>3 DEF prev
  <2>15. ListSound(data, sc, cards, cardSeq, w)
    <3>1. sc.items \subseteq 1..cardSeq
      BY <2>6, <2>7, <2>14
    <3>2. ASSUME whole, next PROVE Complete(data.page + 1, cards, w)
      <4>1. (data.page + 1) * CardsPerPage <= Cardinality(ids)
        BY <2>8, <3>2
      <4>2. \A k \in ids : Before(ids, k) < (data.page + 1) * CardsPerPage => k \in w.seen
        BY <2>8, <2>9, <3>2
      <4> QED
        BY <2>10, <4>1, <4>2 DEF Complete, ids
    <3>3. ASSUME whole, ~ next PROVE w.counted \subseteq w.seen
      <4>1. ASSUME NEW k \in counted PROVE k \in w.seen
        BY <2>8, <2>9, <3>3, <4>1
      <4> QED
        BY <2>10, <3>3, <4>1
    <3>4. ~ torn => sc.items # {}
      BY <2>8, <2>14
    <3> HIDE DEF w, sc, whole, torn
    <3> QED
      BY <2>10, <2>14, <3>1, <3>2, <3>3, <3>4 DEF ListSound
  <2>16. TypeOK'
    <3> HIDE DEF w, sc
    <3> QED
      BY <1>1, <2>1, <2>2, <2>3, <2>10, <2>14 DEF TypeOK
  <2> HIDE DEF w, sc
  <2> QED
    BY <1>1, <2>1, <2>11, <2>13, <2>15, <2>16 DEF Inv, HandlerSound
<1> QED
  BY <1>2, <1>3

-----------------------------------------------------------------------------
(* Steps that change decks or cards.                                       *)

\* Cards are deleted, whatever becomes of the decks ds.
LEMMA WithoutKeeps ==
  ASSUME Inv, NEW gone, Without(gone), NEW ds, NEW d, NEW h, NEW sc
  PROVE  /\ Sound(d, ds, cards, cardSeq, changed, walk) =>
              Sound(d, ds, cards', cardSeq, changed', walk')
         /\ HandlerSound(h, ds, cards, cardSeq, changed, walk) =>
              HandlerSound(h, ds, cards', cardSeq, changed', walk')
         /\ ListSound(d, sc, cards, cardSeq, walk) /\ d.deck # 0 =>
              ListSound(d, sc, cards', cardSeq, walk')
         /\ WalkSound(walk', cards') /\ cards' \subseteq cards
         /\ changed' \subseteq {"name", "renamed", "cards"}
         /\ ("cards" \notin changed' => gone = {}) /\ LiveOf(cards') = LiveOf(cards) \ gone
<1> DEFINE less == Lacking(cards, gone)
           known == Noted(changed, gone)
           walked == Walked(walk, cards, gone)
<1>1. cards' = less /\ changed' = known /\ walk' = walked
  BY SameNames DEF Without, Lacking, Noted, Walked
<1>2. cardSeq \in Nat /\ WalkSound(walk, cards) /\ changed \subseteq {"name", "renamed", "cards"}
  BY BoundsAssumption DEF Inv, TypeOK
<1>3. walked \in Walks
  BY <1>2, BoundsAssumption DEF WalkSound, NoWalk, Walks, Walked
<1>4. /\ Sound(d, ds, cards, cardSeq, changed, walk) =>
           Sound(d, ds, less, cardSeq, known, walked)
      /\ HandlerSound(h, ds, cards, cardSeq, changed, walk) =>
           HandlerSound(h, ds, less, cardSeq, known, walked)
      /\ ListSound(d, sc, cards, cardSeq, walk) /\ d.deck # 0 =>
           ListSound(d, sc, less, cardSeq, walked)
      /\ (walk.whole => walk.counted \subseteq IdsOf(cards, walk.deck)) =>
           (walked.whole => walked.counted \subseteq IdsOf(less, walked.deck))
      /\ LiveOf(less) = LiveOf(cards) \ gone
  BY <1>2, CardsGone
<1>5. less \subseteq cards /\ known \subseteq {"name", "renamed", "cards"}
      /\ ("cards" \notin known => gone = {})
  BY <1>2 DEF Lacking, Noted
<1> HIDE DEF less, known, walked
<1>6. WalkSound(walked, less)
  BY <1>2, <1>3, <1>4 DEF WalkSound
<1> QED
  BY <1>1, <1>4, <1>5, <1>6

LEMMA CreateDeckKeepsInv ==
  ASSUME Inv, NEW name \in Names, CreateDeck(name)
  PROVE  Inv'
<1> DEFINE data == To("list_decks")
<1>1. /\ TypeOK /\ dialog \in Dialogs /\ dialog.state = "create_deck"
      /\ cards' = cards /\ cardSeq' = cardSeq /\ elsewhere' = elsewhere
      /\ changed' = changed /\ walk' = walk /\ AfterwardsRender(data) /\ handler = Idle
  BY DEF Inv, TypeOK, CreateDeck, In, history
<1>2. PICK n \in 0..MaxDecks : decks \in [1..n -> Names \cup {NoName}]
  BY <1>1 DEF TypeOK
<1>3. Cardinality(DOMAIN decks) = n /\ n \in Nat /\ DOMAIN decks = 1..n
  BY <1>2, FS_Interval
<1>4. n + 1 \in 0..MaxDecks
  BY <1>3, BoundsAssumption DEF CreateDeck
<1>5. decks' = [d \in 1..(n + 1) |-> IF d \in DOMAIN decks THEN decks[d] ELSE name]
  BY <1>3 DEF CreateDeck
<1>6. decks' \in [1..(n + 1) -> Names \cup {NoName}]
  BY <1>2, <1>3, <1>5
<1>7. DOMAIN decks \subseteq DOMAIN decks' /\ \A d \in DOMAIN decks : decks'[d] = decks[d]
  BY <1>3, <1>5
<1>8. decks' \in UNION {[1..i -> Names \cup {NoName}] : i \in 0..MaxDecks}
  BY <1>4, <1>6
<1>9. Sound(dialog, decks', cards, cardSeq, changed, walk)
  <2>1. \A d \in DOMAIN decks : Lives(decks', d) => Lives(decks, d)
    BY <1>7 DEF Lives
  <2>2. handler.pc # "stats" /\ Sound(dialog, decks, cards, cardSeq, changed, walk)
    BY <1>1 DEF Idle, Inv
  <2> QED
    BY <1>7, <2>1, <2>2, DecksChanged
<1>10. /\ data \in Dialogs /\ data.state = "list_decks" /\ data.deck = dialog.deck
       /\ data.name = dialog.name /\ data.total = dialog.total /\ data.page = dialog.page
       /\ data.card = dialog.card /\ data.word = dialog.word
  BY <1>1, Variants DEF To, Windows
<1> HIDE DEF data
<1>11. Sound(data, decks', cards, cardSeq, changed, walk)
  BY <1>9, <1>10, OtherWindow DEF OfDeck
<1>12. /\ cardSeq \in 0..MaxCards /\ cards \subseteq [id : 1..cardSeq, deck : DOMAIN decks']
       /\ elsewhere \in 0..MaxElsewhere /\ changed \subseteq {"name", "renamed", "cards"}
       /\ WalkSound(walk, cards)
  BY <1>1, <1>7 DEF TypeOK, Inv
<1> QED
  BY <1>1, <1>8, <1>9, <1>10, <1>11, <1>12, AfterwardsKeepsInv

LEMMA RenameKeepsInv ==
  ASSUME Inv, NEW name \in Names, Rename(name)
  PROVE  Inv'
<1> DEFINE data == [To("view_deck") EXCEPT !.name = name]
<1>1. /\ TypeOK /\ dialog \in Dialogs /\ dialog.state = "rename_deck"
      /\ cards' = cards /\ cardSeq' = cardSeq /\ elsewhere' = elsewhere
      /\ walk' = walk /\ dialog' = dialog /\ screen' = screen
  BY DEF Inv, TypeOK, Rename, In, Raise
<1>2. CASE ~ Exists(dialog.deck)
  <2>1. handler' = Idle /\ Idle \in Handlers /\ Idle.pc = "idle"
        /\ decks' = decks /\ changed' = changed
    BY <1>2 DEF Rename, Raise, Handlers, Idle
  <2> QED
    BY <1>1, <2>1 DEF Inv, TypeOK, HandlerSound
<1>3. CASE Exists(dialog.deck)
  <2>1. /\ decks' = [decks EXCEPT ![dialog.deck] = name] /\ handler' = [pc |-> "stats", data |-> data]
        /\ changed' = (changed \ {"name"}) \cup {"renamed"}
    BY <1>3 DEF Rename
  <2>2. dialog.deck \in DOMAIN decks
    BY <1>3 DEF Exists
  <2>3. /\ DOMAIN decks' = DOMAIN decks /\ decks'[dialog.deck] = name
        /\ \A d \in DOMAIN decks : d # dialog.deck => decks'[d] = decks[d]
    BY <2>1, <2>2
  <2>4. decks' \in UNION {[1..i -> Names \cup {NoName}] : i \in 0..MaxDecks}
    <3>1. PICK n \in 0..MaxDecks : decks \in [1..n -> Names \cup {NoName}]
      BY <1>1 DEF TypeOK
    <3>2. decks' \in [1..n -> Names \cup {NoName}]
      BY <2>1, <3>1
    <3> QED
      BY <3>2
  <2>5. To("view_deck") \in Dialogs /\ To("view_deck").state = "view_deck"
        /\ To("view_deck").deck = dialog.deck
        /\ To("view_deck").page = dialog.page /\ To("view_deck").card = dialog.card
        /\ To("view_deck").word = dialog.word
    BY <1>1, Variants DEF To, Windows
  <2>6. /\ data \in Dialogs /\ data.state = "view_deck" /\ data.deck = dialog.deck
        /\ data.name = name
        /\ data.page = dialog.page /\ data.card = dialog.card /\ data.word = dialog.word
    BY <2>5 DEF Dialogs
  <2> HIDE DEF data
  <2>7. handler' \in Handlers /\ handler'.pc = "stats" /\ handler'.data = data
    BY <2>1, <2>6 DEF Handlers
  <2>8. TypeOK'
    BY <1>1, <2>1, <2>3, <2>4, <2>7 DEF TypeOK
  <2>9. Sound(dialog, decks, cards, cardSeq, changed, walk)
    BY DEF Inv
  <2>10. Placed(dialog, decks', cards, cardSeq, walk) /\ Placed(data, decks', cards, cardSeq, walk)
    BY <1>1, <2>2, <2>3, <2>6, <2>9 DEF Sound, Placed
  <2>11. Sound(dialog, decks', cards, cardSeq, changed', walk)
    <3>1. Lives(decks, dialog.deck)
      BY <1>3, SameNames
    <3>2. "renamed" \in changed' /\ ("cards" \notin changed' => "cards" \notin changed)
      BY <2>1
    <3> QED
      BY <2>9, <2>10, <3>1, <3>2 DEF Sound
  <2>12. HandlerSound(handler', decks', cards, cardSeq, changed', walk)
    BY <2>3, <2>6, <2>7, <2>10 DEF HandlerSound
  <2> QED
    BY <1>1, <2>8, <2>11, <2>12 DEF Inv
<1> QED
  BY <1>2, <1>3

\* A deck is dropped, with its cards.
LEMMA Drops ==
  ASSUME Inv, NEW d \in DOMAIN decks, decks' = [decks EXCEPT ![d] = NoName],
         Without(IdsIn(d)), cardSeq' = cardSeq, NEW e, NEW h,
         h.pc = "stats" => OfDeck(h.data.state)
  PROVE  /\ decks' \in UNION {[1..n -> Names \cup {NoName}] : n \in 0..MaxDecks}
         /\ cards' \subseteq [id : 1..cardSeq', deck : DOMAIN decks']
         /\ Sound(e, decks, cards, cardSeq, changed, walk) =>
              Sound(e, decks', cards', cardSeq', changed', walk')
         /\ HandlerSound(h, decks, cards, cardSeq, changed, walk) =>
              HandlerSound(h, decks', cards', cardSeq', changed', walk')
<1>1. DOMAIN decks' = DOMAIN decks /\ decks'[d] = NoName
      /\ \A x \in DOMAIN decks : x # d => decks'[x] = decks[x]
  OBVIOUS
<1>2. decks' \in UNION {[1..n -> Names \cup {NoName}] : n \in 0..MaxDecks}
  <2>1. PICK n \in 0..MaxDecks : decks \in [1..n -> Names \cup {NoName}]
    BY DEF Inv, TypeOK
  <2>2. decks' \in [1..n -> Names \cup {NoName}]
    BY <2>1
  <2> QED
    BY <2>2
<1>3. \A x \in DOMAIN decks : Lives(decks', x) => Lives(decks, x) /\ decks'[x] = decks[x]
  BY <1>1 DEF Lives
<1>4. /\ Sound(e, decks, cards, cardSeq, changed, walk) =>
           Sound(e, decks', cards, cardSeq, changed, walk)
      /\ HandlerSound(h, decks, cards, cardSeq, changed, walk) =>
           HandlerSound(h, decks', cards, cardSeq, changed, walk)
  BY <1>1, <1>3, DecksChanged
<1>5. /\ Sound(e, decks', cards, cardSeq, changed, walk) =>
           Sound(e, decks', cards', cardSeq, changed', walk')
      /\ HandlerSound(h, decks', cards, cardSeq, changed, walk) =>
           HandlerSound(h, decks', cards', cardSeq, changed', walk')
      /\ cards' \subseteq cards
  BY WithoutKeeps
<1>6. cards' \subseteq [id : 1..cardSeq', deck : DOMAIN decks']
  BY <1>1, <1>5 DEF Inv, TypeOK
<1> QED
  BY <1>2, <1>4, <1>5, <1>6

LEMMA DeleteDeckKeepsInv == Inv /\ DeleteDeck => Inv'
<1> SUFFICES ASSUME Inv, DeleteDeck PROVE Inv'
  OBVIOUS
<1> DEFINE data == To("list_decks")
<1>1. /\ TypeOK /\ dialog \in Dialogs /\ dialog.state = "confirm_delete_deck"
      /\ cardSeq' = cardSeq /\ elsewhere' = elsewhere /\ handler = Idle
  BY DEF Inv, TypeOK, DeleteDeck, In
<1>2. CASE ~ Exists(dialog.deck)
  <2>1. /\ handler' = Idle /\ Idle \in Handlers /\ Idle.pc = "idle" /\ dialog' = dialog
        /\ screen' = screen /\ decks' = decks /\ cards' = cards
        /\ changed' = changed /\ walk' = walk
    BY <1>2 DEF DeleteDeck, Raise, Handlers, Idle, history
  <2> QED
    BY <1>1, <2>1 DEF Inv, TypeOK, HandlerSound
<1>3. CASE Exists(dialog.deck)
  <2>1. /\ decks' = [decks EXCEPT ![dialog.deck] = NoName] /\ Without(IdsIn(dialog.deck))
        /\ AfterwardsRender(data)
    BY <1>3 DEF DeleteDeck
  <2>2. dialog.deck \in DOMAIN decks
    BY <1>3 DEF Exists
  <2>3. handler.pc # "stats" /\ Sound(dialog, decks, cards, cardSeq, changed, walk)
    BY <1>1 DEF Idle, Inv
  <2>4. /\ decks' \in UNION {[1..n -> Names \cup {NoName}] : n \in 0..MaxDecks}
        /\ cards' \subseteq [id : 1..cardSeq', deck : DOMAIN decks']
        /\ Sound(dialog, decks', cards', cardSeq', changed', walk')
    BY <1>1, <2>1, <2>2, <2>3, Drops
  <2>5. WalkSound(walk', cards') /\ changed' \subseteq {"name", "renamed", "cards"}
    BY <2>1, WithoutKeeps
  <2>6. /\ data \in Dialogs /\ data.state = "list_decks" /\ data.deck = dialog.deck
        /\ data.name = dialog.name /\ data.total = dialog.total /\ data.page = dialog.page
        /\ data.card = dialog.card /\ data.word = dialog.word
    BY <1>1, Variants DEF To, Windows
  <2> HIDE DEF data
  <2>7. Sound(data, decks', cards', cardSeq', changed', walk')
    BY <2>4, <2>6, OtherWindow DEF OfDeck
  <2>8. elsewhere' \in 0..MaxElsewhere /\ cardSeq' \in 0..MaxCards
    BY <1>1 DEF TypeOK
  <2> QED
    BY <1>1, <2>1, <2>4, <2>5, <2>6, <2>7, <2>8, AfterwardsKeepsInv
<1> QED
  BY <1>2, <1>3

LEMMA DeleteCardKeepsInv == Inv /\ DeleteCard => Inv'
<1> SUFFICES ASSUME Inv, DeleteCard PROVE Inv'
  OBVIOUS
<1> DEFINE data == To("view_cards")
<1>1. /\ TypeOK /\ dialog \in Dialogs /\ dialog.state = "confirm_delete_card"
      /\ cardSeq' = cardSeq /\ elsewhere' = elsewhere /\ decks' = decks
  BY DEF Inv, TypeOK, DeleteCard, In
<1>2. CASE dialog.card \notin Live
  <2>1. /\ handler' = Idle /\ Idle \in Handlers /\ Idle.pc = "idle" /\ dialog' = dialog
        /\ screen' = screen /\ cards' = cards /\ changed' = changed /\ walk' = walk
    BY <1>2 DEF DeleteCard, Raise, Handlers, Idle, history
  <2> QED
    BY <1>1, <2>1 DEF Inv, TypeOK, HandlerSound
<1>3. CASE dialog.card \in Live
  <2>1. Without({dialog.card}) /\ AfterwardsRender(data)
    BY <1>3 DEF DeleteCard
  <2>2. Sound(dialog, decks, cards, cardSeq, changed, walk)
    BY DEF Inv
  <2>3. /\ Sound(dialog, decks, cards', cardSeq, changed', walk')
        /\ WalkSound(walk', cards') /\ cards' \subseteq cards
        /\ changed' \subseteq {"name", "renamed", "cards"}
    BY <2>1, <2>2, WithoutKeeps
  <2>4. /\ data \in Dialogs /\ data.state = "view_cards" /\ data.deck = dialog.deck
        /\ data.name = dialog.name /\ data.total = dialog.total /\ data.page = dialog.page
        /\ data.card = dialog.card /\ data.word = dialog.word
    BY <1>1, Variants DEF To, Windows
  <2> HIDE DEF data
  <2>5. Sound(data, decks, cards', cardSeq, changed', walk')
    BY <1>1, <2>3, <2>4, OtherWindow DEF OfDeck
  <2>6. /\ decks' \in UNION {[1..n -> Names \cup {NoName}] : n \in 0..MaxDecks}
        /\ elsewhere' \in 0..MaxElsewhere /\ cardSeq' \in 0..MaxCards
        /\ cards' \subseteq [id : 1..cardSeq', deck : DOMAIN decks']
    BY <1>1, <2>3 DEF TypeOK
  <2> QED
    BY <1>1, <2>1, <2>3, <2>4, <2>5, <2>6, AfterwardsKeepsInv
<1> QED
  BY <1>2, <1>3

\* A change made in another chat leaves the dialog as it is.
LEMMA ElsewhereKeepsInv ==
  ASSUME Inv, Elsewhere,
         decks' \in UNION {[1..n -> Names \cup {NoName}] : n \in 0..MaxDecks},
         cardSeq' \in 0..MaxCards, cards' \subseteq [id : 1..cardSeq', deck : DOMAIN decks'],
         changed' \subseteq {"name", "renamed", "cards"}, WalkSound(walk', cards'),
         Sound(dialog, decks', cards', cardSeq', changed', walk'),
         HandlerSound(handler, decks', cards', cardSeq', changed', walk'),
         ListSound(dialog, screen, cards', cardSeq', walk')
  PROVE  Inv'
<1>1. dialog' = dialog /\ screen' = screen /\ handler' = handler
  BY DEF Elsewhere
<1>2. elsewhere' \in 0..MaxElsewhere
  BY BoundsAssumption DEF Elsewhere, Inv, TypeOK
<1>3. TypeOK'
  BY <1>1, <1>2 DEF Inv, TypeOK, WalkSound
<1> QED
  BY <1>1, <1>3 DEF Inv

\* What the invariant says of the data under way.
LEMMA Kept ==
  ASSUME Inv
  PROVE  /\ Sound(dialog, decks, cards, cardSeq, changed, walk)
         /\ HandlerSound(handler, decks, cards, cardSeq, changed, walk)
         /\ ListSound(dialog, screen, cards, cardSeq, walk)
         /\ handler.pc # "idle" => handler.data.page \in Nat
         /\ handler.pc = "stats" => OfDeck(handler.data.state)
         /\ dialog.page \in Nat
         /\ dialog.state = "view_cards" => dialog.deck # 0
<1>1. handler \in Handlers /\ dialog \in Dialogs /\ TypeOK
  BY DEF Inv, TypeOK
<1>2. handler.pc # "idle" => handler.data \in Dialogs
  BY <1>1 DEF Handlers, Idle
<1>3. handler.pc = "stats" => OfDeck(handler.data.state)
  BY DEF Inv, HandlerSound, OfDeck
<1>4. dialog.state = "view_cards" => dialog.deck # 0
  BY <1>1, Basics DEF Inv, Sound, Placed, OfDeck
<1> QED
  BY <1>1, <1>2, <1>3, <1>4, Fields DEF Inv

LEMMA AddElsewhereKeepsInv ==
  ASSUME Inv, NEW deck \in Decks, AddElsewhere(deck)
  PROVE  Inv'
<1> DEFINE more == cards \cup {[id |-> cardSeq + 1, deck |-> deck]}
           known == changed \cup {"cards"}
<1>1. /\ TypeOK /\ Elsewhere /\ cardSeq' = cardSeq + 1 /\ cards' = more /\ changed' = known
      /\ decks' = decks /\ walk' = walk /\ cardSeq < MaxCards
  BY DEF Inv, AddElsewhere
<1>2. LiveOf(cards) \subseteq 1..cardSeq /\ cardSeq \in Nat /\ MaxCards \in Nat
  BY <1>1, Basics
<1>3. /\ Sound(dialog, decks, more, cardSeq + 1, known, walk)
      /\ HandlerSound(handler, decks, more, cardSeq + 1, known, walk)
      /\ ListSound(dialog, screen, more, cardSeq + 1, walk)
      /\ \A x : IdsOf(cards, x) \subseteq IdsOf(more, x)
  BY <1>2, Kept, CardAdded
<1>4. WalkSound(walk, more)
  BY <1>3 DEF Inv, WalkSound
<1>5. cardSeq + 1 \in 0..MaxCards
  BY <1>1, <1>2
<1>6. more \subseteq [id : 1..(cardSeq + 1), deck : DOMAIN decks]
  <2>1. deck \in DOMAIN decks
    BY DEF Decks
  <2>2. cards \subseteq [id : 1..cardSeq, deck : DOMAIN decks]
    BY <1>1 DEF TypeOK
  <2>3. 1..cardSeq \subseteq 1..(cardSeq + 1) /\ cardSeq + 1 \in 1..(cardSeq + 1)
    BY <1>2
  <2>4. [id |-> cardSeq + 1, deck |-> deck] \in [id : 1..(cardSeq + 1), deck : DOMAIN decks]
    BY <2>1, <2>3
  <2>5. cards \subseteq [id : 1..(cardSeq + 1), deck : DOMAIN decks]
    BY <2>2, <2>3
  <2> QED
    BY <2>4, <2>5
<1>7. known \subseteq {"name", "renamed", "cards"}
      /\ decks \in UNION {[1..n -> Names \cup {NoName}] : n \in 0..MaxDecks}
  BY <1>1 DEF TypeOK
<1> HIDE DEF more, known
<1> QED
  BY <1>1, <1>3, <1>4, <1>5, <1>6, <1>7, ElsewhereKeepsInv

LEMMA DeleteElsewhereKeepsInv ==
  ASSUME Inv, NEW k, DeleteElsewhere(k)
  PROVE  Inv'
<1>1. TypeOK /\ Elsewhere /\ Without({k}) /\ decks' = decks /\ cardSeq' = cardSeq
  BY DEF Inv, DeleteElsewhere
<1>2. /\ Sound(dialog, decks, cards', cardSeq, changed', walk')
      /\ HandlerSound(handler, decks, cards', cardSeq, changed', walk')
      /\ WalkSound(walk', cards') /\ cards' \subseteq cards
      /\ changed' \subseteq {"name", "renamed", "cards"}
  BY <1>1, Kept, WithoutKeeps
<1>3. ListSound(dialog, screen, cards', cardSeq, walk')
  <2>1. CASE dialog.state = "view_cards"
    BY <1>1, <2>1, Kept, WithoutKeeps
  <2>2. CASE dialog.state # "view_cards"
    BY <2>2 DEF ListSound
  <2> QED
    BY <2>1, <2>2
<1>4. /\ decks \in UNION {[1..n -> Names \cup {NoName}] : n \in 0..MaxDecks}
      /\ cardSeq \in 0..MaxCards /\ cards' \subseteq [id : 1..cardSeq, deck : DOMAIN decks]
  BY <1>1, <1>2 DEF TypeOK
<1> QED
  BY <1>1, <1>2, <1>3, <1>4, ElsewhereKeepsInv

LEMMA RenameElsewhereKeepsInv ==
  ASSUME Inv, NEW d \in Decks, NEW name \in Names, RenameElsewhere(d, name)
  PROVE  Inv'
<1>1. /\ TypeOK /\ Elsewhere /\ decks' = [decks EXCEPT ![d] = name]
      /\ changed' = changed \cup {"name"} /\ cards' = cards /\ cardSeq' = cardSeq /\ walk' = walk
  BY DEF Inv, RenameElsewhere
<1>2. Lives(decks, d) /\ d \in DOMAIN decks
  BY SameNames DEF Decks, Lives
<1>3. DOMAIN decks' = DOMAIN decks /\ \A x \in DOMAIN decks : Lives(decks', x) => Lives(decks, x)
  BY <1>1, <1>2 DEF Lives
<1>4. "name" \in changed' /\ ("cards" \notin changed' => "cards" \notin changed)
      /\ ("renamed" \notin changed' => "renamed" \notin changed)
  BY <1>1
<1>5. /\ Sound(dialog, decks', cards, cardSeq, changed', walk)
      /\ HandlerSound(handler, decks', cards, cardSeq, changed', walk)
  BY <1>3, <1>4, Kept, DecksChanged
<1>6. decks' \in UNION {[1..n -> Names \cup {NoName}] : n \in 0..MaxDecks}
  <2>1. PICK n \in 0..MaxDecks : decks \in [1..n -> Names \cup {NoName}]
    BY <1>1 DEF TypeOK
  <2>2. decks' \in [1..n -> Names \cup {NoName}]
    BY <1>1, <2>1
  <2> QED
    BY <2>2
<1>7. /\ cardSeq \in 0..MaxCards /\ cards \subseteq [id : 1..cardSeq, deck : DOMAIN decks']
      /\ changed' \subseteq {"name", "renamed", "cards"}
  BY <1>1, <1>3 DEF TypeOK
<1>8. WalkSound(walk, cards) /\ ListSound(dialog, screen, cards, cardSeq, walk)
  BY DEF Inv
<1> QED
  BY <1>1, <1>5, <1>6, <1>7, <1>8, ElsewhereKeepsInv

LEMMA DropElsewhereKeepsInv ==
  ASSUME Inv, NEW d \in Decks, DropElsewhere(d)
  PROVE  Inv'
<1>1. /\ TypeOK /\ Elsewhere /\ decks' = [decks EXCEPT ![d] = NoName]
      /\ Without(IdsIn(d)) /\ cardSeq' = cardSeq /\ d \in DOMAIN decks
  BY DEF Inv, DropElsewhere, Decks
<1>2. /\ decks' \in UNION {[1..n -> Names \cup {NoName}] : n \in 0..MaxDecks}
      /\ cards' \subseteq [id : 1..cardSeq', deck : DOMAIN decks']
      /\ Sound(dialog, decks', cards', cardSeq', changed', walk')
      /\ HandlerSound(handler, decks', cards', cardSeq', changed', walk')
  BY <1>1, Kept, Drops
<1>3. WalkSound(walk', cards') /\ changed' \subseteq {"name", "renamed", "cards"}
  BY <1>1, WithoutKeeps
<1>4. ListSound(dialog, screen, cards', cardSeq', walk')
  <2>1. CASE dialog.state = "view_cards"
    BY <1>1, <2>1, Kept, WithoutKeeps
  <2>2. CASE dialog.state # "view_cards"
    BY <2>2 DEF ListSound
  <2> QED
    BY <2>1, <2>2
<1>5. cardSeq' \in 0..MaxCards
  BY <1>1 DEF TypeOK
<1> QED
  BY <1>1, <1>2, <1>3, <1>4, <1>5, ElsewhereKeepsInv

-----------------------------------------------------------------------------
(* The theorems.                                                           *)

LEMMA NextInv == Inv /\ [Next]_vars => Inv'
<1> SUFFICES ASSUME Inv, [Next]_vars PROVE Inv'
  OBVIOUS
<1>1. CASE OpenDecks
  BY <1>1, OpenDecksKeepsInv
<1>2. CASE Leave \/ StartReview
  BY <1>2, LeaveKeepsInv DEF StartReview
<1>3. CASE GetStats
  BY <1>3, GetStatsKeepsInv
<1>4. CASE PrevPage \/ NextPage
  BY <1>4, PrevPageKeepsInv, NextPageKeepsInv
<1>5. CASE GetterCall \/ GetPage \/ Fail
  BY <1>5, GetterCallKeepsInv, GetPageKeepsInv, FailKeepsInv
<1>6. CASE \E w \in Windows : Switch(w)
  BY <1>6, SwitchKeepsInv
<1>7. CASE \E i \in screen.items : SelectDeck(i) \/ SelectCard(i)
  BY <1>7, SelectDeckKeepsInv, SelectCardKeepsInv
<1>8. CASE \E name \in Names : CreateDeck(name) \/ Rename(name)
  BY <1>8, CreateDeckKeepsInv, RenameKeepsInv
<1>9. CASE DeleteDeck \/ ResetProgress \/ DeleteCard
  BY <1>9, DeleteDeckKeepsInv, ResetProgressKeepsInv, DeleteCardKeepsInv
<1>10. CASE \E d \in Decks : AddElsewhere(d) \/ DropElsewhere(d)
  BY <1>10, AddElsewhereKeepsInv, DropElsewhereKeepsInv
<1>11. CASE \E d \in Decks : \E name \in Names : RenameElsewhere(d, name)
  BY <1>11, RenameElsewhereKeepsInv
<1>12. CASE \E k \in Live : DeleteElsewhere(k)
  BY <1>12, DeleteElsewhereKeepsInv
<1>13. CASE UNCHANGED vars
  BY <1>13 DEF vars, Inv, TypeOK
<1> QED
  BY <1>1, <1>2, <1>3, <1>4, <1>5, <1>6, <1>7, <1>8, <1>9, <1>10, <1>11, <1>12, <1>13 DEF Next

\* What is stored of a deck and a card stays true unless it is noted as changed,
\* and the pages seen are complete, in every reachable state.
THEOREM Invariance == Spec => []Inv
<1>1. Init => Inv
  BY InitInv
<1>2. Inv /\ [Next]_vars => Inv'
  BY NextInv
<1> QED
  BY <1>1, <1>2, PTL DEF Spec

\* Every handler of the dialog keeps its data, the rows and the list of cards
\* within their types, for any number of decks and cards.
THEOREM TypeCorrect == Spec => []TypeOK
<1>1. Inv => TypeOK
  BY DEF Inv
<1> QED
  BY <1>1, Invariance, PTL

\* Paging with the buttons offered shows every card, for any size of a page and
\* any number of cards, and no page is empty by a fault of the counting.
THEOREM PagersReachAll == Spec => []PagerReachesAll
<1>1. Inv => PagerReachesAll
  <2> SUFFICES ASSUME Inv, dialog.state = "view_cards", walk.deck = dialog.deck
               PROVE  /\ walk.whole /\ ~ screen.next => walk.counted \cap Live \subseteq walk.seen
                      /\ ~ walk.torn /\ (screen.prev \/ screen.next) => screen.items # {}
    BY DEF PagerReachesAll
  <2>1. ListSound(dialog, screen, cards, cardSeq, walk)
    BY DEF Inv
  <2> QED
    BY <2>1 DEF ListSound
<1> QED
  BY <1>1, Invariance, PTL

\* A confirmation deletes what it named, whatever was deleted or renamed since.
THEOREM DeletionsAreAsNamed == Spec => DeletesWhatItNamed
<1> DEFINE gone == Live \ {row.id : row \in cards'}
           dropped == {d \in Decks : decks'[d] = NoName}
           Named ==
             elsewhere' = elsewhere /\ (gone # {} \/ dropped # {}) =>
               \/ /\ dialog.state = "confirm_delete_card"
                  /\ gone = {dialog.word} /\ dropped = {}
               \/ /\ dialog.state = "confirm_delete_deck"
                  /\ dropped = {dialog.deck}
                  /\ changed \cap {"name", "renamed"} = {} => decks[dialog.deck] = dialog.name
                  /\ "cards" \notin changed => Cardinality(gone) = dialog.total
<1>1. Inv /\ [Next]_vars => [Named]_vars
  <2> SUFFICES ASSUME Inv, Next, elsewhere' = elsewhere, gone # {} \/ dropped # {}
               PROVE  Named
    OBVIOUS
  <2>1. elsewhere \in Nat /\ \A d \in Decks : d \in DOMAIN decks /\ decks[d] # NoName
    BY BoundsAssumption DEF Inv, TypeOK, Decks, Exists
  <2>2. ~ Elsewhere
    BY <2>1 DEF Elsewhere
  <2>3. LiveOf(cards) = Live /\ LiveOf(cards') = {row.id : row \in cards'}
    BY SameNames DEF LiveOf
  <2>4. cards' = cards => gone = {}
    BY <2>3
  <2>5. decks' = decks => dropped = {}
    BY <2>1
  <2>6. ~ (cards' = cards /\ decks' = decks)
    BY <2>4, <2>5
  <2>7. CASE DeleteDeck
    <3>1. Exists(dialog.deck) /\ dialog.state = "confirm_delete_deck"
          /\ decks' = [decks EXCEPT ![dialog.deck] = NoName] /\ Without(IdsIn(dialog.deck))
      BY <2>6, <2>7 DEF DeleteDeck, In
    <3>2. dialog.deck \in Decks /\ dialog.deck \in DOMAIN decks
      BY <3>1 DEF Decks, Exists
    <3>3. dropped = {dialog.deck}
      <4>1. decks'[dialog.deck] = NoName /\ \A d \in DOMAIN decks : d # dialog.deck => decks'[d] = decks[d]
        BY <3>1, <3>2
      <4> QED
        BY <2>1, <3>2, <4>1
    <3>4. gone = IdsOf(cards, dialog.deck)
      <4>1. LiveOf(cards') = LiveOf(cards) \ IdsIn(dialog.deck)
        BY <3>1, WithoutKeeps
      <4>2. IdsIn(dialog.deck) \subseteq LiveOf(cards) /\ IdsIn(dialog.deck) = IdsOf(cards, dialog.deck)
        BY SameNames DEF LiveOf, IdsOf
      <4> QED
        BY <2>3, <4>1, <4>2
    <3>5. Sound(dialog, decks, cards, cardSeq, changed, walk) /\ Lives(decks, dialog.deck)
      BY <3>1, SameNames DEF Inv
    <3>6. /\ changed \cap {"name", "renamed"} = {} => decks[dialog.deck] = dialog.name
          /\ "cards" \notin changed => Cardinality(gone) = dialog.total
      BY <3>1, <3>4, <3>5 DEF Sound, OfDeck
    <3> HIDE DEF gone, dropped
    <3> QED
      BY <3>1, <3>3, <3>6
  <2>8. CASE DeleteCard
    <3>1. dialog.card \in Live /\ dialog.state = "confirm_delete_card"
          /\ decks' = decks /\ Without({dialog.card})
      BY <2>6, <2>8 DEF DeleteCard, In
    <3>2. LiveOf(cards') = LiveOf(cards) \ {dialog.card}
      BY <3>1, WithoutKeeps
    <3>3. gone = {dialog.card}
      BY <2>3, <3>1, <3>2
    <3>4. dialog.card = dialog.word
      BY <2>3, <3>1 DEF Inv, Sound, Placed
    <3> HIDE DEF gone, dropped
    <3> QED
      BY <2>5, <3>1, <3>3, <3>4
  <2>9. CASE \E name \in Names : CreateDeck(name) \/ Rename(name)
    <3>1. PICK name \in Names : CreateDeck(name) \/ Rename(name)
      BY <2>9
    <3>2. name # NoName /\ cards' = cards
      BY <3>1, NoNameAssumption DEF CreateDeck, Rename
    <3>3. CASE CreateDeck(name)
      <4>1. \A d \in DOMAIN decks : decks'[d] = decks[d]
        <5>1. PICK n \in 0..MaxDecks : decks \in [1..n -> Names \cup {NoName}]
          BY DEF Inv, TypeOK
        <5>2. Cardinality(DOMAIN decks) = n /\ n \in Nat /\ DOMAIN decks = 1..n
          BY <5>1, FS_Interval
        <5>3. decks' = [d \in 1..(n + 1) |-> IF d \in DOMAIN decks THEN decks[d] ELSE name]
          BY <3>3, <5>2 DEF CreateDeck
        <5> QED
          BY <5>2, <5>3
      <4> QED
        BY <2>1, <2>4, <3>2, <4>1
    <3>4. CASE Rename(name)
      <4>1. decks' = decks \/ (dialog.deck \in DOMAIN decks /\ decks' = [decks EXCEPT ![dialog.deck] = name])
        BY <3>4 DEF Rename, Exists
      <4>2. \A d \in Decks : decks'[d] # NoName
        BY <2>1, <3>2, <4>1
      <4> QED
        BY <2>4, <3>2, <4>2
    <3> QED
      BY <3>1, <3>3, <3>4
  <2> HIDE DEF gone, dropped
  <2>10. DeleteDeck \/ DeleteCard \/ \E name \in Names : CreateDeck(name) \/ Rename(name)
    BY <2>2, <2>6 DEF Next, OpenDecks, Leave, StartReview, GetStats, PrevPage, NextPage, GetterCall,
       GetPage, Fail, Switch, SelectDeck, SelectCard, ResetProgress, AddElsewhere, DropElsewhere,
       RenameElsewhere, DeleteElsewhere
  <2> QED
    BY <2>7, <2>8, <2>9, <2>10
<1>2. [][Named]_vars <=> DeletesWhatItNamed
  BY DEF DeletesWhatItNamed
<1> HIDE DEF Named
<1> QED
  BY <1>1, <1>2, Invariance, PTL DEF Spec
=============================================================================
