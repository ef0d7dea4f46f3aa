------------------------- MODULE ReviewSessionProofs -------------------------
(***************************************************************************)
(* Proofs about ReviewSession for any number of chats, cards, failures and *)
(* days, and any size of a session.  The stored context of a chat, the     *)
(* rating it handles and the cards rated so far belong together (Sound);   *)
(* while nothing fails they agree card by card (InOrder), and while no two *)
(* chats hold one card, what a session has still to rate is still due      *)
(* (StillDue).                                                             *)
(***************************************************************************)
EXTENDS ReviewSession, SequenceTheorems, FiniteSetTheorems, TLAPS

\* Context d, handler h and the rated cards r of one chat: the cards of a
\* session are distinct; only a rating in the "back" window is handled; the
\* index counts the cards passed, each of them rated; and the card whose review
\* is committed is rated, though the context does not say so yet.
Sound(d, h, r, days) ==
  /\ \A i, j \in DOMAIN d.ids : i # j => d.ids[i] # d.ids[j]
  /\ ~ InSession(d) => Len(d.ids) = 0
  /\ h.pc # "idle" => d.state = "back"
  /\ d.state \in {"front", "back"} =>
       d.reviewed = d.index /\ (Len(d.ids) > 0 => d.index < Len(d.ids))
  /\ d.state = "complete" =>
       d.finished \in days
         /\ (Len(d.ids) > 0 => d.index = Len(d.ids) /\ d.reviewed = Len(d.ids))
  /\ h.pc \in {"log", "review"} => HasCard(d) /\ h.card = Current(d)
  /\ h.pc = "render" /\ IsLast(d) => h.today \in days
  /\ h.pc \in {"streak", "render"} /\ HasCard(d) => Current(d) \in Elements(r)
  /\ \A i \in DOMAIN d.ids : i <= d.index => d.ids[i] \in Elements(r)
  /\ Elements(r) \subseteq Elements(d.ids)

\* How many cards a chat has rated when none was rated again.
Ahead(d, h) == HasCard(d) /\ h.pc \in {"streak", "render"}
RatedCount(d, h) == IF Ahead(d, h) THEN d.index + 1 ELSE Fewer(d.index, Len(d.ids))

InOrder(d, h, r) ==
  /\ Len(r) = RatedCount(d, h)
  /\ \A i \in 1..RatedCount(d, h) : r[i] = d.ids[i]

Sessions == \A c \in Chats : Sound(dialog[c], handler[c], rated[c], counted)

Orders == failures = 0 => \A c \in Chats : InOrder(dialog[c], handler[c], rated[c])

\* While nothing failed and no card was held twice: sessions do not overlap, and
\* what a session has still to rate is still due, unless it was deleted.
Apart ==
  \A c, e \in Chats : c # e /\ InSession(dialog[c]) /\ InSession(dialog[e]) =>
    Remaining(dialog[c]) \cap Remaining(dialog[e]) = {}
StillDue ==
  \A c \in Chats : InSession(dialog[c]) =>
    \A k \in Remaining(dialog[c]) \cap live :
      k \in due \/ (Ahead(dialog[c], handler[c]) /\ k = Current(dialog[c]))
Fresh == failures = 0 /\ ~ contested => early = {} /\ Apart /\ StillDue

\* A log without a review is due to a handler under way or to a failure.
Counts ==
  \A k \in live :
    /\ reviews[k] + Cardinality(Reviewing(k)) <= logs[k]
    /\ logs[k] <= reviews[k] + Cardinality(Reviewing(k)) + failures * Cardinality(Chats)

Inv == TypeOK /\ Sessions /\ Orders /\ Fresh /\ Counts

-----------------------------------------------------------------------------
(* Lists of cards.                                                         *)

LEMMA Added ==
  ASSUME NEW r \in Seq(Cards), NEW k \in Cards
  PROVE  /\ Append(r, k) \in Seq(Cards) /\ Len(Append(r, k)) = Len(r) + 1
         /\ Append(r, k)[Len(r) + 1] = k
         /\ \A i \in 1..Len(r) : Append(r, k)[i] = r[i]
         /\ Elements(Append(r, k)) = Elements(r) \cup {k}
<1>1. /\ Append(r, k) \in Seq(Cards) /\ Len(Append(r, k)) = Len(r) + 1
      /\ Append(r, k)[Len(r) + 1] = k
      /\ \A i \in 1..Len(r) : Append(r, k)[i] = r[i]
  OBVIOUS
<1>2. /\ DOMAIN r = 1..Len(r) /\ Len(r) \in Nat
      /\ DOMAIN Append(r, k) = 1..(Len(r) + 1)
  BY <1>1
<1>3. \A i \in 1..(Len(r) + 1) : i \in 1..Len(r) \/ i = Len(r) + 1
  BY <1>2
<1>4. Len(r) + 1 \in 1..(Len(r) + 1) /\ 1..Len(r) \subseteq 1..(Len(r) + 1)
  BY <1>2
<1> QED
  BY <1>1, <1>2, <1>3, <1>4 DEF Elements

\* The cards loaded are due, and none comes twice.
LEMMA Lists ==
  ASSUME TypeOK, NEW ids \in DueLists
  PROVE  /\ ids \in Seq(Cards)
         /\ \A i, j \in DOMAIN ids : i # j => ids[i] # ids[j]
         /\ \A i \in DOMAIN ids : ids[i] \in due
<1> DEFINE n == Fewer(Cardinality(due), Limit)
<1>1. n \in Nat
  <2>1. IsFiniteSet(due)
    BY ReviewAssumption, FS_Subset DEF TypeOK
  <2> QED
    BY <2>1, ReviewAssumption, FS_CardinalityType DEF Fewer
<1>2. ids \in [1..n -> due] /\ \A i, j \in 1..n : i # j => ids[i] # ids[j]
  BY DEF DueLists, Orderings
<1> HIDE DEF n
<1>3. ids \in Seq(Cards)
  BY <1>1, <1>2 DEF TypeOK
<1> QED
  BY <1>2, <1>3

\* What the index tells of a context.
LEMMA Indices ==
  ASSUME NEW d \in Contexts
  PROVE  /\ d.ids \in Seq(Cards) /\ DOMAIN d.ids = 1..Len(d.ids) /\ Len(d.ids) \in Nat
         /\ d.index \in Nat /\ d.reviewed \in Nat
         /\ HasCard(d) <=> d.index < Len(d.ids)
         /\ HasCard(d) => /\ d.index + 1 \in DOMAIN d.ids /\ Current(d) \in Cards
                          /\ Current(d) \in Remaining(d)
                          /\ Fewer(d.index, Len(d.ids)) = d.index
         /\ ~ HasCard(d) => Fewer(d.index, Len(d.ids)) = Len(d.ids)
         /\ Remaining(d) = {d.ids[i] : i \in {j \in DOMAIN d.ids : j > d.index}}
<1>1. /\ d.ids \in Seq(Cards) /\ DOMAIN d.ids = 1..Len(d.ids) /\ Len(d.ids) \in Nat
      /\ d.index \in Nat /\ d.reviewed \in Nat
  BY DEF Contexts
<1>2. HasCard(d) <=> d.index < Len(d.ids)
  BY DEF HasCard
<1>3. ASSUME HasCard(d)
      PROVE  /\ d.index + 1 \in DOMAIN d.ids /\ Current(d) \in Cards
             /\ Current(d) \in Remaining(d) /\ Fewer(d.index, Len(d.ids)) = d.index
  <2>1. d.index + 1 \in 1..Len(d.ids) /\ d.index + 1 \in (d.index + 1)..Len(d.ids)
    BY <1>1, <1>2, <1>3
  <2> QED
    BY <1>1, <1>2, <1>3, <2>1 DEF Current, Remaining, Fewer
<1>4. ~ HasCard(d) => Fewer(d.index, Len(d.ids)) = Len(d.ids)
  BY <1>1, <1>2 DEF Fewer
<1>5. (d.index + 1)..Len(d.ids) = {j \in DOMAIN d.ids : j > d.index}
  BY <1>1
<1> QED
  BY <1>1, <1>2, <1>3, <1>4, <1>5 DEF Remaining

\* The cards passed, one by one.
LEMMA PassedOnes ==
  ASSUME NEW d \in Contexts
  PROVE  LET n == Fewer(d.index, Len(d.ids))
         IN  /\ n \in Nat /\ n <= Len(d.ids)
             /\ Passed(d) \in Seq(Cards) /\ Len(Passed(d)) = n
             /\ \A i \in 1..n : Passed(d)[i] = d.ids[i]
<1> DEFINE n == Fewer(d.index, Len(d.ids))
<1>1. n \in Nat /\ n <= Len(d.ids) /\ d.ids \in Seq(Cards)
  BY DEF Contexts, Fewer
<1> HIDE DEF n
<1>2. \A i \in 1..n : d.ids[i] \in Cards
  BY <1>1
<1>3. /\ SubSeq(d.ids, 1, n) \in Seq(Cards)
      /\ Len(SubSeq(d.ids, 1, n)) = IF 1 <= n THEN n - 1 + 1 ELSE 0
      /\ \A i \in 1..(n - 1 + 1) : SubSeq(d.ids, 1, n)[i] = d.ids[1 + i - 1]
  BY <1>1, <1>2, SubSeqProperties
<1>4. Passed(d) = SubSeq(d.ids, 1, n)
  BY DEF Passed, n
<1> QED
  BY <1>1, <1>3, <1>4 DEF n

-----------------------------------------------------------------------------
(* What a step of one chat must do to keep the parts of the invariant.     *)

LEMMA Typed ==
  ASSUME Inv, NEW c \in Chats
  PROVE  /\ dialog[c] \in Contexts /\ handler[c] \in Handlers /\ rated[c] \in Seq(Cards)
         /\ handler[c].today <= day /\ Sound(dialog[c], handler[c], rated[c], counted)
         /\ failures = 0 => InOrder(dialog[c], handler[c], rated[c])
BY DEF Inv, TypeOK, Sessions, Orders

LEMMA MovesOn ==
  ASSUME Inv, NEW c \in Chats, NEW d \in Contexts, NEW h \in Handlers, NEW r \in Seq(Cards),
         dialog' = [dialog EXCEPT ![c] = d], handler' = [handler EXCEPT ![c] = h],
         rated' = [rated EXCEPT ![c] = r],
         h.today <= day, UNCHANGED <<day, failures>>, counted \subseteq counted',
         Sound(d, h, r, counted'), failures = 0 => InOrder(d, h, r)
  PROVE  /\ dialog' \in [Chats -> Contexts] /\ handler' \in [Chats -> Handlers]
         /\ rated' \in [Chats -> Seq(Cards)]
         /\ \A x \in Chats : handler'[x].today <= day'
         /\ Sessions' /\ Orders'
<1>1. /\ dialog' \in [Chats -> Contexts] /\ handler' \in [Chats -> Handlers]
      /\ rated' \in [Chats -> Seq(Cards)]
      /\ dialog'[c] = d /\ handler'[c] = h /\ rated'[c] = r
      /\ \A x \in Chats \ {c} : /\ dialog'[x] = dialog[x] /\ handler'[x] = handler[x]
                                /\ rated'[x] = rated[x]
  BY DEF Inv, TypeOK
<1>2. \A x \in Chats : handler'[x].today <= day'
  BY <1>1 DEF Inv, TypeOK
<1>3. ASSUME NEW x \in Chats
      PROVE  Sound(dialog'[x], handler'[x], rated'[x], counted')
  <2>1. CASE x = c
    BY <1>1, <2>1
  <2>2. CASE x # c
    <3>1. Sound(dialog[x], handler[x], rated[x], counted)
      BY Typed
    <3>2. Sound(dialog[x], handler[x], rated[x], counted')
      BY <3>1 DEF Sound
    <3> QED
      BY <1>1, <2>2, <3>2
  <2> QED
    BY <2>1, <2>2
<1>4. ASSUME failures' = 0, NEW x \in Chats
      PROVE  InOrder(dialog'[x], handler'[x], rated'[x])
  BY <1>1, <1>4, Typed
<1> QED
  BY <1>1, <1>2, <1>3, <1>4 DEF Sessions, Orders

LEMMA StaysFresh ==
  ASSUME Inv, NEW c \in Chats, NEW d \in Contexts, NEW h \in Handlers,
         dialog' = [dialog EXCEPT ![c] = d], handler' = [handler EXCEPT ![c] = h],
         failures' = failures, contested => contested', live' \subseteq live,
         failures = 0 /\ ~ contested' /\ early = {} /\ Apart /\ StillDue =>
           /\ early' = {}
           /\ InSession(d) => \A x \in Chats \ {c} : InSession(dialog[x]) =>
                                Remaining(d) \cap Remaining(dialog[x]) = {}
           /\ InSession(d) => \A k \in Remaining(d) \cap live' :
                                k \in due' \/ (Ahead(d, h) /\ k = Current(d))
           /\ \A x \in Chats \ {c} : InSession(dialog[x]) =>
                \A k \in Remaining(dialog[x]) \cap live' : k \in due => k \in due'
  PROVE  Fresh'
<1>1. /\ dialog'[c] = d /\ handler'[c] = h
      /\ \A x \in Chats \ {c} : dialog'[x] = dialog[x] /\ handler'[x] = handler[x]
  BY DEF Inv, TypeOK
<1>2. SUFFICES ASSUME failures' = 0, ~ contested'
               PROVE  early' = {} /\ Apart' /\ StillDue'
  BY DEF Fresh
<1>3. failures = 0 /\ ~ contested' /\ early = {} /\ Apart /\ StillDue
  BY <1>2 DEF Inv, Fresh
<1>4. /\ early' = {}
      /\ InSession(d) => \A x \in Chats \ {c} : InSession(dialog[x]) =>
                           Remaining(d) \cap Remaining(dialog[x]) = {}
      /\ InSession(d) => \A k \in Remaining(d) \cap live' :
                           k \in due' \/ (Ahead(d, h) /\ k = Current(d))
      /\ \A x \in Chats \ {c} : InSession(dialog[x]) =>
           \A k \in Remaining(dialog[x]) \cap live' : k \in due => k \in due'
  BY <1>3
<1>5. Apart'
  <2> SUFFICES ASSUME NEW x \in Chats, NEW y \in Chats, x # y,
                      InSession(dialog'[x]), InSession(dialog'[y])
               PROVE  Remaining(dialog'[x]) \cap Remaining(dialog'[y]) = {}
    BY DEF Apart
  <2>1. CASE x # c /\ y # c
    BY <1>1, <1>3, <2>1 DEF Apart
  <2>2. CASE x = c
    BY <1>1, <1>4, <2>2
  <2>3. CASE y = c
    BY <1>1, <1>4, <2>3
  <2> QED
    BY <2>1, <2>2, <2>3
<1>6. StillDue'
  <2> SUFFICES ASSUME NEW x \in Chats, InSession(dialog'[x]),
                      NEW k \in Remaining(dialog'[x]) \cap live'
               PROVE  k \in due' \/ (Ahead(dialog'[x], handler'[x]) /\ k = Current(dialog'[x]))
    BY DEF StillDue
  <2>1. CASE x = c
    BY <1>1, <1>4, <2>1
  <2>2. CASE x # c
    BY <1>1, <1>3, <1>4, <2>2 DEF StillDue
  <2> QED
    BY <2>1, <2>2
<1> QED
  BY <1>4, <1>5, <1>6

LEMMA StaysCounted ==
  ASSUME Inv, NEW c \in Chats, NEW h \in Handlers, handler' = [handler EXCEPT ![c] = h],
         handler[c].pc # "review", h.pc # "review",
         UNCHANGED <<live, logs, reviews, failures>>
  PROVE  Counts'
<1>1. ASSUME NEW k \in live PROVE Reviewing(k)' = Reviewing(k)
  BY DEF Reviewing, Inv, TypeOK
<1> QED
  BY <1>1 DEF Counts, Inv

-----------------------------------------------------------------------------
(* Opening and leaving.                                                    *)

LEMMA OutsideShape ==
  ASSUME NEW state \in {"menu", "deck", "bare", "select"}
  PROVE  /\ Outside(state) \in Contexts /\ ~ InSession(Outside(state))
         /\ Outside(state).ids = <<>> /\ Outside(state).index = 0
         /\ Outside(state).state = state
BY DEF Outside, Contexts, InSession

\* Outside a session nothing was rated and nothing remains.
LEMMA SoundOutside ==
  ASSUME NEW d \in Contexts, ~ InSession(d), d.ids = <<>>, d.index = 0,
         NEW h \in Handlers, h.pc = "idle"
  PROVE  Sound(d, h, <<>>, counted) /\ InOrder(d, h, <<>>) /\ <<>> \in Seq(Cards)
<1>1. Len(d.ids) = 0 /\ DOMAIN d.ids = {} /\ Elements(d.ids) = {} /\ Elements(<<>>) = {}
  BY DEF Elements
<1>2. ~ HasCard(d) /\ Fewer(d.index, Len(d.ids)) = 0
  BY <1>1 DEF HasCard, Fewer
<1>3. Sound(d, h, <<>>, counted)
  BY <1>1, <1>2 DEF Sound, InSession
<1>4. InOrder(d, h, <<>>)
  BY <1>1, <1>2 DEF InOrder, RatedCount, Ahead
<1> QED
  BY <1>3, <1>4

LEMMA GoToStep ==
  ASSUME Inv, NEW c \in Chats, NEW state \in {"menu", "deck", "bare", "select"},
         Free(c), GoTo(c, state)
  PROVE  Inv'
<1> DEFINE d == Outside(state)
<1>1. /\ d \in Contexts /\ ~ InSession(d) /\ d.ids = <<>> /\ d.index = 0
  BY OutsideShape
<1> HIDE DEF d
<1>2. /\ dialog' = [dialog EXCEPT ![c] = d] /\ rated' = [rated EXCEPT ![c] = <<>>]
      /\ UNCHANGED <<live, due, logs, reviews, day, counted, handler, failures, contested, early>>
  BY DEF GoTo, d
<1> DEFINE h == handler[c]
<1>3. h \in Handlers /\ h.pc = "idle" /\ h.today <= day
  BY Typed DEF Free
<1>4. handler' = [handler EXCEPT ![c] = h]
  BY <1>2 DEF Inv, TypeOK
<1> HIDE DEF h
<1>5. Sound(d, h, <<>>, counted') /\ InOrder(d, h, <<>>) /\ <<>> \in Seq(Cards)
  BY <1>1, <1>2, <1>3, SoundOutside
<1>6. /\ dialog' \in [Chats -> Contexts] /\ handler' \in [Chats -> Handlers]
      /\ rated' \in [Chats -> Seq(Cards)] /\ \A x \in Chats : handler'[x].today <= day'
      /\ Sessions' /\ Orders'
  BY <1>1, <1>2, <1>3, <1>4, <1>5, MovesOn
<1>7. Fresh'
  BY <1>1, <1>2, <1>3, <1>4, StaysFresh
<1>8. Counts'
  BY <1>2, <1>3, <1>4, StaysCounted DEF h
<1>9. TypeOK'
  BY <1>2, <1>6 DEF Inv, TypeOK
<1> QED
  BY <1>6, <1>7, <1>8, <1>9 DEF Inv

LEMMA StartSessionStep ==
  ASSUME Inv, NEW c \in Chats, NEW ids \in DueLists,
         NEW state \in {"select", "front"}, state = "select" => ids = <<>>,
         Free(c), StartSession(c, ids, state)
  PROVE  Inv'
<1>1. /\ ids \in Seq(Cards) /\ DOMAIN ids = 1..Len(ids) /\ Len(ids) \in Nat
      /\ \A i, j \in DOMAIN ids : i # j => ids[i] # ids[j]
      /\ \A i \in DOMAIN ids : ids[i] \in due
  BY Lists DEF Inv
<1>2. PICK d \in Contexts :
        /\ d.ids = ids /\ d.state = state /\ d.index = 0 /\ d.reviewed = 0
        /\ dialog' = [dialog EXCEPT ![c] = d]
  <2> DEFINE q == [Outside(state) EXCEPT !.ids = ids]
  <2>1. /\ q \in Contexts /\ q.ids = ids /\ q.state = state /\ q.index = 0 /\ q.reviewed = 0
    BY <1>1 DEF Outside, Contexts
  <2>2. dialog' = [dialog EXCEPT ![c] = q]
    BY DEF StartSession, Loaded
  <2> QED
    BY <2>1, <2>2
<1>3. /\ rated' = [rated EXCEPT ![c] = <<>>]
      /\ contested' = (contested \/ HeldElsewhere(c, ids))
      /\ UNCHANGED <<live, due, logs, reviews, day, counted, handler, failures, early>>
  BY DEF StartSession
<1> DEFINE h == handler[c]
<1>4. h \in Handlers /\ h.pc = "idle" /\ h.today <= day
  BY Typed DEF Free
<1>5. handler' = [handler EXCEPT ![c] = h]
  BY <1>3 DEF Inv, TypeOK
<1> HIDE DEF h
<1>6. Sound(d, h, <<>>, counted') /\ InOrder(d, h, <<>>) /\ <<>> \in Seq(Cards)
  <2>1. Elements(<<>>) = {}
    BY DEF Elements
  <2>2. \A i \in DOMAIN d.ids : ~ (i <= d.index)
    BY <1>1, <1>2
  <2>3. Len(d.ids) > 0 => d.index < Len(d.ids)
    BY <1>1, <1>2
  <2>4. state = "select" => Len(d.ids) = 0
    BY <1>2
  <2>5. Sound(d, h, <<>>, counted')
    BY <1>1, <1>2, <1>4, <2>1, <2>2, <2>3, <2>4 DEF Sound, InSession
  <2>6. RatedCount(d, h) = 0
    BY <1>1, <1>2, <1>4 DEF RatedCount, Ahead, Fewer
  <2> QED
    BY <2>5, <2>6 DEF InOrder
<1>7. /\ dialog' \in [Chats -> Contexts] /\ handler' \in [Chats -> Handlers]
      /\ rated' \in [Chats -> Seq(Cards)] /\ \A x \in Chats : handler'[x].today <= day'
      /\ Sessions' /\ Orders'
  BY <1>2, <1>3, <1>4, <1>5, <1>6, MovesOn
<1>8. Fresh'
  <2>1. Remaining(d) = {ids[i] : i \in DOMAIN ids}
    <3>1. (d.index + 1)..Len(d.ids) = DOMAIN ids
      BY <1>1, <1>2
    <3> QED
      BY <1>2, <3>1 DEF Remaining
  <2>2. ~ contested' => \A x \in Chats \ {c} : InSession(dialog[x]) =>
          Remaining(d) \cap Remaining(dialog[x]) = {}
    BY <1>3, <2>1 DEF HeldElsewhere
  <2>3. \A k \in Remaining(d) : k \in due'
    BY <1>1, <1>3, <2>1
  <2>4. contested => contested'
    BY <1>3
  <2> QED
    BY <1>2, <1>3, <1>4, <1>5, <2>2, <2>3, <2>4, StaysFresh
<1>9. Counts'
  BY <1>3, <1>4, <1>5, StaysCounted DEF h
<1>10. TypeOK'
  <2>1. contested' \in BOOLEAN
    BY <1>3 DEF Inv, TypeOK, HeldElsewhere
  <2> QED
    BY <1>3, <1>7, <2>1 DEF Inv, TypeOK
<1> QED
  BY <1>7, <1>8, <1>9, <1>10 DEF Inv

LEMMA OpeningStep ==
  ASSUME Inv, NEW c \in Chats,
         Leave(c) \/ OpenReview(c) \/ OpenDeck(c) \/ SelectDeck(c) \/ StartFromDeck(c)
  PROVE  Inv'
<1>1. CASE Leave(c)
  BY <1>1, GoToStep DEF Leave
<1>2. CASE OpenReview(c)
  BY <1>2, GoToStep DEF OpenReview
<1>3. CASE OpenDeck(c)
  BY <1>3, GoToStep DEF OpenDeck
<1>4. CASE SelectDeck(c)
  <2>1. PICK ids \in DueLists :
          StartSession(c, ids, IF ids = <<>> THEN "select" ELSE "front")
    BY <1>4 DEF SelectDeck
  <2> QED
    BY <1>4, <2>1, StartSessionStep DEF SelectDeck
<1>5. CASE StartFromDeck(c)
  BY <1>5, StartSessionStep DEF StartFromDeck
<1> QED
  BY <1>1, <1>2, <1>3, <1>4, <1>5

LEMMA ShowAnswerStep ==
  ASSUME Inv, NEW c \in Chats, ShowAnswer(c)
  PROVE  Inv'
<1>1. /\ handler[c].pc = "idle" /\ dialog[c].state = "front"
      /\ UNCHANGED <<live, due, logs, reviews, day, counted, handler,
                     rated, failures, contested, early>>
  BY DEF ShowAnswer, Free, tables, history
<1>2. PICK d \in Contexts :
        /\ d.state = "back" /\ d.ids = dialog[c].ids /\ d.index = dialog[c].index
        /\ d.reviewed = dialog[c].reviewed /\ dialog' = [dialog EXCEPT ![c] = d]
  <2> DEFINE q == [dialog[c] EXCEPT !.state = "back"]
  <2>1. /\ q \in Contexts /\ q.state = "back" /\ q.ids = dialog[c].ids
        /\ q.index = dialog[c].index /\ q.reviewed = dialog[c].reviewed
    BY Typed DEF Contexts
  <2>2. dialog' = [dialog EXCEPT ![c] = q]
    BY DEF ShowAnswer
  <2> QED
    BY <2>1, <2>2
<1> DEFINE h == handler[c]
           r == rated[c]
<1>3. /\ h \in Handlers /\ h.pc = "idle" /\ h.today <= day /\ r \in Seq(Cards)
      /\ Sound(dialog[c], h, r, counted) /\ (failures = 0 => InOrder(dialog[c], h, r))
  BY <1>1, Typed
<1>4. handler' = [handler EXCEPT ![c] = h] /\ rated' = [rated EXCEPT ![c] = r]
  BY <1>1 DEF Inv, TypeOK
<1> HIDE DEF h, r
<1>5. /\ HasCard(d) <=> HasCard(dialog[c])
      /\ IsLast(d) <=> IsLast(dialog[c])
      /\ Remaining(d) = Remaining(dialog[c])
      /\ InSession(d) /\ InSession(dialog[c])
      /\ RatedCount(d, h) = RatedCount(dialog[c], h)
  <2>1. HasCard(d) <=> HasCard(dialog[c])
    BY <1>2 DEF HasCard
  <2>2. IsLast(d) <=> IsLast(dialog[c])
    BY <1>2 DEF IsLast
  <2>3. Remaining(d) = Remaining(dialog[c])
    BY <1>2 DEF Remaining
  <2>4. RatedCount(d, h) = RatedCount(dialog[c], h)
    BY <1>2, <2>1 DEF RatedCount, Ahead
  <2> QED
    BY <1>1, <1>2, <2>1, <2>2, <2>3, <2>4 DEF InSession
<1>6. Sound(d, h, r, counted')
  BY <1>1, <1>2, <1>3, <1>5 DEF Sound
<1>7. failures = 0 => InOrder(d, h, r)
  BY <1>2, <1>3, <1>5 DEF InOrder
<1>8. /\ dialog' \in [Chats -> Contexts] /\ handler' \in [Chats -> Handlers]
      /\ rated' \in [Chats -> Seq(Cards)] /\ \A x \in Chats : handler'[x].today <= day'
      /\ Sessions' /\ Orders'
  BY <1>1, <1>2, <1>3, <1>4, <1>6, <1>7, MovesOn
<1>9. Fresh'
  <2>1. ~ Ahead(dialog[c], h)
    BY <1>3 DEF Ahead
  <2>2. StillDue => \A k \in Remaining(d) \cap live' : k \in due'
    BY <1>1, <1>5, <2>1 DEF StillDue, h
  <2>3. Apart => \A x \in Chats \ {c} : InSession(dialog[x]) =>
          Remaining(d) \cap Remaining(dialog[x]) = {}
    BY <1>5 DEF Apart
  <2> QED
    BY <1>1, <1>2, <1>3, <1>4, <2>2, <2>3, StaysFresh
<1>10. Counts'
  BY <1>1, <1>3, <1>4, StaysCounted DEF h
<1>11. TypeOK'
  BY <1>1, <1>8 DEF Inv, TypeOK
<1> QED
  BY <1>8, <1>9, <1>10, <1>11 DEF Inv

-----------------------------------------------------------------------------
(* Rating.                                                                 *)

LEMMA IdleShape == Idle \in Handlers /\ Idle.pc = "idle" /\ Idle.today = 0
BY DEF Idle, Handlers

\* The context stays: the handler goes on to a step that finds it as it must.
LEMMA HandlerMoves ==
  ASSUME Inv, NEW c \in Chats, NEW h \in Handlers, handler' = [handler EXCEPT ![c] = h],
         UNCHANGED <<live, due, day, failures, contested, early, dialog, rated>>,
         counted \subseteq counted', h.today <= day,
         Ahead(dialog[c], h) <=> Ahead(dialog[c], handler[c]),
         h.pc # "idle" => dialog[c].state = "back",
         h.pc \in {"log", "review"} => HasCard(dialog[c]) /\ h.card = Current(dialog[c]),
         h.pc = "render" /\ IsLast(dialog[c]) => h.today \in counted'
  PROVE  /\ handler' \in [Chats -> Handlers] /\ \A x \in Chats : handler'[x].today <= day'
         /\ Sessions' /\ Orders' /\ Fresh'
<1> DEFINE d == dialog[c]
           r == rated[c]
<1>1. /\ d \in Contexts /\ r \in Seq(Cards) /\ Sound(d, handler[c], r, counted)
      /\ failures = 0 => InOrder(d, handler[c], r)
  BY Typed
<1>2. dialog' = [dialog EXCEPT ![c] = d] /\ rated' = [rated EXCEPT ![c] = r]
  BY DEF Inv, TypeOK
<1>3. (Ahead(d, h) <=> Ahead(d, handler[c])) /\ RatedCount(d, h) = RatedCount(d, handler[c])
  BY DEF RatedCount
<1>4. h.pc \in {"streak", "render"} /\ HasCard(d) => Current(d) \in Elements(r)
  BY <1>1, <1>3 DEF Sound, Ahead
<1>5. /\ h.pc # "idle" => d.state = "back"
      /\ h.pc \in {"log", "review"} => HasCard(d) /\ h.card = Current(d)
      /\ h.pc = "render" /\ IsLast(d) => h.today \in counted'
  OBVIOUS
<1> HIDE DEF d, r
<1>6. Sound(d, h, r, counted')
  BY <1>1, <1>4, <1>5 DEF Sound
<1>7. failures = 0 => InOrder(d, h, r)
  BY <1>1, <1>3 DEF InOrder
<1>8. /\ handler' \in [Chats -> Handlers] /\ \A x \in Chats : handler'[x].today <= day'
      /\ Sessions' /\ Orders'
  BY <1>1, <1>2, <1>6, <1>7, MovesOn
<1>9. Apart /\ InSession(d) => \A x \in Chats \ {c} : InSession(dialog[x]) =>
        Remaining(d) \cap Remaining(dialog[x]) = {}
  BY DEF Apart, d
<1>10. StillDue /\ InSession(d) =>
         \A k \in Remaining(d) \cap live' : k \in due' \/ (Ahead(d, h) /\ k = Current(d))
  BY <1>3 DEF StillDue, d
<1>11. Fresh'
  BY <1>1, <1>2, <1>9, <1>10, StaysFresh
<1> QED
  BY <1>8, <1>11

LEMMA RateStep ==
  ASSUME Inv, NEW c \in Chats, Rate(c)
  PROVE  Inv'
<1>1. /\ handler[c].pc = "idle" /\ dialog[c].state = "back"
      /\ UNCHANGED <<live, due, logs, reviews, day, counted, dialog,
                     rated, failures, contested, early>>
  BY DEF Rate, Free, tables, history
<1>2. PICK h \in Handlers :
        /\ handler' = [handler EXCEPT ![c] = h] /\ h.today <= day
        /\ \/ h.pc = "log" /\ HasCard(dialog[c]) /\ h.card = Current(dialog[c])
           \/ h.pc = "streak" /\ ~ HasCard(dialog[c])
  <2>1. day \in Nat /\ 0 <= day /\ day <= day
    BY DEF Inv, TypeOK
  <2>2. CASE HasCard(dialog[c])
    <3> DEFINE q == [pc |-> "log", card |-> Current(dialog[c]), today |-> 0]
    <3>1. Current(dialog[c]) \in Cards
      BY <2>2, Typed, Indices
    <3>2. handler' = [handler EXCEPT ![c] = q]
      BY <2>2, Zenon DEF Rate
    <3>3. q \in Handlers /\ q.pc = "log" /\ q.card = Current(dialog[c]) /\ q.today = 0
      BY <3>1 DEF Handlers
    <3> HIDE DEF q
    <3> QED
      BY <2>1, <2>2, <3>2, <3>3
  <2>3. CASE ~ HasCard(dialog[c])
    <3> DEFINE q == [pc |-> "streak", card |-> "none", today |-> day]
    <3>1. q \in Handlers /\ q.pc = "streak" /\ q.today = day
      BY <2>1 DEF Handlers
    <3>2. handler' = [handler EXCEPT ![c] = q]
      BY <2>3 DEF Rate
    <3> QED
      BY <2>1, <2>3, <3>1, <3>2
  <2> QED
    BY <2>2, <2>3
<1>3. ~ Ahead(dialog[c], h) /\ ~ Ahead(dialog[c], handler[c])
  BY <1>1, <1>2 DEF Ahead
<1>4. /\ handler' \in [Chats -> Handlers] /\ \A x \in Chats : handler'[x].today <= day'
      /\ Sessions' /\ Orders' /\ Fresh'
  BY <1>1, <1>2, <1>3, HandlerMoves
<1>5. Counts'
  BY <1>1, <1>2, StaysCounted
<1>6. TypeOK'
  BY <1>1, <1>4 DEF Inv, TypeOK
<1> QED
  BY <1>4, <1>5, <1>6 DEF Inv

LEMMA UpdateStreakStep ==
  ASSUME Inv, NEW c \in Chats, UpdateStreak(c)
  PROVE  Inv'
<1>1. /\ handler[c].pc = "streak" /\ counted' = counted \cup {handler[c].today}
      /\ UNCHANGED <<live, due, logs, reviews, day, dialog, rated, failures, contested, early>>
  BY DEF UpdateStreak, history
<1>2. PICK h \in Handlers :
        /\ handler' = [handler EXCEPT ![c] = h]
        /\ h.pc = "render" /\ h.today = handler[c].today
  <2> DEFINE q == [handler[c] EXCEPT !.pc = "render"]
  <2>1. q \in Handlers /\ q.pc = "render" /\ q.today = handler[c].today
    BY Typed DEF Handlers
  <2>2. handler' = [handler EXCEPT ![c] = q]
    BY DEF UpdateStreak
  <2> QED
    BY <2>1, <2>2
<1>3. dialog[c].state = "back" /\ handler[c].today <= day /\ handler[c].today \in Nat
  BY <1>1, Typed DEF Sound, Handlers
<1>4. Ahead(dialog[c], h) <=> Ahead(dialog[c], handler[c])
  BY <1>1, <1>2 DEF Ahead
<1>5. /\ handler' \in [Chats -> Handlers] /\ \A x \in Chats : handler'[x].today <= day'
      /\ Sessions' /\ Orders' /\ Fresh'
  BY <1>1, <1>2, <1>3, <1>4, HandlerMoves
<1>6. Counts'
  BY <1>1, <1>2, StaysCounted
<1>7. TypeOK'
  <2>1. day \in Nat /\ handler[c].today \in 0..day
    BY <1>3 DEF Inv, TypeOK
  <2>2. counted' \subseteq 0..day'
    BY <1>1, <2>1 DEF Inv, TypeOK
  <2> QED
    BY <1>1, <1>5, <2>2 DEF Inv, TypeOK
<1> QED
  BY <1>5, <1>6, <1>7 DEF Inv

\* The handler of a card that is no more, or that fails, stops.
LEMMA Stops ==
  ASSUME Inv, NEW c \in Chats, Stop(c), ~ Ahead(dialog[c], handler[c]),
         UNCHANGED <<tables, dialog, history>>
  PROVE  /\ handler' \in [Chats -> Handlers] /\ \A x \in Chats : handler'[x].today <= day'
         /\ Sessions' /\ Orders' /\ Fresh'
<1>1. handler' = [handler EXCEPT ![c] = Idle]
  BY DEF Stop
<1>2. ~ Ahead(dialog[c], Idle)
  BY IdleShape DEF Ahead
<1>3. Idle.today <= day
  BY IdleShape DEF Inv, TypeOK
<1> QED
  BY <1>1, <1>2, <1>3, IdleShape, HandlerMoves DEF tables, history

\* A handler comes to the review of k, or leaves it.
LEMMA Reviewers ==
  ASSUME Inv, NEW c \in Chats, NEW h \in Handlers, handler' = [handler EXCEPT ![c] = h],
         NEW k
  PROVE  /\ IsFiniteSet(Reviewing(k)) /\ Cardinality(Reviewing(k)) \in Nat
         /\ Cardinality(Reviewing(k))' =
              IF h.pc = "review" /\ h.card = k
              THEN IF c \in Reviewing(k) THEN Cardinality(Reviewing(k)) ELSE Cardinality(Reviewing(k)) + 1
              ELSE IF c \in Reviewing(k) THEN Cardinality(Reviewing(k)) - 1 ELSE Cardinality(Reviewing(k))
<1>1. IsFiniteSet(Reviewing(k))
  <2>1. Reviewing(k) \in SUBSET Chats
    BY DEF Reviewing
  <2> QED
    BY <2>1, ReviewAssumption, FS_Subset
<1>2. Cardinality(Reviewing(k)) \in Nat
  BY <1>1, FS_CardinalityType
<1>3. CASE h.pc = "review" /\ h.card = k
  <2>1. Reviewing(k)' = Reviewing(k) \cup {c}
    BY <1>3 DEF Reviewing, Inv, TypeOK
  <2>2. Cardinality(Reviewing(k) \cup {c}) =
          IF c \in Reviewing(k) THEN Cardinality(Reviewing(k)) ELSE Cardinality(Reviewing(k)) + 1
    BY <1>1, FS_AddElement
  <2> QED
    BY <1>1, <1>2, <1>3, <2>1, <2>2
<1>4. CASE ~ (h.pc = "review" /\ h.card = k)
  <2>1. Reviewing(k)' = Reviewing(k) \ {c}
    BY <1>4 DEF Reviewing, Inv, TypeOK
  <2>2. Cardinality(Reviewing(k) \ {c}) =
          IF c \in Reviewing(k) THEN Cardinality(Reviewing(k)) - 1 ELSE Cardinality(Reviewing(k))
    BY <1>1, FS_RemoveElement
  <2> QED
    BY <1>1, <1>2, <1>4, <2>1, <2>2
<1> QED
  BY <1>3, <1>4

LEMMA LogReviewStep ==
  ASSUME Inv, NEW c \in Chats, LogReview(c)
  PROVE  Inv'
<1> DEFINE k == handler[c].card
<1>1. /\ handler[c].pc = "log"
      /\ UNCHANGED <<live, due, reviews, day, counted, dialog, rated, failures, contested, early>>
  BY DEF LogReview, history
<1>2. /\ dialog[c].state = "back" /\ HasCard(dialog[c]) /\ k = Current(dialog[c]) /\ k \in Cards
      /\ handler[c].today <= day /\ ~ Ahead(dialog[c], handler[c])
  BY <1>1, Typed, Indices DEF Sound, Ahead
<1>3. CASE k \in live
  <2>1. PICK h \in Handlers :
          /\ handler' = [handler EXCEPT ![c] = h]
          /\ h.pc = "review" /\ h.card = k /\ h.today = handler[c].today
    <3> DEFINE q == [handler[c] EXCEPT !.pc = "review"]
    <3>1. q \in Handlers /\ q.pc = "review" /\ q.card = k /\ q.today = handler[c].today
      BY Typed DEF Handlers
    <3>2. handler' = [handler EXCEPT ![c] = q]
      BY <1>3 DEF LogReview
    <3> QED
      BY <3>1, <3>2
  <2>2. logs' = [logs EXCEPT ![k] = @ + 1]
    BY <1>3 DEF LogReview
  <2>3. ~ Ahead(dialog[c], h)
    BY <2>1 DEF Ahead
  <2>4. /\ handler' \in [Chats -> Handlers] /\ \A x \in Chats : handler'[x].today <= day'
        /\ Sessions' /\ Orders' /\ Fresh'
    BY <1>1, <1>2, <2>1, <2>3, HandlerMoves
  <2>5. logs' \in [Cards -> Nat] /\ logs'[k] = logs[k] + 1
        /\ \A j \in Cards \ {k} : logs'[j] = logs[j]
    BY <1>2, <2>2 DEF Inv, TypeOK
  <2>6. Counts'
    <3> SUFFICES ASSUME NEW j \in live
                 PROVE  /\ reviews[j] + Cardinality(Reviewing(j))' <= logs'[j]
                        /\ logs'[j] <= reviews[j] + Cardinality(Reviewing(j))'
                                        + failures * Cardinality(Chats)
      BY <1>1 DEF Counts
    <3>1. /\ reviews[j] + Cardinality(Reviewing(j)) <= logs[j]
          /\ logs[j] <= reviews[j] + Cardinality(Reviewing(j)) + failures * Cardinality(Chats)
          /\ reviews[j] \in Nat /\ logs[j] \in Nat /\ j \in Cards
      BY DEF Inv, TypeOK, Counts
    <3>2. failures * Cardinality(Chats) \in Nat
      BY ReviewAssumption, FS_CardinalityType DEF Inv, TypeOK
    <3>3. c \notin Reviewing(j)
      BY <1>1 DEF Reviewing
    <3>4. /\ Cardinality(Reviewing(j)) \in Nat
          /\ Cardinality(Reviewing(j))' =
               IF j = k THEN Cardinality(Reviewing(j)) + 1 ELSE Cardinality(Reviewing(j))
      BY <2>1, <3>3, Reviewers
    <3> HIDE DEF k
    <3> DEFINE m == failures * Cardinality(Chats)
    <3>5. m \in Nat /\ logs[j] <= reviews[j] + Cardinality(Reviewing(j)) + m
      BY <3>1, <3>2
    <3> HIDE DEF m
    <3>6. /\ reviews[j] + Cardinality(Reviewing(j))' <= logs'[j]
          /\ logs'[j] <= reviews[j] + Cardinality(Reviewing(j))' + m
      BY <2>5, <3>1, <3>4, <3>5
    <3> QED
      BY <3>6 DEF m
  <2>7. TypeOK'
    BY <1>1, <2>4, <2>5 DEF Inv, TypeOK
  <2> QED
    BY <2>4, <2>6, <2>7 DEF Inv
<1>4. CASE k \notin live
  <2>1. Stop(c) /\ UNCHANGED logs
    BY <1>4 DEF LogReview
  <2>2. /\ handler' \in [Chats -> Handlers] /\ \A x \in Chats : handler'[x].today <= day'
        /\ Sessions' /\ Orders' /\ Fresh'
    BY <1>1, <1>2, <2>1, Stops DEF tables, history
  <2>3. Counts'
    BY <1>1, <2>1, IdleShape, StaysCounted DEF Stop
  <2>4. TypeOK'
    BY <1>1, <2>1, <2>2 DEF Inv, TypeOK
  <2> QED
    BY <2>2, <2>3, <2>4 DEF Inv
<1> QED
  BY <1>3, <1>4

\* review_card has returned: the chat is ahead of its context by this card.
LEMMA Reviewed ==
  ASSUME Inv, NEW c \in Chats, NEW k \in live, handler[c].pc = "review", handler[c].card = k,
         NEW h \in Handlers, handler' = [handler EXCEPT ![c] = h],
         h.pc = AfterReview(dialog[c]), h.today = day,
         rated' = [rated EXCEPT ![c] = Append(@, k)], due' = due \ {k},
         early' = IF k \in due THEN early ELSE early \cup {k},
         UNCHANGED <<live, day, counted, dialog, failures, contested>>
  PROVE  /\ handler' \in [Chats -> Handlers] /\ \A x \in Chats : handler'[x].today <= day'
         /\ rated' \in [Chats -> Seq(Cards)] /\ Sessions' /\ Orders' /\ Fresh'
<1> DEFINE d == dialog[c]
           r == Append(rated[c], k)
<1>1. /\ d \in Contexts /\ rated[c] \in Seq(Cards) /\ Sound(d, handler[c], rated[c], counted)
      /\ failures = 0 => InOrder(d, handler[c], rated[c])
  BY Typed
<1>2. dialog' = [dialog EXCEPT ![c] = d] /\ rated' = [rated EXCEPT ![c] = r]
  BY DEF Inv, TypeOK
<1>3. k \in Cards /\ day \in Nat
  BY DEF Inv, TypeOK
<1>4. /\ r \in Seq(Cards) /\ Len(r) = Len(rated[c]) + 1 /\ r[Len(rated[c]) + 1] = k
      /\ \A i \in 1..Len(rated[c]) : r[i] = rated[c][i]
      /\ Elements(r) = Elements(rated[c]) \cup {k}
  BY <1>1, <1>3, Added
<1>5. /\ d.state = "back" /\ InSession(d) /\ HasCard(d) /\ k = Current(d)
      /\ ~ Ahead(d, handler[c])
  BY <1>1 DEF Sound, Ahead, InSession
<1>6. /\ d.index + 1 \in DOMAIN d.ids /\ k = d.ids[d.index + 1] /\ k \in Remaining(d)
      /\ d.index \in Nat /\ Fewer(d.index, Len(d.ids)) = d.index
  BY <1>1, <1>5, Indices DEF Current
<1>7. /\ h.pc \in {"streak", "render"} /\ (h.pc = "render" => ~ IsLast(d)) /\ Ahead(d, h)
  BY <1>5 DEF AfterReview, Ahead
<1> HIDE DEF r
<1>8. Sound(d, h, r, counted')
  <2>1. k \in Elements(d.ids)
    BY <1>6 DEF Elements
  <2> HIDE DEF d
  <2> QED
    BY <1>1, <1>4, <1>5, <1>7, <2>1 DEF Sound
<1>9. failures = 0 => InOrder(d, h, r)
  <2> SUFFICES ASSUME failures = 0 PROVE InOrder(d, h, r)
    OBVIOUS
  <2>1. /\ Len(rated[c]) = d.index /\ \A i \in 1..d.index : rated[c][i] = d.ids[i]
    BY <1>1, <1>5, <1>6 DEF InOrder, RatedCount
  <2>2. RatedCount(d, h) = d.index + 1
    BY <1>7 DEF RatedCount
  <2>3. \A i \in 1..(d.index + 1) : i \in 1..d.index \/ i = d.index + 1
    BY <1>6
  <2> QED
    BY <1>4, <1>6, <2>1, <2>2, <2>3 DEF InOrder
<1>10. h.today <= day
  BY <1>3
<1>11. /\ handler' \in [Chats -> Handlers] /\ \A x \in Chats : handler'[x].today <= day'
       /\ rated' \in [Chats -> Seq(Cards)] /\ Sessions' /\ Orders'
  BY <1>1, <1>2, <1>4, <1>8, <1>9, <1>10, MovesOn
<1>12. ASSUME Apart, StillDue, early = {}
       PROVE  /\ early' = {}
              /\ \A x \in Chats \ {c} : InSession(dialog[x]) =>
                   Remaining(d) \cap Remaining(dialog[x]) = {}
              /\ \A j \in Remaining(d) \cap live' : j \in due' \/ (Ahead(d, h) /\ j = Current(d))
              /\ \A x \in Chats \ {c} : InSession(dialog[x]) =>
                   \A j \in Remaining(dialog[x]) \cap live' : j \in due => j \in due'
  <2>1. \A j \in Remaining(d) \cap live : j \in due
    BY <1>5, <1>12 DEF StillDue
  <2>2. \A x \in Chats \ {c} : InSession(dialog[x]) =>
          Remaining(d) \cap Remaining(dialog[x]) = {} /\ k \notin Remaining(dialog[x])
    BY <1>5, <1>6, <1>12 DEF Apart
  <2> QED
    BY <1>5, <1>6, <1>7, <1>12, <2>1, <2>2
<1>13. Fresh'
  BY <1>1, <1>2, <1>12, StaysFresh
<1> QED
  BY <1>11, <1>13

LEMMA ReviewCardStep ==
  ASSUME Inv, NEW c \in Chats, ReviewCard(c)
  PROVE  Inv'
<1> DEFINE k == handler[c].card
<1>1. /\ handler[c].pc = "review"
      /\ UNCHANGED <<live, logs, day, counted, dialog, failures, contested>>
  BY DEF ReviewCard
<1>2. /\ k = Current(dialog[c]) /\ k \in Cards /\ ~ Ahead(dialog[c], handler[c])
  BY <1>1, Typed, Indices DEF Sound, Ahead
<1>3. CASE k \in live
  <2>1. PICK h \in Handlers :
          /\ handler' = [handler EXCEPT ![c] = h]
          /\ h.pc = AfterReview(dialog[c]) /\ h.today = day
    <3> DEFINE q == [handler[c] EXCEPT !.pc = AfterReview(dialog[c]), !.today = day]
    <3>1. q \in Handlers /\ q.pc = AfterReview(dialog[c]) /\ q.today = day
      BY Typed DEF Handlers, AfterReview, Inv, TypeOK
    <3>2. handler' = [handler EXCEPT ![c].pc = AfterReview(dialog[c]), ![c].today = day]
      BY <1>3 DEF ReviewCard
    <3>3. handler \in [Chats -> Handlers]
      BY DEF Inv, TypeOK
    <3>4. handler' = [handler EXCEPT ![c] = q]
      BY <3>2, <3>3
    <3> QED
      BY <3>1, <3>4
  <2>2. /\ reviews' = [reviews EXCEPT ![k] = @ + 1] /\ due' = due \ {k}
        /\ rated' = [rated EXCEPT ![c] = Append(@, k)]
        /\ early' = IF k \in due THEN early ELSE early \cup {k}
    BY <1>3 DEF ReviewCard
  <2>3. /\ handler' \in [Chats -> Handlers] /\ \A x \in Chats : handler'[x].today <= day'
        /\ rated' \in [Chats -> Seq(Cards)] /\ Sessions' /\ Orders' /\ Fresh'
    BY <1>1, <1>3, <2>1, <2>2, Reviewed
  <2>4. reviews' \in [Cards -> Nat] /\ reviews'[k] = reviews[k] + 1
        /\ \A j \in Cards \ {k} : reviews'[j] = reviews[j]
    BY <1>2, <2>2 DEF Inv, TypeOK
  <2>5. Counts'
    <3> SUFFICES ASSUME NEW j \in live
                 PROVE  /\ reviews'[j] + Cardinality(Reviewing(j))' <= logs[j]
                        /\ logs[j] <= reviews'[j] + Cardinality(Reviewing(j))'
                                        + failures * Cardinality(Chats)
      BY <1>1 DEF Counts
    <3>1. /\ reviews[j] + Cardinality(Reviewing(j)) <= logs[j]
          /\ logs[j] <= reviews[j] + Cardinality(Reviewing(j)) + failures * Cardinality(Chats)
          /\ reviews[j] \in Nat /\ logs[j] \in Nat /\ j \in Cards
      BY DEF Inv, TypeOK, Counts
    <3>2. failures * Cardinality(Chats) \in Nat
      BY ReviewAssumption, FS_CardinalityType DEF Inv, TypeOK
    <3>3. c \in Reviewing(j) <=> j = k
      BY <1>1 DEF Reviewing
    <3>4. h.pc # "review"
      BY <2>1 DEF AfterReview
    <3>5. /\ Cardinality(Reviewing(j)) \in Nat
          /\ Cardinality(Reviewing(j))' =
               IF j = k THEN Cardinality(Reviewing(j)) - 1 ELSE Cardinality(Reviewing(j))
      BY <2>1, <3>3, <3>4, Reviewers
    <3> HIDE DEF k
    <3> DEFINE m == failures * Cardinality(Chats)
    <3>6. m \in Nat /\ logs[j] <= reviews[j] + Cardinality(Reviewing(j)) + m
      BY <3>1, <3>2
    <3> HIDE DEF m
    <3>7. /\ reviews'[j] + Cardinality(Reviewing(j))' <= logs[j]
          /\ logs[j] <= reviews'[j] + Cardinality(Reviewing(j))' + m
      BY <2>4, <3>1, <3>5, <3>6
    <3> QED
      BY <3>7 DEF m
  <2>6. TypeOK'
    <3>1. due' \subseteq live' /\ early' \subseteq Cards
      BY <1>1, <1>2, <2>2 DEF Inv, TypeOK
    <3> QED
      BY <1>1, <2>3, <2>4, <3>1 DEF Inv, TypeOK
  <2> QED
    BY <2>3, <2>5, <2>6 DEF Inv
<1>4. CASE k \notin live
  <2>1. Stop(c) /\ UNCHANGED <<reviews, due, rated, early>>
    BY <1>4 DEF ReviewCard
  <2>2. /\ handler' \in [Chats -> Handlers] /\ \A x \in Chats : handler'[x].today <= day'
        /\ Sessions' /\ Orders' /\ Fresh'
    BY <1>1, <1>2, <2>1, Stops DEF tables, history
  <2>3. Counts'
    <3> SUFFICES ASSUME NEW j \in live PROVE Cardinality(Reviewing(j))' = Cardinality(Reviewing(j))
      BY <1>1, <2>1 DEF Counts, Inv
    <3>1. c \notin Reviewing(j)
      BY <1>4 DEF Reviewing
    <3> QED
      BY <2>1, <3>1, IdleShape, Reviewers DEF Stop
  <2>4. TypeOK'
    BY <1>1, <2>1, <2>2 DEF Inv, TypeOK
  <2> QED
    BY <2>2, <2>3, <2>4 DEF Inv
<1> QED
  BY <1>3, <1>4

\* The context a rating leaves.
LEMMA AdvancedShape ==
  ASSUME NEW d \in Contexts, NEW today \in Nat
  PROVE  LET e == Advanced(d, today)
         IN  /\ e \in Contexts /\ e.ids = d.ids /\ e.index = d.index + 1
             /\ e.reviewed = d.reviewed + 1
             /\ IsLast(d) => e.state = "complete" /\ e.finished = today
             /\ ~ IsLast(d) => e.state = "front"
<1>1. d.index + 1 \in Nat /\ d.reviewed + 1 \in Nat
  BY DEF Contexts
<1> QED
  BY <1>1 DEF Contexts, Advanced

LEMMA RenderStep ==
  ASSUME Inv, NEW c \in Chats, Render(c)
  PROVE  Inv'
<1> DEFINE d == dialog[c]
           r == rated[c]
           today == handler[c].today
<1>1. /\ handler[c].pc = "render"
      /\ UNCHANGED <<live, due, logs, reviews, day, counted, rated, failures, contested, early>>
  BY DEF Render, tables, history
<1>2. /\ d \in Contexts /\ r \in Seq(Cards) /\ today \in Nat
      /\ Sound(d, handler[c], r, counted) /\ (failures = 0 => InOrder(d, handler[c], r))
  BY Typed DEF Handlers
<1>3. PICK e \in Contexts :
        /\ dialog' = [dialog EXCEPT ![c] = e]
        /\ e.ids = d.ids /\ e.index = d.index + 1 /\ e.reviewed = d.reviewed + 1
        /\ IsLast(d) => e.state = "complete" /\ e.finished = today
        /\ ~ IsLast(d) => e.state = "front"
  <2> DEFINE q == Advanced(d, today)
  <2>1. dialog' = [dialog EXCEPT ![c] = q]
    BY DEF Render
  <2> HIDE DEF d, today
  <2>2. /\ q \in Contexts /\ q.ids = d.ids /\ q.index = d.index + 1
        /\ q.reviewed = d.reviewed + 1
        /\ IsLast(d) => q.state = "complete" /\ q.finished = today
        /\ ~ IsLast(d) => q.state = "front"
    BY <1>2, AdvancedShape
  <2> HIDE DEF q
  <2> QED
    BY <2>1, <2>2
<1>4. handler' = [handler EXCEPT ![c] = Idle] /\ rated' = [rated EXCEPT ![c] = r]
  BY <1>1 DEF Render, Stop, Inv, TypeOK
<1>5. /\ d.index \in Nat /\ Len(d.ids) \in Nat /\ DOMAIN d.ids = 1..Len(d.ids)
      /\ HasCard(d) <=> d.index < Len(d.ids)
      /\ HasCard(e) <=> d.index + 1 < Len(d.ids)
      /\ IsLast(d) <=> d.index + 1 >= Len(d.ids)
      /\ InSession(d) /\ InSession(e)
  <2>1. d.state = "back"
    BY <1>1, <1>2 DEF Sound
  <2> QED
    BY <1>2, <1>3, <2>1, Indices DEF HasCard, IsLast, InSession
<1>6. /\ d.reviewed = d.index /\ (Len(d.ids) > 0 => d.index < Len(d.ids))
      /\ IsLast(d) => today \in counted
      /\ HasCard(d) => Current(d) \in Elements(r)
      /\ \A i, j \in DOMAIN d.ids : i # j => d.ids[i] # d.ids[j]
      /\ \A i \in DOMAIN d.ids : i <= d.index => d.ids[i] \in Elements(r)
      /\ Elements(r) \subseteq Elements(d.ids)
  BY <1>1, <1>2 DEF Sound
<1> HIDE DEF d, r, today
<1>7. Sound(e, Idle, r, counted')
  <2>1. \A i \in DOMAIN e.ids : i <= e.index => e.ids[i] \in Elements(r)
    <3> SUFFICES ASSUME NEW i \in DOMAIN d.ids, i <= d.index + 1 PROVE d.ids[i] \in Elements(r)
      BY <1>3
    <3>1. CASE i <= d.index
      BY <1>6, <3>1
    <3>2. CASE i = d.index + 1
      BY <1>5, <1>6, <3>2 DEF Current
    <3> QED
      BY <1>5, <3>1, <3>2
  <2>2. e.state \in {"front", "back"} =>
          e.reviewed = e.index /\ (Len(e.ids) > 0 => e.index < Len(e.ids))
    BY <1>3, <1>5, <1>6
  <2>3. e.state = "complete" =>
          e.finished \in counted'
            /\ (Len(e.ids) > 0 => e.index = Len(e.ids) /\ e.reviewed = Len(e.ids))
    BY <1>1, <1>3, <1>5, <1>6
  <2> QED
    BY <1>3, <1>5, <1>6, <2>1, <2>2, <2>3, IdleShape DEF Sound
<1>8. failures = 0 => InOrder(e, Idle, r)
  <2>1. RatedCount(e, Idle) = RatedCount(d, handler[c])
    <3>1. RatedCount(e, Idle) = Fewer(d.index + 1, Len(d.ids))
      BY <1>3, IdleShape DEF RatedCount, Ahead
    <3>2. CASE HasCard(d)
      <4>1. RatedCount(d, handler[c]) = d.index + 1
        BY <1>1, <3>2 DEF RatedCount, Ahead
      <4> QED
        BY <1>5, <3>1, <3>2, <4>1 DEF Fewer
    <3>3. CASE ~ HasCard(d)
      <4>1. RatedCount(d, handler[c]) = Fewer(d.index, Len(d.ids))
        BY <3>3 DEF RatedCount, Ahead
      <4> QED
        BY <1>5, <1>6, <3>1, <3>3, <4>1 DEF Fewer
    <3> QED
      BY <3>2, <3>3
  <2> QED
    BY <1>2, <1>3, <2>1 DEF InOrder
<1>9. Idle.today <= day
  BY IdleShape DEF Inv, TypeOK
<1>10. /\ dialog' \in [Chats -> Contexts] /\ handler' \in [Chats -> Handlers]
       /\ rated' \in [Chats -> Seq(Cards)] /\ \A x \in Chats : handler'[x].today <= day'
       /\ Sessions' /\ Orders'
  BY <1>1, <1>2, <1>3, <1>4, <1>7, <1>8, <1>9, IdleShape, MovesOn
<1>11. \A k \in Remaining(e) : k \in Remaining(d) /\ (HasCard(d) => k # Current(d))
  <2> SUFFICES ASSUME NEW i \in DOMAIN d.ids, i > d.index + 1
               PROVE  d.ids[i] \in Remaining(d) /\ (HasCard(d) => d.ids[i] # Current(d))
    BY <1>3, Indices
  <2>1. i > d.index /\ i # d.index + 1
    BY <1>5
  <2>2. HasCard(d) => d.index + 1 \in DOMAIN d.ids
    BY <1>5
  <2> QED
    BY <1>2, <1>6, <2>1, <2>2, Indices DEF Current
<1>12. Fresh'
  <2>1. Apart => \A x \in Chats \ {c} : InSession(dialog[x]) =>
          Remaining(e) \cap Remaining(dialog[x]) = {}
    BY <1>5, <1>11 DEF Apart, d
  <2>2. StillDue => \A k \in Remaining(e) \cap live' : k \in due'
    <3> SUFFICES ASSUME StillDue, NEW k \in Remaining(e) \cap live PROVE k \in due
      BY <1>1
    <3>1. k \in due \/ (Ahead(d, handler[c]) /\ k = Current(d))
      BY <1>5, <1>11 DEF StillDue, d
    <3> QED
      BY <1>11, <3>1 DEF Ahead
  <2> QED
    BY <1>1, <1>3, <1>4, <2>1, <2>2, IdleShape, StaysFresh
<1>13. Counts'
  BY <1>1, <1>4, IdleShape, StaysCounted
<1>14. TypeOK'
  BY <1>1, <1>10 DEF Inv, TypeOK
<1> QED
  BY <1>10, <1>12, <1>13, <1>14 DEF Inv

LEMMA FailStep ==
  ASSUME Inv, NEW failing \in SUBSET Chats, Fail(failing)
  PROVE  Inv'
<1>1. /\ handler' = [c \in Chats |-> IF c \in failing THEN Idle ELSE handler[c]]
      /\ failures' = failures + 1
      /\ UNCHANGED <<live, due, logs, reviews, day, counted, dialog, rated, contested, early>>
  BY DEF Fail, tables
<1>2. failures \in Nat /\ failures' \in Nat /\ failures' # 0 /\ 0 <= day
  BY <1>1 DEF Inv, TypeOK
<1>3. /\ handler' \in [Chats -> Handlers]
      /\ \A c \in Chats : handler'[c] = Idle \/ handler'[c] = handler[c]
  BY <1>1, IdleShape DEF Inv, TypeOK
<1>4. Sessions'
  <2> SUFFICES ASSUME NEW c \in Chats PROVE Sound(dialog[c], handler'[c], rated[c], counted)
    BY <1>1 DEF Sessions
  <2>1. Sound(dialog[c], handler[c], rated[c], counted)
    BY Typed
  <2>2. Sound(dialog[c], Idle, rated[c], counted)
    BY <2>1, IdleShape DEF Sound
  <2> QED
    BY <1>3, <2>1, <2>2
<1>5. Orders' /\ Fresh'
  BY <1>2 DEF Orders, Fresh
<1>6. Counts'
  <2> DEFINE n == Cardinality(Chats)
  <2>1. n \in Nat
    BY ReviewAssumption, FS_CardinalityType
  <2>2. failures' * n = failures * n + n /\ failures * n \in Nat
    BY <1>1, <1>2, <2>1
  <2> SUFFICES ASSUME NEW k \in live
               PROVE  /\ reviews[k] + Cardinality(Reviewing(k))' <= logs[k]
                      /\ logs[k] <= reviews[k] + Cardinality(Reviewing(k))' + failures' * n
    BY <1>1 DEF Counts
  <2>3. /\ reviews[k] + Cardinality(Reviewing(k)) <= logs[k]
        /\ logs[k] <= reviews[k] + Cardinality(Reviewing(k)) + failures * n
        /\ reviews[k] \in Nat /\ logs[k] \in Nat
    BY DEF Inv, TypeOK, Counts
  <2>4. Reviewing(k)' \subseteq Reviewing(k) /\ Reviewing(k) \subseteq Chats
    BY <1>3, IdleShape DEF Reviewing
  <2>5. /\ IsFiniteSet(Reviewing(k)) /\ Cardinality(Reviewing(k)) <= n
    BY <2>4, ReviewAssumption, FS_Subset
  <2>6. /\ IsFiniteSet(Reviewing(k)') /\ Cardinality(Reviewing(k)') <= Cardinality(Reviewing(k))
    BY <2>4, <2>5, FS_Subset
  <2>7. Cardinality(Reviewing(k)) \in Nat /\ Cardinality(Reviewing(k)') \in Nat
    BY <2>5, <2>6, FS_CardinalityType
  <2> HIDE DEF n
  <2> DEFINE m == failures * n
             a == Cardinality(Reviewing(k))
             b == Cardinality(Reviewing(k)')
  <2>8. /\ m \in Nat /\ failures' * n = m + n /\ a \in Nat /\ b \in Nat /\ a <= n /\ b <= a
        /\ reviews[k] + a <= logs[k] /\ logs[k] <= reviews[k] + a + m
    BY <2>2, <2>3, <2>5, <2>6, <2>7
  <2> HIDE DEF m, a, b
  <2>9. reviews[k] + b <= logs[k] /\ logs[k] <= reviews[k] + b + (m + n)
    BY <2>1, <2>3, <2>8
  <2> QED
    BY <2>8, <2>9 DEF b
<1>7. TypeOK'
  <2>1. \A c \in Chats : handler'[c].today <= day
    BY <1>2, <1>3, IdleShape DEF Inv, TypeOK
  <2> QED
    BY <1>1, <1>2, <1>3, <2>1 DEF Inv, TypeOK
<1> QED
  BY <1>4, <1>5, <1>6, <1>7 DEF Inv

-----------------------------------------------------------------------------
(* What else happens to the cards.                                         *)

LEMMA OutOfSessions ==
  ASSUME Inv, UNCHANGED <<counted, dialog, handler, rated, failures, contested, early>>,
         live' \subseteq live, \A k \in live' : k \in due => k \in due'
  PROVE  Sessions' /\ Orders' /\ Fresh'
<1>1. Sessions' /\ Orders'
  BY DEF Inv, Sessions, Orders
<1>2. Apart => Apart'
  BY DEF Apart
<1>3. StillDue => StillDue'
  BY DEF StillDue
<1> QED
  BY <1>1, <1>2, <1>3 DEF Inv, Fresh

LEMMA DeleteCardStep ==
  ASSUME Inv, NEW c \in Chats, NEW k \in Cards, DeleteCard(c, k)
  PROVE  Inv'
<1>1. /\ live' = live \ {k} /\ due' = due \ {k} /\ logs' = [logs EXCEPT ![k] = 0]
      /\ UNCHANGED <<reviews, day, counted, dialog, handler, rated, failures, contested, early>>
  BY DEF DeleteCard, history
<1>2. Sessions' /\ Orders' /\ Fresh'
  BY <1>1, OutOfSessions
<1>3. logs' \in [Cards -> Nat] /\ \A j \in Cards \ {k} : logs'[j] = logs[j]
  BY <1>1 DEF Inv, TypeOK
<1>4. Counts'
  <2>1. \A j \in live' : j \in live /\ logs'[j] = logs[j] /\ Reviewing(j)' = Reviewing(j)
    BY <1>1, <1>3 DEF Reviewing, Inv, TypeOK
  <2> QED
    BY <1>1, <2>1 DEF Counts, Inv
<1>5. TypeOK'
  BY <1>1, <1>3 DEF Inv, TypeOK
<1> QED
  BY <1>2, <1>4, <1>5 DEF Inv

LEMMA ResetCardStep ==
  ASSUME Inv, NEW c \in Chats, NEW k \in Cards, ResetCard(c, k)
  PROVE  Inv'
<1>1. /\ k \in live /\ due' = due \cup {k}
      /\ UNCHANGED <<live, logs, reviews, day, counted, dialog, handler,
                     rated, failures, contested, early>>
  BY DEF ResetCard, history
<1>2. Sessions' /\ Orders' /\ Fresh'
  BY <1>1, OutOfSessions
<1>3. Counts'
  BY <1>1 DEF Counts, Reviewing, Inv
<1>4. TypeOK'
  BY <1>1 DEF Inv, TypeOK
<1> QED
  BY <1>2, <1>3, <1>4 DEF Inv

LEMMA NextDayStep ==
  ASSUME Inv, NextDay
  PROVE  Inv'
<1>1. PICK more \in SUBSET live : due' = due \cup more
  BY DEF NextDay
<1>2. /\ day' = day + 1
      /\ UNCHANGED <<live, logs, reviews, counted, dialog, handler,
                     rated, failures, contested, early>>
  BY DEF NextDay, history
<1>3. Sessions' /\ Orders' /\ Fresh'
  BY <1>1, <1>2, OutOfSessions
<1>4. Counts'
  BY <1>2 DEF Counts, Reviewing, Inv
<1>5. TypeOK'
  <2>1. day \in Nat /\ day' \in Nat /\ 0..day \subseteq 0..day'
    BY <1>2 DEF Inv, TypeOK
  <2>2. \A c \in Chats : handler'[c].today <= day'
    <3> SUFFICES ASSUME NEW c \in Chats PROVE handler[c].today <= day + 1
      BY <1>2
    <3>1. handler[c].today \in Nat /\ handler[c].today <= day
      BY Typed DEF Handlers
    <3> QED
      BY <2>1, <3>1
  <2> QED
    BY <1>1, <1>2, <2>1, <2>2 DEF Inv, TypeOK
<1> QED
  BY <1>3, <1>4, <1>5 DEF Inv

-----------------------------------------------------------------------------
(* The specification.                                                      *)

LEMMA Begins == Init => Inv
<1> SUFFICES ASSUME Init PROVE Inv
  OBVIOUS
<1> DEFINE d == Outside("menu")
<1>1. d \in Contexts /\ ~ InSession(d) /\ d.ids = <<>> /\ d.index = 0
  BY OutsideShape
<1> HIDE DEF d
<1>2. /\ \A c \in Chats : dialog[c] = d /\ handler[c] = Idle /\ rated[c] = <<>>
      /\ dialog \in [Chats -> Contexts] /\ handler \in [Chats -> Handlers]
      /\ rated \in [Chats -> Seq(Cards)]
  BY <1>1, IdleShape DEF Init, d
<1>3. TypeOK
  <2>1. /\ logs \in [Cards -> Nat] /\ reviews \in [Cards -> Nat] /\ day = 0 /\ day \in Nat
        /\ failures = 0 /\ failures \in Nat
    BY DEF Init
  <2>2. \A c \in Chats : handler[c].today <= day
    BY <1>2, <2>1, IdleShape
  <2> QED
    BY <1>2, <2>1, <2>2 DEF Init, TypeOK
<1>4. Sessions /\ Orders
  BY <1>1, <1>2, IdleShape, SoundOutside DEF Sessions, Orders
<1>5. Fresh
  BY <1>1, <1>2 DEF Init, Fresh, Apart, StillDue
<1>6. Counts
  <2> SUFFICES ASSUME NEW k \in live
               PROVE  /\ reviews[k] + Cardinality(Reviewing(k)) <= logs[k]
                      /\ logs[k] <= reviews[k] + Cardinality(Reviewing(k))
                                      + failures * Cardinality(Chats)
    BY DEF Counts
  <2>1. Cardinality(Reviewing(k)) = 0
    <3>1. Reviewing(k) = {}
      BY <1>2, IdleShape DEF Reviewing
    <3> QED
      BY <3>1, FS_EmptySet
  <2>2. reviews[k] = 0 /\ logs[k] = 0 /\ failures = 0
    BY DEF Init
  <2>3. Cardinality(Chats) \in Nat
    BY ReviewAssumption, FS_CardinalityType
  <2> QED
    BY <2>1, <2>2, <2>3
<1> QED
  BY <1>3, <1>4, <1>5, <1>6 DEF Inv

LEMMA Stutters == Inv /\ UNCHANGED vars => Inv'
<1> SUFFICES ASSUME Inv, UNCHANGED vars PROVE Inv'
  OBVIOUS
<1>1. UNCHANGED <<live, due, logs, reviews, day, counted, dialog, handler,
                  rated, failures, contested, early>>
  BY DEF vars
<1>2. Sessions' /\ Orders' /\ Fresh'
  BY <1>1, OutOfSessions
<1>3. Counts'
  BY <1>1 DEF Counts, Reviewing, Inv
<1>4. TypeOK'
  BY <1>1 DEF Inv, TypeOK
<1> QED
  BY <1>2, <1>3, <1>4 DEF Inv

LEMMA Steps == Inv /\ [Next]_vars => Inv'
<1> SUFFICES ASSUME Inv, [Next]_vars PROVE Inv'
  OBVIOUS
<1>1. ASSUME NEW c \in Chats,
             Leave(c) \/ OpenReview(c) \/ OpenDeck(c) \/ SelectDeck(c) \/ StartFromDeck(c)
      PROVE  Inv'
  BY <1>1, OpeningStep
<1>2. ASSUME NEW c \in Chats, ShowAnswer(c) \/ Rate(c) \/ HandleRating(c)
      PROVE  Inv'
  BY <1>2, ShowAnswerStep, RateStep, LogReviewStep, ReviewCardStep, UpdateStreakStep, RenderStep
     DEF HandleRating
<1>3. ASSUME NEW c \in Chats, NEW k \in Cards, DeleteCard(c, k) \/ ResetCard(c, k)
      PROVE  Inv'
  BY <1>3, DeleteCardStep, ResetCardStep
<1>4. ASSUME NEW failing \in SUBSET Chats, Fail(failing)
      PROVE  Inv'
  BY <1>4, FailStep
<1>5. CASE NextDay
  BY <1>5, NextDayStep
<1>6. CASE UNCHANGED vars
  BY <1>6, Stutters
<1> QED
  BY <1>1, <1>2, <1>3, <1>4, <1>5, <1>6 DEF Next

\* The invariant holds for any number of chats, cards, failures and days, and
\* any size of a session.
THEOREM Invariance == Spec => []Inv
BY Begins, Steps, PTL DEF Spec

\* Contexts, handlers and tables keep their types; no card is due that is not
\* there, and no date is counted that has not come.
THEOREM TypeCorrect == Spec => []TypeOK
<1>1. Inv => TypeOK
  BY DEF Inv
<1> QED
  BY <1>1, Invariance, PTL

-----------------------------------------------------------------------------
(* What the invariant says of logs, sessions and their ends.               *)

LEMMA LogsCover == Inv => LogCoversReviews
<1> SUFFICES ASSUME Inv, NEW k \in live
             PROVE  /\ reviews[k] <= logs[k]
                    /\ logs[k] <= reviews[k] + Cardinality(Reviewing(k))
                                    + failures * Cardinality(Chats)
  BY DEF LogCoversReviews
<1>1. reviews[k] \in Nat /\ logs[k] \in Nat
  BY DEF Inv, TypeOK
<1>2. Cardinality(Reviewing(k)) \in Nat
  <2>1. Reviewing(k) \in SUBSET Chats
    BY DEF Reviewing
  <2> QED
    BY <2>1, ReviewAssumption, FS_Subset, FS_CardinalityType
<1>3. reviews[k] + Cardinality(Reviewing(k)) <= logs[k]
  BY DEF Inv, Counts
<1> QED
  BY <1>1, <1>2, <1>3 DEF Inv, Counts

LEMMA NoneSkipped == Inv => NoCardSkipped
<1> SUFFICES ASSUME Inv, NEW c \in Chats
             PROVE  Elements(Passed(dialog[c])) \subseteq Elements(rated[c])
  BY DEF NoCardSkipped
<1> DEFINE d == dialog[c]
           n == Fewer(d.index, Len(d.ids))
<1>1. d \in Contexts /\ Sound(d, handler[c], rated[c], counted)
  BY Typed
<1> HIDE DEF d
<1>2. /\ n \in Nat /\ n <= Len(d.ids) /\ DOMAIN Passed(d) = 1..n
      /\ \A i \in 1..n : Passed(d)[i] = d.ids[i]
  BY <1>1, PassedOnes
<1>3. n <= d.index /\ DOMAIN d.ids = 1..Len(d.ids) /\ d.index \in Nat /\ Len(d.ids) \in Nat
  BY <1>1, Indices DEF Fewer
<1>4. \A i \in 1..n : d.ids[i] \in Elements(rated[c])
  <2> SUFFICES ASSUME NEW i \in 1..n PROVE d.ids[i] \in Elements(rated[c])
    OBVIOUS
  <2>1. i \in DOMAIN d.ids /\ i <= d.index
    BY <1>2, <1>3
  <2> QED
    BY <1>1, <2>1 DEF Sound
<1>5. Elements(Passed(d)) \subseteq Elements(rated[c])
  BY <1>2, <1>4 DEF Elements
<1> QED
  BY <1>5 DEF d

LEMMA InOrderOnce == Inv /\ failures = 0 => RatedOnceInOrder
<1> SUFFICES ASSUME Inv, failures = 0, NEW c \in Chats
             PROVE  rated[c] = IF Ahead(dialog[c], handler[c])
                               THEN Append(Passed(dialog[c]), Current(dialog[c]))
                               ELSE Passed(dialog[c])
  BY DEF RatedOnceInOrder, Ahead
<1> DEFINE d == dialog[c]
           r == rated[c]
           n == Fewer(d.index, Len(d.ids))
<1>1. d \in Contexts /\ r \in Seq(Cards) /\ InOrder(d, handler[c], r)
  BY Typed
<1> HIDE DEF d, r
<1>2. /\ n \in Nat /\ Passed(d) \in Seq(Cards) /\ Len(Passed(d)) = n
      /\ \A i \in 1..n : Passed(d)[i] = d.ids[i]
  BY <1>1, PassedOnes
<1>3. CASE Ahead(d, handler[c])
  <2>1. /\ HasCard(d) /\ n = d.index /\ Current(d) \in Cards /\ d.index \in Nat
        /\ Current(d) = d.ids[n + 1]
    BY <1>1, <1>3, Indices DEF Ahead, Current
  <2>2. Len(r) = n + 1 /\ \A i \in 1..(n + 1) : r[i] = d.ids[i]
    BY <1>1, <1>3, <2>1 DEF InOrder, RatedCount
  <2> DEFINE s == Append(Passed(d), Current(d))
  <2>3. /\ s \in Seq(Cards) /\ Len(s) = n + 1 /\ s[n + 1] = Current(d)
        /\ \A i \in 1..n : s[i] = Passed(d)[i]
    BY <1>2, <2>1, Added
  <2> HIDE DEF s, n
  <2>4. \A i \in 1..(n + 1) : i \in 1..n \/ i = n + 1
    BY <1>2
  <2>5. \A i \in 1..Len(r) : r[i] = s[i]
    BY <1>2, <2>1, <2>2, <2>3, <2>4
  <2>6. r = s
    BY <1>1, <2>2, <2>3, <2>5, SeqEqual
  <2> QED
    BY <1>3, <2>6 DEF s, d, r
<1>4. CASE ~ Ahead(d, handler[c])
  <2>1. Len(r) = n /\ \A i \in 1..n : r[i] = d.ids[i]
    BY <1>1, <1>4 DEF InOrder, RatedCount
  <2> HIDE DEF n
  <2>2. \A i \in 1..Len(r) : r[i] = Passed(d)[i]
    BY <1>2, <2>1
  <2>3. r = Passed(d)
    BY <1>1, <1>2, <2>1, <2>2, SeqEqual
  <2> QED
    BY <1>4, <2>3 DEF d, r
<1> QED
  BY <1>3, <1>4

\* As many cards as places, when no card comes twice.
LEMMA NumberOfElements ==
  ASSUME NEW s \in Seq(Cards), \A i, j \in DOMAIN s : i # j => s[i] # s[j]
  PROVE  Cardinality(Elements(s)) = Len(s)
<1>1. Len(s) \in Nat /\ DOMAIN s = 1..Len(s) /\ s \in [1..Len(s) -> Elements(s)]
  <2>1. Len(s) \in Nat /\ DOMAIN s = 1..Len(s) /\ s \in [1..Len(s) -> Cards]
    BY LenProperties
  <2> QED
    BY <2>1 DEF Elements
<1>2. s \in Bijection(1..Len(s), Elements(s))
  BY <1>1 DEF Bijection, Injection, Surjection, Elements, IsInjective
<1>3. ExistsBijection(1..Len(s), Elements(s))
  BY <1>2 DEF ExistsBijection
<1> QED
  BY <1>1, <1>3, FS_CountingElements

LEMMA HonestEnds == Inv => EndIsHonest
<1> SUFFICES ASSUME Inv, NEW c \in Chats, dialog[c].state = "complete"
             PROVE  /\ dialog[c].finished \in counted
                    /\ dialog[c].ids # <<>> =>
                         /\ dialog[c].reviewed = Cardinality(Elements(rated[c]))
                         /\ dialog[c].reviewed = Len(dialog[c].ids)
  BY DEF EndIsHonest, CountIsHonest, CompletedDayCounted
<1> DEFINE d == dialog[c]
           r == rated[c]
<1>1. d \in Contexts /\ r \in Seq(Cards) /\ Sound(d, handler[c], r, counted) /\ d.state = "complete"
  BY Typed
<1> HIDE DEF d, r
<1>2. d.ids \in Seq(Cards) /\ Len(d.ids) \in Nat /\ DOMAIN d.ids = 1..Len(d.ids)
  BY <1>1, Indices
<1>3. d.finished \in counted
  BY <1>1 DEF Sound
<1>4. ASSUME d.ids # <<>> PROVE d.reviewed = Cardinality(Elements(r)) /\ d.reviewed = Len(d.ids)
  <2>1. Len(d.ids) > 0
    BY <1>2, <1>4
  <2>2. d.index = Len(d.ids) /\ d.reviewed = Len(d.ids)
    BY <1>1, <2>1 DEF Sound
  <2>3. \A i \in DOMAIN d.ids : i <= d.index
    BY <1>2, <2>2
  <2>4. Elements(r) = Elements(d.ids)
    BY <1>1, <2>3 DEF Sound, Elements
  <2>5. Cardinality(Elements(d.ids)) = Len(d.ids)
    BY <1>1, <1>2, NumberOfElements DEF Sound
  <2> QED
    BY <2>2, <2>4, <2>5
<1> QED
  BY <1>3, <1>4 DEF d, r

\* Whatever fails, crashes or interleaves, a committed review was logged, and a
\* log without a review is due to a handler under way or to a failure.
THEOREM LogsCoverReviews == Spec => []LogCoversReviews
BY LogsCover, Invariance, PTL

\* No session passes a card whose review was not committed; while nothing
\* fails, each rates its cards exactly once and in order, for any size.
THEOREM SessionsInOrder == Spec => []SessionInOrder
<1>1. Inv => SessionInOrder
  BY NoneSkipped, InOrderOnce DEF SessionInOrder
<1> QED
  BY <1>1, Invariance, PTL

\* The closing message counts each card of the session once, and its day is
\* counted in the streak, for any number of chats and failures.
THEOREM EndsAreHonest == Spec => []EndIsHonest
BY HonestEnds, Invariance, PTL

\* Without failures and without a card held by two chats at once, no card is
\* rated ahead of its date, however many chats review, reset and delete.
THEOREM EarlyIfContested == Spec => []EarlyOnlyIfContested
<1>1. Inv => EarlyOnlyIfContested
  <2> SUFFICES ASSUME Inv, early # {}, ~ contested PROVE failures > 0
    BY DEF EarlyOnlyIfContested
  <2>1. failures \in Nat /\ failures # 0
    BY DEF Inv, TypeOK, Fresh
  <2> QED
    BY <2>1
<1> QED
  BY <1>1, Invariance, PTL
=============================================================================
