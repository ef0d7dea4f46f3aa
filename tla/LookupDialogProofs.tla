------------------------- MODULE LookupDialogProofs -------------------------
(***************************************************************************)
(* Proofs about LookupDialog for any number of chats, words, dictionaries,  *)
(* decks, cards and failures, and answers of any length.  A search is shown *)
(* to return the fitting articles, each in a place of its own (Placed);     *)
(* a chat's context and the handler it runs belong together (Sound); and a  *)
(* card that is not logged is one whose handler is under way, or one that a *)
(* failure has cost its log (Books).                                        *)
(***************************************************************************)
EXTENDS LookupDialog, SequenceTheorems, FiniteSetTheorems, FunctionTheorems, TLAPS

\* Context d and handler h of one chat, on day now, with the days counted: the
\* results answer the query, what was chosen is on screen, and a card is added
\* in the window that asks for its deck.
Sound(d, h, now, days) ==
  /\ d.state \notin {"menu", "word"} => d.index + 1 \in DOMAIN d.results
  /\ ~ Choosing(d) => d.chosen = NoArticle
  /\ \A i \in DOMAIN d.results : Answers(d.results[i], d.query)
  /\ Choosing(d) => d.chosen = Shown(d)
  /\ h.pc \in {"create", "log", "streak", "show"} => d.state = "select"
  /\ h.since <= now
  /\ h.pc = "show" => \E x \in days : x >= h.since
  /\ d.state = "added" => \E x \in days : x >= d.since

Sessions == \A c \in Chats : Sound(dialog[c], handler[c], day, counted)

UniqueIds == \A r, s \in cards : r.id = s.id => r = s

\* Each handler that is to log a card has a card of its own, not yet logged.
Logging ==
  \A c \in Chats : handler[c].pc = "log" =>
    /\ handler[c].card \in 1..cardSeq /\ logs[handler[c].card] = 0
    /\ \A e \in Chats \ {c} : handler[e].pc = "log" => handler[e].card # handler[c].card

\* The ids that the handlers under way may still take are ids.
Creating == {c \in Chats : handler[c].pc = "create"}
Room == Creating # {} => cardSeq + Cardinality(Creating) < MaxCards + Cardinality(Chats)

Books == UniqueIds /\ Logging /\ AddedIsLogged /\ Room

Inv == TypeOK /\ Sessions /\ Books

-----------------------------------------------------------------------------
(* The search.                                                             *)

LEMMA FittingOnes ==
  ASSUME NEW word, NEW s \in Seq(Articles)
  PROVE  /\ Fitting(word, s) \subseteq 1..Len(s) /\ IsFiniteSet(Fitting(word, s))
         /\ Cardinality(Fitting(word, s)) \in Nat
         /\ \A i \in Fitting(word, s) : /\ s[i] \in Articles /\ Answers(s[i], word)
                                        /\ Priority[s[i].dict] \in Nat /\ i \in Nat
<1>1. DOMAIN s = 1..Len(s) /\ Len(s) \in Nat /\ \A i \in 1..Len(s) : s[i] \in Articles
  OBVIOUS
<1>2. Fitting(word, s) \subseteq 1..Len(s) /\ \A i \in Fitting(word, s) : Answers(s[i], word)
  BY <1>1 DEF Fitting
<1>3. IsFiniteSet(1..Len(s))
  BY <1>1, FS_Interval
<1>4. IsFiniteSet(Fitting(word, s))
  BY <1>2, <1>3, FS_Subset
<1>5. \A a \in Articles : Priority[a.dict] \in Nat
  BY LookupAssumption
<1> QED
  BY <1>1, <1>2, <1>4, <1>5, FS_CardinalityType

\* Two fitting articles come one before the other, and what comes earlier has
\* the smaller place.
LEMMA Ordered ==
  ASSUME NEW word, NEW s \in Seq(Articles),
         NEW i \in Fitting(word, s), NEW j \in Fitting(word, s), Before(s, i, j)
  PROVE  Place(word, s, i) < Place(word, s, j)
<1> DEFINE F == Fitting(word, s)
           I == {x \in F : Before(s, x, i)}
           J == {x \in F : Before(s, x, j)}
<1>1. IsFiniteSet(F) /\ \A x \in F : Priority[s[x].dict] \in Nat /\ x \in Nat
  BY FittingOnes
<1>2. i \notin I /\ i \in J
  BY <1>1 DEF Before
<1>3. I \subseteq J
  BY <1>1 DEF Before
<1>4. IsFiniteSet(I) /\ IsFiniteSet(J)
  BY <1>1, FS_Subset
<1> HIDE DEF I, J
<1>5. IsFiniteSet(I \cup {i}) /\ Cardinality(I \cup {i}) = Cardinality(I) + 1
  BY <1>2, <1>4, FS_AddElement
<1>6. I \cup {i} \subseteq J
  BY <1>2, <1>3
<1>7. Cardinality(I \cup {i}) <= Cardinality(J)
  BY <1>4, <1>6, FS_Subset
<1>8. Cardinality(I) \in Nat /\ Cardinality(J) \in Nat
  BY <1>4, FS_CardinalityType
<1>9. Place(word, s, i) = 1 + Cardinality(I) /\ Place(word, s, j) = 1 + Cardinality(J)
  BY DEF Place, I, J, F
<1> QED
  BY <1>5, <1>7, <1>8, <1>9

\* The places of the fitting articles are 1, 2, and so on, one for each.
LEMMA Placed ==
  ASSUME NEW word, NEW s \in Seq(Articles)
  PROVE  LET F == Fitting(word, s)
             At == [n \in 1..Cardinality(F) |-> CHOOSE i \in F : Place(word, s, i) = n]
         IN  /\ At \in Bijection(1..Cardinality(F), F)
             /\ \A n \in 1..Cardinality(F) : At[n] \in F /\ Place(word, s, At[n]) = n
             /\ SearchWord(word, s) = [n \in 1..Cardinality(F) |-> s[At[n]]]
<1> DEFINE F == Fitting(word, s)
           k == Cardinality(F)
           P == [i \in F |-> Place(word, s, i)]
           At == [n \in 1..k |-> CHOOSE i \in F : Place(word, s, i) = n]
<1>1. /\ IsFiniteSet(F) /\ k \in Nat
      /\ \A x \in F : Priority[s[x].dict] \in Nat /\ x \in Nat
  BY FittingOnes
<1>2. ASSUME NEW i \in F PROVE Place(word, s, i) \in 1..k
  <2> DEFINE I == {x \in F : Before(s, x, i)}
  <2>1. I \subseteq F \ {i}
    BY <1>1 DEF Before
  <2>2. IsFiniteSet(F \ {i}) /\ Cardinality(F \ {i}) = k - 1
    BY <1>1, FS_RemoveElement
  <2> HIDE DEF I
  <2>3. IsFiniteSet(I) /\ Cardinality(I) <= k - 1
    BY <2>1, <2>2, FS_Subset
  <2>4. Cardinality(I) \in Nat
    BY <2>3, FS_CardinalityType
  <2>5. Place(word, s, i) = 1 + Cardinality(I)
    BY DEF Place, I
  <2> QED
    BY <1>1, <2>3, <2>4, <2>5
<1>3. ASSUME NEW i \in F, NEW j \in F, i # j PROVE Place(word, s, i) # Place(word, s, j)
  <2>1. Before(s, i, j) \/ Before(s, j, i)
    BY <1>1, <1>3 DEF Before
  <2>2. Place(word, s, i) \in Nat /\ Place(word, s, j) \in Nat
    BY <1>1, <1>2
  <2> QED
    BY <2>1, <2>2, Ordered
<1>4. P \in Injection(F, 1..k)
  BY <1>2, <1>3 DEF Injection, IsInjective
<1>5. IsFiniteSet(1..k) /\ Cardinality(1..k) = k
  BY <1>1, FS_Interval
<1>6. P \in Surjection(F, 1..k)
  BY <1>4, <1>5, FS_Injection
<1>7. \A n \in 1..k : \E i \in F : Place(word, s, i) = n
  BY <1>6 DEF Surjection
<1>8. \A n \in 1..k : At[n] \in F /\ Place(word, s, At[n]) = n
  BY <1>7
<1>9. \A i \in F : Place(word, s, i) \in 1..k /\ At[Place(word, s, i)] = i
  BY <1>2, <1>3, <1>8
<1>10. At \in Bijection(1..k, F)
  <2>1. At \in [1..k -> F]
    BY <1>8
  <2>2. \A a, b \in 1..k : At[a] = At[b] => a = b
    BY <1>8
  <2>3. \A t \in F : \E a \in 1..k : At[a] = t
    BY <1>9
  <2> HIDE DEF At
  <2> QED
    BY <2>1, <2>2, <2>3 DEF Bijection, Injection, Surjection, IsInjective
<1>11. SearchWord(word, s) = [n \in 1..k |-> s[At[n]]]
  BY DEF SearchWord
<1> QED
  BY <1>8, <1>10, <1>11

\* A search returns articles that answer, and only comes back empty with none.
LEMMA Found ==
  ASSUME NEW word, NEW s \in Seq(Articles)
  PROVE  LET found == SearchWord(word, s)
         IN  /\ found \in Seq(Articles)
             /\ \A i \in DOMAIN found : Answers(found[i], word)
             /\ found # <<>> => 1 \in DOMAIN found
<1> DEFINE F == Fitting(word, s)
           k == Cardinality(F)
           At == [n \in 1..k |-> CHOOSE i \in F : Place(word, s, i) = n]
           found == SearchWord(word, s)
<1>1. k \in Nat /\ \A i \in F : s[i] \in Articles /\ Answers(s[i], word)
  BY FittingOnes
<1>2. \A n \in 1..k : At[n] \in F
  BY Placed
<1>3. found = [n \in 1..k |-> s[At[n]]]
  BY Placed
<1> HIDE DEF F, k, At, found
<1>4. found \in Seq(Articles) /\ DOMAIN found = 1..k /\ Len(found) = k
  BY <1>1, <1>2, <1>3
<1>5. \A i \in DOMAIN found : Answers(found[i], word)
  BY <1>1, <1>2, <1>3, <1>4
<1>6. found # <<>> => 1 \in DOMAIN found
  BY <1>1, <1>4, EmptySeq
<1> QED
  BY <1>4, <1>5, <1>6 DEF found

\* Every fitting article is found as often as it was answered, no other is, and
\* a better dictionary is never behind a worse one.
LEMMA Counted ==
  ASSUME NEW word, NEW s \in Seq(Articles), NEW a \in Articles
  PROVE  Times(a, SearchWord(word, s)) = IF Answers(a, word) THEN Times(a, s) ELSE 0
<1> DEFINE F == Fitting(word, s)
           k == Cardinality(F)
           At == [n \in 1..k |-> CHOOSE i \in F : Place(word, s, i) = n]
           found == SearchWord(word, s)
           Here == {n \in DOMAIN found : found[n] = a}
           There == {i \in F : s[i] = a}
           Sent == [n \in Here |-> At[n]]
<1>1. /\ k \in Nat /\ F \subseteq 1..Len(s) /\ IsFiniteSet(F)
      /\ \A i \in F : Answers(s[i], word)
  BY FittingOnes
<1>2. /\ At \in Bijection(1..k, F) /\ found = [n \in 1..k |-> s[At[n]]]
      /\ \A n \in 1..k : At[n] \in F
  BY Placed
<1>3. DOMAIN s = 1..Len(s) /\ DOMAIN found = 1..k
  BY <1>2
<1> HIDE DEF At, found
<1>4. Sent \in Bijection(Here, There)
  <2>1. \A n \in Here : At[n] \in There /\ n \in 1..k
    BY <1>2, <1>3
  <2>2. Sent \in [Here -> There]
    BY <2>1
  <2>3. \A m, n \in Here : Sent[m] = Sent[n] => m = n
    BY <1>2, <2>1 DEF Bijection, Injection, IsInjective
  <2>4. ASSUME NEW i \in There PROVE \E n \in Here : Sent[n] = i
    <3>1. PICK n \in 1..k : At[n] = i
      BY <1>2 DEF Bijection, Surjection
    <3>2. n \in Here
      BY <1>2, <1>3, <3>1
    <3> QED
      BY <3>1, <3>2
  <2> HIDE DEF Sent, Here, There
  <2> QED
    BY <2>2, <2>3, <2>4 DEF Bijection, Injection, Surjection, IsInjective
<1>5. IsFiniteSet(Here)
  <2>1. Here \subseteq 1..k /\ IsFiniteSet(1..k)
    BY <1>1, <1>3, FS_Interval
  <2> QED
    BY <2>1, FS_Subset
<1>6. Cardinality(There) = Cardinality(Here)
  <2> HIDE DEF Sent, Here, There
  <2> QED
    BY <1>4, <1>5, FS_Bijection DEF ExistsBijection
<1>7. There = IF Answers(a, word) THEN {i \in DOMAIN s : s[i] = a} ELSE {}
  BY <1>1, <1>3 DEF Fitting
<1> QED
  BY <1>6, <1>7, FS_EmptySet DEF Times, found

LEMMA InPriority ==
  ASSUME NEW word, NEW s \in Seq(Articles)
  PROVE  LET found == SearchWord(word, s)
         IN  \A i, j \in DOMAIN found :
               i < j => Priority[found[i].dict] <= Priority[found[j].dict]
<1> DEFINE F == Fitting(word, s)
           k == Cardinality(F)
           At == [n \in 1..k |-> CHOOSE i \in F : Place(word, s, i) = n]
           found == SearchWord(word, s)
<1>1. k \in Nat /\ \A i \in F : Priority[s[i].dict] \in Nat
  BY FittingOnes
<1>2. /\ found = [n \in 1..k |-> s[At[n]]]
      /\ \A n \in 1..k : At[n] \in F /\ Place(word, s, At[n]) = n
  BY Placed
<1> HIDE DEF At, found
<1>3. ASSUME NEW i \in 1..k, NEW j \in 1..k, i < j
      PROVE  Priority[s[At[i]].dict] <= Priority[s[At[j]].dict]
  <2>1. ~ Before(s, At[j], At[i])
    BY <1>1, <1>2, <1>3, Ordered
  <2> QED
    BY <1>1, <1>2, <2>1 DEF Before
<1> QED
  BY <1>2, <1>3 DEF found

-----------------------------------------------------------------------------
(* What a step must do to keep the parts of the invariant.                 *)

LEMMA Typed ==
  ASSUME Inv, NEW c \in Chats
  PROVE  /\ dialog[c] \in Contexts /\ handler[c] \in Handlers
         /\ Sound(dialog[c], handler[c], day, counted)
BY DEF Inv, TypeOK, Sessions

LEMMA MovesOn ==
  ASSUME Inv, NEW c \in Chats, NEW d \in Contexts, NEW h \in Handlers,
         dialog' = [dialog EXCEPT ![c] = d], handler' = [handler EXCEPT ![c] = h],
         day' = day, counted \subseteq counted', Sound(d, h, day, counted')
  PROVE  /\ dialog' \in [Chats -> Contexts] /\ handler' \in [Chats -> Handlers]
         /\ Sessions'
<1>1. /\ dialog' \in [Chats -> Contexts] /\ handler' \in [Chats -> Handlers]
      /\ dialog'[c] = d /\ handler'[c] = h
      /\ \A x \in Chats \ {c} : dialog'[x] = dialog[x] /\ handler'[x] = handler[x]
  BY DEF Inv, TypeOK
<1>2. ASSUME NEW x \in Chats
      PROVE  Sound(dialog'[x], handler'[x], day', counted')
  <2>1. CASE x = c
    BY <1>1, <2>1
  <2>2. CASE x # c
    <3>1. Sound(dialog[x], handler[x], day, counted)
      BY Typed
    <3>2. Sound(dialog[x], handler[x], day, counted')
      BY <3>1 DEF Sound
    <3> QED
      BY <1>1, <2>2, <3>2
  <2> QED
    BY <2>1, <2>2
<1> QED
  BY <1>1, <1>2 DEF Sessions

\* A handler that goes on, neither from nor to the log, leaves the books alone.
LEMMA GoesOn ==
  ASSUME Inv, NEW c \in Chats, NEW h \in Handlers, handler' = [handler EXCEPT ![c] = h],
         handler[c].pc # "log", h.pc # "log",
         h.pc = "create" => cardSeq < MaxCards,
         UNCHANGED <<cards, logs, cardSeq, failures>>
  PROVE  Books'
<1>1. /\ handler' \in [Chats -> Handlers] /\ handler'[c] = h
      /\ \A x \in Chats \ {c} : handler'[x] = handler[x]
  BY DEF Inv, TypeOK
<1>2. \A x \in Chats : handler'[x].pc = "log" => x # c /\ handler[x].pc = "log"
                                                 /\ handler'[x].card = handler[x].card
  BY <1>1
<1>3. Logging'
  BY <1>2 DEF Logging, Inv, Books
<1>4. \A k : UnderWay(k)' <=> UnderWay(k)
  BY <1>1 DEF UnderWay
<1>5. Unlogged' = Unlogged
  BY <1>4 DEF Unlogged
<1>6. AddedIsLogged'
  BY <1>5 DEF AddedIsLogged, Inv, Books
<1>7. Room'
  <2>1. Creating' \subseteq Creating \cup {c} /\ Creating' \subseteq Chats
    BY <1>1 DEF Creating
  <2>2. /\ IsFiniteSet(Creating) /\ IsFiniteSet(Creating')
        /\ Cardinality(Creating') <= Cardinality(Chats)
        /\ Cardinality(Creating) \in Nat /\ Cardinality(Creating') \in Nat
        /\ Cardinality(Chats) \in Nat /\ cardSeq \in Nat /\ MaxCards \in Nat
    <3>1. cardSeq \in Nat /\ MaxCards \in Nat
      BY LookupAssumption DEF Inv, TypeOK, Ids
    <3>2. Creating \subseteq Chats
      BY DEF Creating
    <3> QED
      BY <2>1, <3>1, <3>2, LookupAssumption, FS_Subset, FS_CardinalityType
  <2>3. CASE h.pc = "create"
    BY <2>2, <2>3 DEF Room
  <2>4. CASE h.pc # "create"
    <3>1. Creating' \subseteq Creating
      BY <1>1, <2>1, <2>4 DEF Creating
    <3>2. Cardinality(Creating') <= Cardinality(Creating)
      BY <2>2, <3>1, FS_Subset
    <3>3. Room
      BY DEF Inv, Books
    <3> QED
      BY <2>2, <3>1, <3>2, <3>3 DEF Room
  <2> QED
    BY <2>3, <2>4
<1>8. UniqueIds'
  BY DEF UniqueIds, Inv, Books
<1> QED
  BY <1>3, <1>6, <1>7, <1>8 DEF Books

\* A step that only moves a chat's dialog.
LEMMA StoreKeeps ==
  ASSUME Inv, NEW c \in Chats, NEW d \in Contexts, Store(c, d),
         handler[c].pc = "idle", Sound(d, handler[c], day, counted)
  PROVE  Inv'
<1>1. /\ UNCHANGED <<store, day, handler, failures>> /\ dialog' = [dialog EXCEPT ![c] = d]
      /\ handler' = [handler EXCEPT ![c] = handler[c]]
  BY DEF Store, Inv, TypeOK
<1>2. UNCHANGED <<decks, cards, deckSeq, cardSeq, logs, counted, day, failures>>
  BY <1>1 DEF store
<1>3. handler[c] \in Handlers
  BY Typed
<1>4. /\ dialog' \in [Chats -> Contexts] /\ handler' \in [Chats -> Handlers]
      /\ Sessions'
  BY <1>1, <1>2, <1>3, MovesOn
<1>5. Books'
  BY <1>1, <1>2, <1>3, GoesOn
<1>6. TypeOK'
  BY <1>2, <1>4 DEF Inv, TypeOK, Ids, Sessions, Sound
<1> QED
  BY <1>4, <1>5, <1>6 DEF Inv

-----------------------------------------------------------------------------
(* One lemma per kind of action.                                           *)

LEMMA NothingFound ==
  /\ <<>> \in Seq(Articles)
  /\ \A i \in DOMAIN <<>> : FALSE
BY EmptySeq

LEMMA Menus ==
  /\ Menu \in Contexts /\ Menu.chosen = NoArticle /\ Menu.state = "menu"
  /\ Menu.index = 0 /\ Menu.since = 0
  /\ \A i \in DOMAIN Menu.results : FALSE
<1>1. 0 \in 0..MaxDay
  BY LookupAssumption
<1>2. Menu \in Contexts
  BY <1>1, NothingFound DEF Menu, Contexts
<1>3. /\ Menu.chosen = NoArticle /\ Menu.state = "menu" /\ Menu.index = 0
      /\ Menu.since = 0 /\ Menu.results = <<>>
  BY DEF Menu
<1> QED
  BY <1>2, <1>3, NothingFound

\* A context without results suits a handler that searches, or none.
LEMMA Blanks ==
  ASSUME NEW d, NEW h, NEW now, NEW days, d.state \in {"menu", "word"},
         d.chosen = NoArticle, \A i \in DOMAIN d.results : FALSE,
         h.pc \in {"idle", "parse"}, h.since <= now
  PROVE  Sound(d, h, now, days)
BY DEF Sound, Choosing

LEMMA WordWindow ==
  LET d == [Menu EXCEPT !.state = "word"]
  IN  /\ d \in Contexts /\ d.chosen = NoArticle /\ d.state = "word"
      /\ \A i \in DOMAIN d.results : FALSE
BY Menus DEF Contexts

LEMMA Lists == ASSUME NEW s \in Seq(Articles) PROVE DOMAIN s = 1..Len(s) /\ Len(s) \in Nat
OBVIOUS

LEMMA Fields ==
  ASSUME NEW d \in Contexts
  PROVE  /\ d.results \in Seq(Articles) /\ DOMAIN d.results = 1..Len(d.results)
         /\ Len(d.results) \in Nat /\ d.index \in Nat /\ d.since \in 0..MaxDay
         /\ d.chosen \in Articles \cup {NoArticle} /\ d.query \in Queries \cup {""}
<1>1. d.results \in Seq(Articles) /\ d.index \in Nat /\ d.since \in 0..MaxDay
      /\ d.chosen \in Articles \cup {NoArticle} /\ d.query \in Queries \cup {""}
  BY DEF Contexts
<1> QED
  BY <1>1, Lists

LEMMA InitInv == Init => Inv
<1> SUFFICES ASSUME Init PROVE Inv
  OBVIOUS
<1>1. 0 \in 0..MaxDay /\ 0 \in 0..MaxDecks /\ 0 \in 0..MaxFailures
  BY LookupAssumption
<1>2. Menu \in Contexts /\ Idle \in Handlers
  BY <1>1, NothingFound, Menus DEF Idle, Handlers
<1>3. IsFiniteSet({}) /\ Cardinality({}) = 0
  BY FS_EmptySet
<1>4. Sessions
  <2>1. Idle.pc = "idle" /\ Idle.since = 0 /\ day = 0
    BY DEF Idle, Init
  <2>2. Sound(Menu, Idle, day, counted)
    BY <2>1, Menus, Blanks
  <2> QED
    BY <2>2 DEF Init, Sessions
<1>5. TypeOK
  <2>1. /\ decks \subseteq 1..deckSeq /\ deckSeq \in 0..MaxDecks
        /\ cardSeq \in {0} \cup Ids /\ IsFiniteSet(cards) /\ cards = {}
        /\ logs \in [Ids -> 0..1] /\ day \in 0..MaxDay /\ counted \subseteq 0..day
        /\ failures \in 0..MaxFailures
    BY <1>1, <1>3 DEF Init
  <2>2. dialog \in [Chats -> Contexts] /\ handler \in [Chats -> Handlers]
    BY <1>2 DEF Init
  <2> QED
    BY <1>4, <2>1, <2>2 DEF TypeOK, Sessions, Sound
<1>6. Books
  <2>1. \A c \in Chats : handler[c].pc = "idle"
    BY DEF Init, Idle
  <2>2. Unlogged = {} /\ Creating = {}
    BY <2>1 DEF Init, Unlogged, Creating
  <2>3. AddedIsLogged
    <3>1. \A i \in Ids : logs[i] = 0
      BY DEF Init
    <3> QED
      BY <1>3, <2>2, <3>1 DEF Init, AddedIsLogged
  <2> QED
    BY <2>1, <2>2, <2>3 DEF Init, Books, UniqueIds, Logging, Room
<1> QED
  BY <1>4, <1>5, <1>6 DEF Inv

LEMMA StoreStep ==
  ASSUME Inv, NEW c \in Chats,
         \/ OpenLookup(c) \/ Prev(c) \/ NextResult(c) \/ NewSearch(c) \/ BackToMenu(c)
         \/ AddToDeck(c) \/ Done(c) \/ ToCreate(c) \/ BackToSelect(c)
  PROVE  Inv'
<1> DEFINE d == dialog[c]
           h == handler[c]
<1>1. /\ d \in Contexts /\ h \in Handlers /\ Sound(d, h, day, counted)
      /\ d.results \in Seq(Articles) /\ DOMAIN d.results = 1..Len(d.results)
      /\ Len(d.results) \in Nat /\ d.index \in Nat /\ h.since <= day
  BY Typed, Fields DEF Sound
<1>2. 0 \in 0..MaxDay
  BY LookupAssumption
<1>3. CASE OpenLookup(c) \/ NewSearch(c)
  <2> DEFINE e == [Menu EXCEPT !.state = "word"]
  <2>1. Store(c, e) /\ h.pc = "idle"
    BY <1>3 DEF OpenLookup, NewSearch, In
  <2>2. /\ e \in Contexts /\ e.chosen = NoArticle /\ e.state = "word"
        /\ \A i \in DOMAIN e.results : FALSE
    BY WordWindow
  <2> HIDE DEF e
  <2>3. Sound(e, h, day, counted)
    BY <1>1, <2>1, <2>2, Blanks
  <2> QED
    BY <2>1, <2>2, <2>3, StoreKeeps
<1>4. CASE BackToMenu(c)
  <2>1. Store(c, Menu) /\ h.pc = "idle"
    BY <1>4 DEF BackToMenu
  <2> QED
    BY <1>1, <2>1, Menus, Blanks, StoreKeeps
<1>5. CASE Prev(c)
  <2> DEFINE e == [d EXCEPT !.index = @ - 1]
  <2>1. Store(c, e) /\ h.pc = "idle" /\ d.state = "results" /\ d.index > 0
    BY <1>5 DEF Prev, In
  <2>2. d.index - 1 \in Nat /\ (d.index - 1) + 1 \in 1..Len(d.results)
    BY <1>1, <2>1 DEF Sound
  <2>3. e \in Contexts
    BY <1>1, <2>2 DEF Contexts
  <2>4. /\ e.state = "results" /\ e.query = d.query /\ e.results = d.results
        /\ e.index = d.index - 1 /\ e.chosen = d.chosen
    BY <1>1, <2>1 DEF Contexts
  <2>5. Sound(e, h, day, counted)
    BY <1>1, <2>1, <2>2, <2>4 DEF Sound, Choosing
  <2> QED
    BY <2>1, <2>3, <2>5, StoreKeeps
<1>6. CASE NextResult(c)
  <2> DEFINE e == [d EXCEPT !.index = @ + 1]
  <2>1. Store(c, e) /\ h.pc = "idle" /\ d.state = "results" /\ d.index + 1 < Len(d.results)
    BY <1>6 DEF NextResult, In
  <2>2. d.index + 1 \in Nat /\ (d.index + 1) + 1 \in 1..Len(d.results)
    BY <1>1, <2>1 DEF Sound
  <2>3. e \in Contexts
    BY <1>1, <2>2 DEF Contexts
  <2>4. /\ e.state = "results" /\ e.query = d.query /\ e.results = d.results
        /\ e.index = d.index + 1 /\ e.chosen = d.chosen
    BY <1>1, <2>1 DEF Contexts
  <2>5. Sound(e, h, day, counted)
    BY <1>1, <2>1, <2>2, <2>4 DEF Sound, Choosing
  <2> QED
    BY <2>1, <2>3, <2>5, StoreKeeps
<1>7. CASE AddToDeck(c)
  <2> DEFINE e == [d EXCEPT !.state = "select", !.chosen = Shown(d)]
  <2>1. Store(c, e) /\ h.pc = "idle" /\ d.state = "results"
    BY <1>7 DEF AddToDeck, In
  <2>2. d.index + 1 \in DOMAIN d.results
    BY <1>1, <2>1 DEF Sound
  <2>3. Shown(d) \in Articles
    BY <1>1, <2>2 DEF Shown
  <2>4. e \in Contexts
    BY <1>1, <2>3 DEF Contexts
  <2>5. Sound(e, h, day, counted)
    BY <1>1, <2>1, <2>2 DEF Sound, Choosing, Contexts, Shown
  <2> QED
    BY <2>1, <2>4, <2>5, StoreKeeps
<1>8. CASE Done(c)
  <2> DEFINE e == [d EXCEPT !.state = "results", !.chosen = NoArticle, !.since = 0]
  <2>1. Store(c, e) /\ h.pc = "idle" /\ d.state \in {"select", "added"}
    BY <1>8 DEF Done, In
  <2>2. e \in Contexts
    BY <1>1, <1>2 DEF Contexts
  <2>3. Sound(e, h, day, counted)
    BY <1>1, <2>1 DEF Sound, Choosing, Contexts
  <2> QED
    BY <2>1, <2>2, <2>3, StoreKeeps
<1>9. CASE ToCreate(c)
  <2> DEFINE e == [d EXCEPT !.state = "create"]
  <2>1. Store(c, e) /\ h.pc = "idle" /\ d.state = "select"
    BY <1>9 DEF ToCreate, In
  <2>2. e \in Contexts
    BY <1>1 DEF Contexts
  <2>3. Sound(e, h, day, counted)
    BY <1>1, <2>1 DEF Sound, Choosing, Contexts, Shown
  <2> QED
    BY <2>1, <2>2, <2>3, StoreKeeps
<1>10. CASE BackToSelect(c)
  <2> DEFINE e == [d EXCEPT !.state = "select"]
  <2>1. Store(c, e) /\ h.pc = "idle" /\ d.state = "create"
    BY <1>10 DEF BackToSelect, In
  <2>2. e \in Contexts
    BY <1>1 DEF Contexts
  <2>3. Sound(e, h, day, counted)
    BY <1>1, <2>1 DEF Sound, Choosing, Contexts, Shown
  <2> QED
    BY <2>1, <2>2, <2>3, StoreKeeps
<1> QED
  BY <1>3, <1>4, <1>5, <1>6, <1>7, <1>8, <1>9, <1>10

\* A step of a chat's handler, neither from nor to the log.
LEMMA HandlerKeeps ==
  ASSUME Inv, NEW c \in Chats, NEW d \in Contexts, NEW h \in Handlers,
         dialog' = [dialog EXCEPT ![c] = d], handler' = [handler EXCEPT ![c] = h],
         handler[c].pc # "log", h.pc # "log", h.pc = "create" => cardSeq < MaxCards,
         UNCHANGED <<decks, cards, deckSeq, cardSeq, logs, day, failures>>,
         counted \subseteq counted', counted' \subseteq 0..day, Sound(d, h, day, counted')
  PROVE  Inv'
<1>1. /\ dialog' \in [Chats -> Contexts] /\ handler' \in [Chats -> Handlers]
      /\ Sessions'
  BY MovesOn
<1>2. Books'
  BY GoesOn
<1>3. TypeOK'
  BY <1>1 DEF Inv, TypeOK, Ids, Sessions, Sound
<1> QED
  BY <1>1, <1>2, <1>3 DEF Inv

LEMMA Idles ==
  /\ Idle \in Handlers /\ Idle.pc = "idle" /\ Idle.since = 0
  /\ \A d, h, now, days : Sound(d, h, now, days) /\ now \in Nat => Sound(d, Idle, now, days)
<1>1. 0 \in 0..MaxDay /\ 0 \in 0..MaxDecks
  BY LookupAssumption
<1>2. Idle \in Handlers
  BY <1>1, NothingFound DEF Idle, Handlers
<1>3. Idle.pc = "idle" /\ Idle.since = 0
  BY DEF Idle
<1>4. ASSUME NEW d, NEW h, NEW now \in Nat, NEW days, Sound(d, h, now, days)
      PROVE  Sound(d, Idle, now, days)
  BY <1>3, <1>4 DEF Sound
<1> QED
  BY <1>2, <1>3, <1>4

LEMMA Days == Inv => /\ day \in Nat /\ day \in 0..MaxDay /\ counted \subseteq 0..day
                     /\ 0 \in 0..MaxDay /\ 0 \in 0..MaxDecks
BY LookupAssumption DEF Inv, TypeOK

LEMMA EnterStep ==
  ASSUME Inv, NEW c \in Chats, NEW word \in Queries, NEW articles \in Responses,
         Enter(c, word, articles)
  PROVE  Inv'
<1> DEFINE h == [Idle EXCEPT !.pc = "parse", !.query = word, !.articles = articles]
<1>1. articles \in Seq(Articles)
  BY LookupAssumption DEF Responses
<1>2. h \in Handlers /\ h.pc = "parse" /\ h.since = 0
  BY <1>1, Idles DEF Handlers
<1>3. /\ handler' = [handler EXCEPT ![c] = h] /\ handler[c].pc = "idle"
      /\ UNCHANGED <<store, day, dialog, failures>> /\ dialog[c].state = "word"
  BY DEF Enter, In
<1> HIDE DEF h
<1>4. UNCHANGED <<decks, cards, deckSeq, cardSeq, logs, counted, day, dialog, failures>>
  BY <1>3 DEF store
<1>5. dialog' = [dialog EXCEPT ![c] = dialog[c]] /\ dialog[c] \in Contexts
  BY <1>4 DEF Inv, TypeOK
<1>6. Sound(dialog[c], h, day, counted')
  BY <1>2, <1>3, <1>4, Typed, Days DEF Sound
<1> QED
  BY <1>2, <1>3, <1>4, <1>5, <1>6, Days, HandlerKeeps

LEMMA ParseStep ==
  ASSUME Inv, NEW c \in Chats, Parse(c)
  PROVE  Inv'
<1> DEFINE h == handler[c]
           found == SearchWord(h.query, h.articles)
           d == [Menu EXCEPT !.state = "results", !.results = found, !.query = h.query]
<1>1. h.query \in Queries \cup {""} /\ h.articles \in Seq(Articles)
  BY Typed DEF Handlers
<1>2. /\ found \in Seq(Articles) /\ \A i \in DOMAIN found : Answers(found[i], h.query)
      /\ found # <<>> => 1 \in DOMAIN found
  BY <1>1, Found
<1> HIDE DEF found
<1>3. /\ h.pc = "parse" /\ handler' = [handler EXCEPT ![c] = Idle]
      /\ UNCHANGED <<decks, cards, deckSeq, cardSeq, logs, counted, day, failures>>
  BY DEF Parse, store
<1>4. CASE found = <<>>
  <2>1. dialog' = [dialog EXCEPT ![c] = dialog[c]] /\ dialog[c] \in Contexts
    BY <1>4, Typed DEF Parse, found, Inv, TypeOK
  <2>2. Sound(dialog[c], Idle, day, counted')
    BY <1>3, Typed, Idles, Days
  <2> QED
    BY <1>3, <2>1, <2>2, Idles, Days, HandlerKeeps
<1>5. CASE found # <<>>
  <2>1. dialog' = [dialog EXCEPT ![c] = d]
    BY <1>5 DEF Parse, found
  <2>2. /\ d \in Contexts /\ d.state = "results" /\ d.results = found
        /\ d.query = h.query /\ d.index = 0 /\ d.chosen = NoArticle
    BY <1>1, <1>2, Menus DEF Contexts
  <2> HIDE DEF d
  <2>3. Sound(d, Idle, day, counted')
    BY <1>2, <1>5, <2>2, Idles, Days DEF Sound, Choosing
  <2> QED
    BY <1>3, <2>1, <2>2, <2>3, Idles, Days, HandlerKeeps
<1> QED
  BY <1>4, <1>5

LEMMA SelectDeckStep ==
  ASSUME Inv, NEW c \in Chats, NEW deck \in 1..deckSeq, SelectDeck(c, deck)
  PROVE  Inv'
<1> DEFINE h == [Idle EXCEPT !.pc = "create", !.deck = deck]
<1>1. deck \in 0..MaxDecks
  BY LookupAssumption DEF Inv, TypeOK
<1>2. h \in Handlers /\ h.pc = "create" /\ h.since = 0
  BY <1>1, Idles DEF Handlers
<1>3. /\ handler' = [handler EXCEPT ![c] = h] /\ handler[c].pc = "idle" /\ cardSeq < MaxCards
      /\ UNCHANGED <<store, day, dialog, failures>> /\ dialog[c].state = "select"
  BY DEF SelectDeck, In
<1> HIDE DEF h
<1>4. UNCHANGED <<decks, cards, deckSeq, cardSeq, logs, counted, day, dialog, failures>>
  BY <1>3 DEF store
<1>5. dialog' = [dialog EXCEPT ![c] = dialog[c]] /\ dialog[c] \in Contexts
  BY <1>4 DEF Inv, TypeOK
<1>6. Sound(dialog[c], h, day, counted')
  BY <1>2, <1>3, <1>4, Typed, Days DEF Sound
<1> QED
  BY <1>2, <1>3, <1>4, <1>5, <1>6, Days, HandlerKeeps

LEMMA UpdateStreakStep ==
  ASSUME Inv, NEW c \in Chats, UpdateStreak(c)
  PROVE  Inv'
<1> DEFINE h == [handler[c] EXCEPT !.pc = "show"]
<1>1. handler[c] \in Handlers /\ Sound(dialog[c], handler[c], day, counted)
  BY Typed
<1>2. h \in Handlers /\ h.pc = "show" /\ h.since = handler[c].since
  BY <1>1 DEF Handlers
<1>3. /\ handler' = [handler EXCEPT ![c] = h] /\ handler[c].pc = "streak"
      /\ counted' = counted \cup {day}
      /\ UNCHANGED <<decks, cards, deckSeq, cardSeq, logs, day, dialog, failures>>
  BY <1>1 DEF UpdateStreak, Inv, TypeOK
<1> HIDE DEF h
<1>4. dialog' = [dialog EXCEPT ![c] = dialog[c]] /\ dialog[c] \in Contexts
  BY <1>3 DEF Inv, TypeOK
<1>5. counted' \subseteq 0..day
  BY <1>3, Days
<1>6. Sound(dialog[c], h, day, counted')
  BY <1>1, <1>2, <1>3 DEF Sound
<1> QED
  BY <1>2, <1>3, <1>4, <1>5, <1>6, HandlerKeeps

LEMMA ShowAddedStep ==
  ASSUME Inv, NEW c \in Chats, ShowAdded(c)
  PROVE  Inv'
<1> DEFINE h == handler[c]
           d == [dialog[c] EXCEPT !.state = "added", !.since = h.since]
<1>1. /\ h \in Handlers /\ dialog[c] \in Contexts /\ Sound(dialog[c], h, day, counted)
      /\ h.since \in 0..MaxDay
  BY Typed DEF Handlers
<1>2. /\ handler' = [handler EXCEPT ![c] = Idle] /\ dialog' = [dialog EXCEPT ![c] = d]
      /\ h.pc = "show"
      /\ UNCHANGED <<decks, cards, deckSeq, cardSeq, logs, counted, day, failures>>
  BY DEF ShowAdded, store, Inv, TypeOK, Contexts
<1>3. d \in Contexts
  BY <1>1 DEF Contexts
<1>4. /\ d.state = "added" /\ d.since = h.since /\ d.query = dialog[c].query
      /\ d.results = dialog[c].results /\ d.index = dialog[c].index
      /\ d.chosen = dialog[c].chosen
  BY <1>1 DEF Contexts
<1> HIDE DEF d
<1>5. Sound(d, Idle, day, counted')
  BY <1>1, <1>2, <1>4, Idles, Days DEF Sound, Choosing, Shown
<1> QED
  BY <1>2, <1>3, <1>5, Idles, Days, HandlerKeeps

LEMMA CreateDeckStep ==
  ASSUME Inv, NEW c \in Chats, CreateDeck(c)
  PROVE  Inv'
<1> DEFINE d == [dialog[c] EXCEPT !.state = "select"]
<1>1. /\ dialog[c] \in Contexts /\ handler[c] \in Handlers
      /\ Sound(dialog[c], handler[c], day, counted)
  BY Typed
<1>2. /\ handler[c].pc = "idle" /\ dialog[c].state = "create" /\ deckSeq < MaxDecks
      /\ decks' = decks \cup {deckSeq + 1} /\ deckSeq' = deckSeq + 1
      /\ UNCHANGED <<cards, cardSeq, logs, day, counted, handler, failures>>
      /\ dialog' = [dialog EXCEPT ![c] = d] /\ handler' = [handler EXCEPT ![c] = handler[c]]
  BY DEF CreateDeck, In, Inv, TypeOK, Contexts
<1>3. d \in Contexts
  BY <1>1 DEF Contexts
<1>4. /\ d.state = "select" /\ d.query = dialog[c].query /\ d.index = dialog[c].index
      /\ d.results = dialog[c].results /\ d.chosen = dialog[c].chosen
  BY <1>1 DEF Contexts
<1> HIDE DEF d
<1>5. Sound(d, handler[c], day, counted')
  BY <1>1, <1>2, <1>4 DEF Sound, Choosing, Shown
<1>6. /\ dialog' \in [Chats -> Contexts] /\ handler' \in [Chats -> Handlers]
      /\ Sessions'
  BY <1>1, <1>2, <1>3, <1>5, MovesOn
<1>7. Books'
  BY <1>1, <1>2, GoesOn
<1>8. decks' \subseteq 1..deckSeq' /\ deckSeq' \in 0..MaxDecks
  BY <1>2, LookupAssumption DEF Inv, TypeOK
<1>9. cards' \subseteq [id : 1..cardSeq', deck : decks', article : Articles]
  BY <1>2 DEF Inv, TypeOK
<1>10. TypeOK'
  BY <1>2, <1>6, <1>8, <1>9 DEF Inv, TypeOK, Ids, Sessions, Sound
<1> QED
  BY <1>6, <1>7, <1>10 DEF Inv

LEMMA Numbers ==
  Inv => /\ cardSeq \in Nat /\ MaxCards \in Nat /\ Cardinality(Chats) \in Nat
         /\ failures \in Nat /\ IsFiniteSet(cards) /\ IsFiniteSet(Chats)
         /\ IsFiniteSet(Unlogged) /\ Cardinality(Unlogged) \in Nat
<1> SUFFICES ASSUME Inv PROVE /\ cardSeq \in Nat /\ MaxCards \in Nat
         /\ Cardinality(Chats) \in Nat /\ failures \in Nat
         /\ IsFiniteSet(cards) /\ IsFiniteSet(Chats)
         /\ IsFiniteSet(Unlogged) /\ Cardinality(Unlogged) \in Nat
  OBVIOUS
<1>1. /\ MaxCards \in Nat /\ IsFiniteSet(Chats) /\ IsFiniteSet(cards)
      /\ cardSeq \in Nat /\ failures \in Nat
  BY LookupAssumption DEF Inv, TypeOK, Ids
<1>2. IsFiniteSet(Unlogged)
  BY <1>1, FS_Subset DEF Unlogged
<1> QED
  BY <1>1, <1>2, FS_CardinalityType

\* Who is about to create a card still has an id to give it.
LEMMA NextId ==
  ASSUME Inv, NEW c \in Chats, handler[c].pc = "create"
  PROVE  /\ cardSeq + 1 \in Ids /\ IsFiniteSet(Creating) /\ c \in Creating
         /\ cardSeq + Cardinality(Creating) < MaxCards + Cardinality(Chats)
         /\ Cardinality(Creating) \in Nat \ {0}
<1>1. Creating \subseteq Chats /\ c \in Creating
  BY DEF Creating
<1>2. IsFiniteSet(Creating)
  BY <1>1, LookupAssumption, FS_Subset
<1>3. Cardinality(Creating) \in Nat /\ Cardinality(Creating) # 0
  BY <1>1, <1>2, FS_CardinalityType, FS_EmptySet
<1>4. cardSeq + Cardinality(Creating) < MaxCards + Cardinality(Chats)
  BY <1>1 DEF Room, Inv, Books
<1>5. cardSeq + 1 \in Ids
  BY <1>3, <1>4, Numbers DEF Ids
<1> QED
  BY <1>1, <1>2, <1>3, <1>4, <1>5

LEMMA CreateCardStep ==
  ASSUME Inv, NEW c \in Chats, CreateCard(c)
  PROVE  Inv'
<1> DEFINE h == handler[c]
           d == dialog[c]
           new == [id |-> cardSeq + 1, deck |-> h.deck, article |-> d.chosen]
           g == [h EXCEPT !.pc = "log", !.card = cardSeq + 1, !.since = day]
<1>1. /\ d \in Contexts /\ h \in Handlers /\ Sound(d, h, day, counted)
  BY Typed
<1>2. /\ h.pc = "create"
      /\ UNCHANGED <<decks, deckSeq, logs, day, counted, dialog, failures>>
  BY DEF CreateCard
<1>3. dialog' = [dialog EXCEPT ![c] = d]
  BY <1>2 DEF Inv, TypeOK
<1>4. CASE h.deck \notin decks \/ Taken(h.deck, d.chosen.head)
  <2>1. handler' = [handler EXCEPT ![c] = Idle] /\ UNCHANGED <<cards, cardSeq>>
    BY <1>4 DEF CreateCard
  <2>2. Sound(d, Idle, day, counted')
    BY <1>1, <1>2, Idles, Days
  <2> QED
    BY <1>1, <1>2, <1>3, <2>1, <2>2, Idles, Days, HandlerKeeps
<1>5. CASE ~ (h.deck \notin decks \/ Taken(h.deck, d.chosen.head))
  <2>1. /\ cardSeq' = cardSeq + 1 /\ cards' = cards \cup {new}
        /\ handler' = [handler EXCEPT ![c] = g] /\ h.deck \in decks
    BY <1>1, <1>5 DEF CreateCard, Inv, TypeOK, Handlers
  <2>2. cardSeq + 1 \in Ids /\ cardSeq \in Nat
    BY <1>2, NextId, Numbers
  <2>3. g \in Handlers /\ g.pc = "log" /\ g.card = cardSeq + 1 /\ g.since = day
    BY <1>1, <2>2, Days DEF Handlers
  <2> HIDE DEF g
  <2>4. /\ d.chosen = Shown(d) /\ d.index + 1 \in DOMAIN d.results
        /\ Answers(d.chosen, d.query) /\ d.chosen \in Articles /\ d.chosen.head # NoHead
    <3>1. d.state = "select" /\ Choosing(d)
      BY <1>1, <1>2 DEF Sound, Choosing
    <3>2. d.chosen = Shown(d) /\ d.index + 1 \in DOMAIN d.results
      BY <1>1, <3>1 DEF Sound
    <3>3. Shown(d) = d.results[d.index + 1]
      BY DEF Shown
    <3>4. d.results[d.index + 1] \in Articles
      <4>1. d.results \in Seq(Articles)
        BY <1>1, Fields
      <4> QED
        BY <3>2, <4>1
    <3>5. Answers(d.results[d.index + 1], d.query)
      BY <1>1, <3>2 DEF Sound
    <3> QED
      BY <3>2, <3>3, <3>4, <3>5 DEF Answers
  <2>5. Sound(d, g, day, counted')
    BY <1>1, <1>2, <2>3, Days DEF Sound
  <2>6. /\ dialog' \in [Chats -> Contexts] /\ handler' \in [Chats -> Handlers]
        /\ Sessions'
    BY <1>1, <1>2, <1>3, <2>1, <2>3, <2>5, MovesOn
  <2>7. /\ handler'[c] = g /\ \A x \in Chats \ {c} : handler'[x] = handler[x]
    BY <2>1 DEF Inv, TypeOK
  <2>8. TypeOK'
    <3>1. new \in [id : 1..cardSeq', deck : decks', article : Articles]
      BY <1>2, <2>1, <2>2, <2>4
    <3>2. cards' \subseteq [id : 1..cardSeq', deck : decks', article : Articles]
      BY <1>2, <2>1, <2>2, <3>1 DEF Inv, TypeOK
    <3>3. IsFiniteSet(cards') /\ \A row \in cards' : row.article.head # NoHead
      <4>1. IsFiniteSet(cards')
        BY <2>1, Numbers, FS_AddElement
      <4>2. new.article.head # NoHead
        BY <2>4
      <4> QED
        BY <2>1, <4>1, <4>2 DEF Inv, TypeOK
    <3>4. cardSeq' \in {0} \cup Ids
      BY <2>1, <2>2
    <3> QED
      BY <1>2, <2>6, <3>2, <3>3, <3>4 DEF Inv, TypeOK, Ids, Sessions, Sound
  <2>9. \A row \in cards : row.id \in 1..cardSeq /\ row.id # cardSeq + 1
    BY <2>2 DEF Inv, TypeOK
  <2>10. UniqueIds'
    BY <2>1, <2>9 DEF UniqueIds, Inv, Books
  <2>11. logs[cardSeq + 1] = 0
    BY <2>2, <2>9 DEF Inv, Books, AddedIsLogged, TypeOK
  <2>12. Logging'
    <3>1. ASSUME NEW x \in Chats, handler'[x].pc = "log"
          PROVE  /\ handler'[x].card \in 1..cardSeq' /\ logs'[handler'[x].card] = 0
                 /\ x # c => handler'[x].card # cardSeq + 1
                 /\ x # c => handler[x].pc = "log" /\ handler'[x].card = handler[x].card
                 /\ x = c => handler'[x].card = cardSeq + 1
      <4>1. CASE x = c
        BY <1>2, <2>1, <2>2, <2>3, <2>7, <2>11, <4>1
      <4>2. CASE x # c
        <5>1. /\ handler[x].pc = "log" /\ handler'[x].card = handler[x].card
              /\ handler[x].card \in 1..cardSeq /\ logs[handler[x].card] = 0
          BY <2>7, <3>1, <4>2 DEF Inv, Books, Logging
        <5> QED
          BY <1>2, <2>1, <2>2, <4>2, <5>1
      <4> QED
        BY <4>1, <4>2
    <3> QED
      BY <3>1 DEF Logging, Inv, Books
  <2>13. AddedIsLogged'
    <3>1. \A k : k = cardSeq + 1 => UnderWay(k)'
      BY <2>3, <2>7 DEF UnderWay
    <3>2. \A k : UnderWay(k) => UnderWay(k)'
      BY <1>2, <2>7 DEF UnderWay
    <3>3. Unlogged' \subseteq Unlogged
      <4>1. \A row \in cards' \ cards : row.id = cardSeq + 1
        BY <2>1
      <4> QED
        BY <1>2, <3>1, <3>2, <4>1 DEF Unlogged
    <3>4. Cardinality(Unlogged') <= Cardinality(Unlogged) /\ Cardinality(Unlogged') \in Nat
      BY <3>3, Numbers, FS_Subset, FS_CardinalityType
    <3>5. \A i \in Ids : logs'[i] > 0 => \E row \in cards' : row.id = i
      BY <1>2, <2>1 DEF Inv, Books, AddedIsLogged
    <3> QED
      BY <1>2, <3>4, <3>5, Numbers DEF AddedIsLogged, Inv, Books
  <2>14. Room'
    <3>1. Creating' = Creating \ {c}
      BY <2>3, <2>7 DEF Creating
    <3>2. /\ cardSeq + Cardinality(Creating) < MaxCards + Cardinality(Chats)
          /\ Cardinality(Creating \ {c}) = Cardinality(Creating) - 1
          /\ Cardinality(Creating) \in Nat
      BY <1>2, NextId, FS_RemoveElement
    <3> QED
      BY <2>1, <3>1, <3>2, Numbers DEF Room
  <2> QED
    BY <2>6, <2>8, <2>10, <2>12, <2>13, <2>14 DEF Inv, Books
<1> QED
  BY <1>4, <1>5

LEMMA LogAddedStep ==
  ASSUME Inv, NEW c \in Chats, LogAdded(c)
  PROVE  Inv'
<1> DEFINE h == handler[c]
           d == dialog[c]
           k == h.card
           next == IF \E row \in cards : row.id = k THEN [h EXCEPT !.pc = "streak"] ELSE Idle
<1>1. /\ d \in Contexts /\ h \in Handlers /\ Sound(d, h, day, counted)
      /\ h.pc = "log" /\ k \in 1..cardSeq /\ logs[k] = 0
      /\ UNCHANGED <<decks, cards, deckSeq, cardSeq, day, counted, dialog, failures>>
  BY Typed DEF LogAdded, Inv, Books, Logging
<1>2. /\ next \in Handlers /\ next.pc \in {"streak", "idle"} /\ next.since <= day
      /\ handler' = [handler EXCEPT ![c] = next]
  <2>1. CASE \E row \in cards : row.id = k
    <3>1. handler' = [handler EXCEPT ![c] = [h EXCEPT !.pc = "streak"]]
      BY <2>1 DEF LogAdded, Inv, TypeOK
    <3>2. LET g == [h EXCEPT !.pc = "streak"]
          IN  g \in Handlers /\ g.pc = "streak" /\ g.since = h.since
      BY <1>1 DEF Handlers
    <3>3. h.since <= day
      BY <1>1 DEF Sound
    <3> QED
      BY <2>1, <3>1, <3>2, <3>3
  <2>2. CASE ~ \E row \in cards : row.id = k
    BY <2>2, Idles, Days DEF LogAdded
  <2> QED
    BY <2>1, <2>2
<1> HIDE DEF next
<1>3. Sound(d, next, day, counted')
  BY <1>1, <1>2, Days DEF Sound
<1>4. /\ dialog' \in [Chats -> Contexts] /\ handler' \in [Chats -> Handlers]
      /\ Sessions'
  <2>1. dialog' = [dialog EXCEPT ![c] = d]
    BY <1>1 DEF Inv, TypeOK
  <2> QED
    BY <1>1, <1>2, <1>3, <2>1, MovesOn
<1>5. /\ handler'[c] = next /\ \A x \in Chats \ {c} : handler'[x] = handler[x]
  BY <1>2 DEF Inv, TypeOK
<1>6. k \in Ids
  BY <1>1, Numbers DEF Inv, TypeOK, Ids
<1>7. /\ logs' \in [Ids -> 0..1] /\ \A i \in Ids \ {k} : logs'[i] = logs[i]
      /\ (\E row \in cards : row.id = k) => logs'[k] = 1
      /\ (~ \E row \in cards : row.id = k) => logs'[k] = 0
  BY <1>1, <1>6 DEF LogAdded, Inv, TypeOK
<1>8. TypeOK'
  BY <1>1, <1>4, <1>7 DEF Inv, TypeOK, Ids, Sessions, Sound
<1>9. UniqueIds' /\ Room'
  <2>1. Creating' = Creating
    BY <1>1, <1>2, <1>5 DEF Creating
  <2> QED
    BY <1>1, <2>1 DEF UniqueIds, Room, Inv, Books
<1>10. Logging'
  <2>1. ASSUME NEW x \in Chats, handler'[x].pc = "log"
        PROVE  /\ handler'[x] = handler[x] /\ x # c /\ handler[x].card # k
               /\ handler[x].card \in 1..cardSeq /\ logs[handler[x].card] = 0
    <3>1. x # c /\ handler'[x] = handler[x]
      BY <1>2, <1>5, <2>1
    <3> QED
      BY <1>1, <2>1, <3>1 DEF Inv, Books, Logging
  <2>2. ASSUME NEW x \in Chats, handler'[x].pc = "log" PROVE logs'[handler'[x].card] = 0
    <3>1. handler[x].card \in Ids
      BY <2>1, <2>2, Numbers DEF Inv, TypeOK, Ids
    <3> QED
      BY <1>7, <2>1, <2>2, <3>1
  <2> QED
    BY <1>1, <2>1, <2>2 DEF Logging, Inv, Books
<1>11. AddedIsLogged'
  <2>1. \A i : i # k /\ UnderWay(i) => UnderWay(i)'
    BY <1>5 DEF UnderWay
  <2>2. \A row \in cards : row.id \in Ids
    BY Numbers DEF Inv, TypeOK, Ids
  <2>3. Unlogged' \subseteq Unlogged
    BY <1>1, <1>7, <2>1, <2>2 DEF Unlogged
  <2>4. Cardinality(Unlogged') <= Cardinality(Unlogged) /\ Cardinality(Unlogged') \in Nat
    BY <2>3, Numbers, FS_Subset, FS_CardinalityType
  <2>5. \A i \in Ids : logs'[i] > 0 => \E row \in cards' : row.id = i
    BY <1>1, <1>7 DEF Inv, Books, AddedIsLogged
  <2> QED
    BY <1>1, <2>4, <2>5, Numbers DEF AddedIsLogged, Inv, Books
<1> QED
  BY <1>4, <1>8, <1>9, <1>10, <1>11 DEF Inv, Books

LEMMA FailStep ==
  ASSUME Inv, NEW c \in Chats, Fail(c)
  PROVE  Inv'
<1> DEFINE h == handler[c]
<1>1. /\ dialog[c] \in Contexts /\ h \in Handlers /\ Sound(dialog[c], h, day, counted)
      /\ failures' = failures + 1 /\ failures < MaxFailures
      /\ handler' = [handler EXCEPT ![c] = Idle]
      /\ UNCHANGED <<decks, cards, deckSeq, cardSeq, logs, day, counted, dialog>>
  BY Typed DEF Fail, store
<1>2. /\ dialog' \in [Chats -> Contexts] /\ handler' \in [Chats -> Handlers]
      /\ Sessions'
  <2>1. dialog' = [dialog EXCEPT ![c] = dialog[c]]
    BY <1>1 DEF Inv, TypeOK
  <2>2. Sound(dialog[c], Idle, day, counted')
    BY <1>1, Idles, Days
  <2> QED
    BY <1>1, <2>1, <2>2, Idles, MovesOn
<1>3. /\ handler'[c] = Idle /\ \A x \in Chats \ {c} : handler'[x] = handler[x]
  BY <1>1 DEF Inv, TypeOK
<1>4. TypeOK'
  BY <1>1, <1>2, LookupAssumption DEF Inv, TypeOK, Ids, Sessions, Sound
<1>5. UniqueIds' /\ Logging'
  BY <1>1, <1>3, Idles DEF UniqueIds, Logging, Inv, Books
<1>6. Room'
  <2>1. Creating' \subseteq Creating /\ Creating \subseteq Chats
    BY <1>3, Idles DEF Creating
  <2>2. /\ IsFiniteSet(Creating) /\ Cardinality(Creating') <= Cardinality(Creating)
        /\ Cardinality(Creating) \in Nat /\ Cardinality(Creating') \in Nat
    BY <2>1, Numbers, FS_Subset, FS_CardinalityType
  <2> QED
    BY <1>1, <2>1, <2>2, Numbers DEF Room, Inv, Books
<1>7. AddedIsLogged'
  <2> DEFINE Lost == {row \in cards : row.id = h.card}
  <2>1. \A i : i # h.card /\ UnderWay(i) => UnderWay(i)'
    BY <1>3 DEF UnderWay
  <2>2. Unlogged' \subseteq Unlogged \cup Lost
    BY <1>1, <2>1 DEF Unlogged
  <2>3. IsFiniteSet(Lost) /\ Cardinality(Lost) <= 1 /\ Cardinality(Lost) \in Nat
    <3>1. Lost = {} \/ \E row : Lost = {row}
      BY DEF Inv, Books, UniqueIds
    <3> HIDE DEF Lost
    <3>2. CASE Lost = {}
      BY <3>2, FS_EmptySet
    <3>3. ASSUME NEW row, Lost = {row}
          PROVE  IsFiniteSet(Lost) /\ Cardinality(Lost) = 1
      BY <3>3, FS_Singleton
    <3> QED
      BY <3>1, <3>2, <3>3
  <2> HIDE DEF Lost
  <2>4. /\ IsFiniteSet(Unlogged \cup Lost)
        /\ Cardinality(Unlogged \cup Lost) <= Cardinality(Unlogged) + 1
    <3>1. /\ IsFiniteSet(Unlogged \cup Lost)
          /\ Cardinality(Unlogged \cup Lost) =
               Cardinality(Unlogged) + Cardinality(Lost) - Cardinality(Unlogged \cap Lost)
      BY <2>3, Numbers, FS_Union
    <3>2. Cardinality(Unlogged \cap Lost) \in Nat
      BY Numbers, FS_Intersection, FS_CardinalityType
    <3> QED
      BY <2>3, <3>1, <3>2, Numbers
  <2>5. /\ Cardinality(Unlogged') <= Cardinality(Unlogged \cup Lost)
        /\ Cardinality(Unlogged') \in Nat /\ Cardinality(Unlogged \cup Lost) \in Nat
    BY <2>2, <2>4, FS_Subset, FS_CardinalityType
  <2> QED
    BY <1>1, <2>4, <2>5, Numbers DEF AddedIsLogged, Inv, Books
<1> QED
  BY <1>2, <1>4, <1>5, <1>6, <1>7 DEF Inv, Books

\* A card or a deck with its cards is deleted.
LEMMA WithoutStep ==
  ASSUME Inv, NEW gone \in SUBSET cards, Without(gone),
         decks' \subseteq decks, \A row \in cards \ gone : row.deck \in decks'
  PROVE  Inv'
<1>1. /\ cards' = cards \ gone
      /\ logs' = [i \in DOMAIN logs |-> IF \E row \in gone : row.id = i THEN 0 ELSE logs[i]]
      /\ UNCHANGED <<deckSeq, cardSeq, day, counted, dialog, handler, failures>>
  BY DEF Without
<1>2. Sessions'
  BY <1>1 DEF Sessions, Inv
<1>3. /\ logs' \in [Ids -> 0..1] /\ \A i \in Ids : logs'[i] > 0 => logs'[i] = logs[i]
      /\ \A i \in Ids : (\E row \in gone : row.id = i) => logs'[i] = 0
      /\ \A i \in Ids : logs[i] = 0 => logs'[i] = 0
      /\ \A i \in Ids : ~ (\E row \in gone : row.id = i) => logs'[i] = logs[i]
  BY <1>1 DEF Inv, TypeOK
<1>4. TypeOK'
  <2>1. IsFiniteSet(cards')
    BY <1>1, Numbers, FS_Subset
  <2>2. cards' \subseteq [id : 1..cardSeq', deck : decks', article : Articles]
    BY <1>1 DEF Inv, TypeOK
  <2> QED
    BY <1>1, <1>3, <2>1, <2>2 DEF Inv, TypeOK, Ids
<1>5. UniqueIds' /\ Room'
  BY <1>1 DEF UniqueIds, Room, Creating, Inv, Books
<1>6. Logging'
  <2>1. \A x \in Chats : handler[x].pc = "log" => handler[x].card \in Ids
    BY Numbers DEF Inv, TypeOK, Books, Logging, Ids
  <2> QED
    BY <1>1, <1>3, <2>1 DEF Logging, Inv, Books
<1>7. AddedIsLogged'
  <2>1. \A row \in cards : row.id \in Ids
    BY Numbers DEF Inv, TypeOK, Ids
  <2>2. \A row \in cards' : logs'[row.id] = logs[row.id]
    BY <1>1, <1>3, <2>1 DEF Inv, Books, UniqueIds
  <2>3. Unlogged' \subseteq Unlogged
    BY <1>1, <2>2 DEF Unlogged, UnderWay
  <2>4. Cardinality(Unlogged') <= Cardinality(Unlogged) /\ Cardinality(Unlogged') \in Nat
    BY <2>3, Numbers, FS_Subset, FS_CardinalityType
  <2>5. ASSUME NEW i \in Ids, logs'[i] > 0 PROVE \E row \in cards' : row.id = i
    <3>1. logs[i] > 0 /\ ~ \E row \in gone : row.id = i
      BY <1>3, <2>5
    <3> QED
      BY <1>1, <3>1 DEF Inv, Books, AddedIsLogged
  <2> QED
    BY <1>1, <2>4, <2>5, Numbers DEF AddedIsLogged, Inv, Books
<1> QED
  BY <1>2, <1>4, <1>5, <1>6, <1>7 DEF Inv, Books

LEMMA TickStep ==
  ASSUME Inv, Tick
  PROVE  Inv'
<1>1. /\ day' = day + 1 /\ day < MaxDay
      /\ UNCHANGED <<decks, cards, deckSeq, cardSeq, logs, counted, dialog, handler, failures>>
  BY DEF Tick, store
<1>2. Sessions'
  <2>1. ASSUME NEW c \in Chats PROVE Sound(dialog[c], handler[c], day + 1, counted)
    <3>1. Sound(dialog[c], handler[c], day, counted) /\ handler[c].since \in 0..MaxDay
      BY Typed DEF Handlers
    <3> QED
      BY <3>1, Days, LookupAssumption DEF Sound
  <2> QED
    BY <1>1, <2>1 DEF Sessions
<1>3. day' \in 0..MaxDay /\ counted' \subseteq 0..day'
  BY <1>1, Days, LookupAssumption
<1>4. TypeOK'
  BY <1>1, <1>3 DEF Inv, TypeOK, Ids
<1>5. Books'
  BY <1>1 DEF Inv, Books, UniqueIds, Logging, AddedIsLogged, Unlogged, UnderWay, Room, Creating
<1> QED
  BY <1>2, <1>4, <1>5 DEF Inv

LEMMA NextInv == Inv /\ [Next]_vars => Inv'
<1> SUFFICES ASSUME Inv, [Next]_vars PROVE Inv'
  OBVIOUS
<1>1. CASE UNCHANGED vars
  BY <1>1 DEF vars, Inv, TypeOK, Ids, Sessions, Books, UniqueIds, Logging, AddedIsLogged,
              Unlogged, UnderWay, Room, Creating
<1>2. ASSUME NEW c \in Chats,
             \/ OpenLookup(c) \/ Prev(c) \/ NextResult(c) \/ NewSearch(c) \/ BackToMenu(c)
             \/ AddToDeck(c) \/ Done(c) \/ ToCreate(c) \/ BackToSelect(c)
      PROVE  Inv'
  BY <1>2, StoreStep
<1>3. ASSUME NEW c \in Chats,
             \/ Parse(c) \/ CreateDeck(c) \/ CreateCard(c) \/ LogAdded(c)
             \/ UpdateStreak(c) \/ ShowAdded(c) \/ Fail(c)
      PROVE  Inv'
  BY <1>3, ParseStep, CreateDeckStep, CreateCardStep, LogAddedStep, UpdateStreakStep,
     ShowAddedStep, FailStep
<1>4. ASSUME NEW c \in Chats, NEW word \in Queries, NEW articles \in Responses,
             Enter(c, word, articles)
      PROVE  Inv'
  BY <1>4, EnterStep
<1>5. ASSUME NEW c \in Chats, NEW d \in 1..deckSeq, SelectDeck(c, d)
      PROVE  Inv'
  BY <1>5, SelectDeckStep
<1>6. ASSUME NEW row \in cards, DeleteCard(row) PROVE Inv'
  <2>1. /\ {row} \in SUBSET cards /\ Without({row}) /\ decks' \subseteq decks
        /\ \A r \in cards \ {row} : r.deck \in decks'
    BY <1>6 DEF DeleteCard, Inv, TypeOK
  <2> QED
    BY <2>1, WithoutStep
<1>7. ASSUME NEW d \in decks, DeleteDeck(d) PROVE Inv'
  <2> DEFINE gone == {row \in cards : row.deck = d}
  <2>1. /\ gone \in SUBSET cards /\ Without(gone) /\ decks' \subseteq decks
        /\ \A r \in cards \ gone : r.deck \in decks'
    BY <1>7 DEF DeleteDeck, Inv, TypeOK
  <2> HIDE DEF gone
  <2> QED
    BY <2>1, WithoutStep
<1>8. CASE Tick
  BY <1>8, TickStep
<1> QED
  BY <1>1, <1>2, <1>3, <1>4, <1>5, <1>6, <1>7, <1>8 DEF Next

-----------------------------------------------------------------------------
(* The theorems.                                                           *)

\* In every reachable state each chat's context, its handler, the cards and
\* their logs fit together (lookup.py, card_display.py).
THEOREM Invariance == Spec => []Inv
<1>1. Init => Inv
  BY InitInv
<1>2. Inv /\ [Next]_vars => Inv'
  BY NextInv
<1> QED
  BY <1>1, <1>2, PTL DEF Spec

\* The variables keep their types; the index on screen is one of the results.
THEOREM TypeCorrect == Spec => []TypeOK
<1>1. Inv => TypeOK
  BY DEF Inv
<1> QED
  BY <1>1, Invariance, PTL

LEMMA DaysCounted == Inv => AddedDayCounted
BY DEF Inv, Sessions, Sound, AddedDayCounted

\* Each card added is logged, but for one per failure at most, and whoever is
\* told of it has had the day counted (on_deck_selected's three transactions).
THEOREM AdditionsAreCounted == Spec => []AddedIsCounted
<1>1. Inv => AddedIsCounted
  BY DaysCounted DEF Inv, Books, AddedIsCounted
<1> QED
  BY <1>1, Invariance, PTL

LEMMA AddsWhatIsShown ==
  ASSUME Inv, [Next]_vars, NEW row \in cards' \ cards
  PROVE  \E c \in Chats :
           LET d == dialog[c]
           IN  /\ handler[c].pc = "create" /\ handler'[c].card = row.id
               /\ row.article = d.results[d.index + 1]
               /\ Norm[row.article.head] = d.query
               /\ row.deck = handler[c].deck /\ row.deck \in decks
<1>1. PICK c \in Chats : CreateCard(c)
  <2>1. CASE UNCHANGED vars
    BY <2>1 DEF vars
  <2>2. ASSUME Next, ~ \E c \in Chats : CreateCard(c) PROVE cards' \subseteq cards
    BY <2>2 DEF Next, OpenLookup, Parse, Prev, NextResult, NewSearch, BackToMenu, AddToDeck,
                Done, ToCreate, BackToSelect, CreateDeck, LogAdded, UpdateStreak, ShowAdded,
                Fail, Enter, SelectDeck, DeleteCard, DeleteDeck, Tick, Store, store, Without
  <2> QED
    BY <2>1, <2>2
<1> DEFINE d == dialog[c]
           h == handler[c]
<1>2. Sound(d, h, day, counted) /\ handler \in [Chats -> Handlers] /\ h \in Handlers
  BY Typed DEF Inv, TypeOK
<1>3. /\ h.pc = "create" /\ h.deck \in decks
      /\ row = [id |-> cardSeq + 1, deck |-> h.deck, article |-> d.chosen]
      /\ handler'[c].card = cardSeq + 1
  <2>1. ~ (h.deck \notin decks \/ Taken(h.deck, d.chosen.head)) /\ h.pc = "create"
    BY <1>1 DEF CreateCard
  <2>2. /\ cards' = cards \cup {[id |-> cardSeq + 1, deck |-> h.deck, article |-> d.chosen]}
        /\ handler' = [handler EXCEPT ![c] =
                         [h EXCEPT !.pc = "log", !.card = cardSeq + 1, !.since = day]]
    BY <1>1, <1>2, <2>1 DEF CreateCard
  <2>3. [h EXCEPT !.pc = "log", !.card = cardSeq + 1, !.since = day].card = cardSeq + 1
    BY <1>2 DEF Handlers
  <2> QED
    BY <1>2, <2>1, <2>2, <2>3
<1>4. d.state = "select" /\ Choosing(d)
  BY <1>2, <1>3 DEF Sound, Choosing
<1>5. d.chosen = d.results[d.index + 1] /\ d.index + 1 \in DOMAIN d.results
  BY <1>2, <1>4 DEF Sound, Shown
<1>6. Norm[d.results[d.index + 1].head] = d.query
  BY <1>2, <1>5 DEF Sound, Answers
<1> QED
  BY <1>3, <1>5, <1>6

\* The card added is the article on screen, of the word looked up.
THEOREM AdditionsAreAsShown == Spec => AddedAsShown
<1>1. Inv /\ [Next]_vars =>
        [\A row \in cards' \ cards : \E c \in Chats :
           LET d == dialog[c]
           IN  /\ handler[c].pc = "create" /\ handler'[c].card = row.id
               /\ row.article = d.results[d.index + 1]
               /\ Norm[row.article.head] = d.query
               /\ row.deck = handler[c].deck /\ row.deck \in decks]_vars
  BY AddsWhatIsShown
<1> QED
  BY <1>1, Invariance, PTL DEF Spec, AddedAsShown

LEMMA OnlyParseFinds ==
  ASSUME Inv, [Next]_vars, NEW c \in Chats,
         dialog[c].state = "word", dialog'[c].state = "results"
  PROVE  Parse(c)
<1>1. dialog \in [Chats -> Contexts]
  BY DEF Inv, TypeOK
<1>2. CASE UNCHANGED vars
  BY <1>2 DEF vars
<1>3. ASSUME NEW x \in Chats, NEW d, Store(x, d),
             d.state # "results" \/ dialog[x].state # "word"
      PROVE  FALSE
  BY <1>1, <1>3 DEF Store
<1>4. ASSUME NEW x \in Chats, OpenLookup(x) \/ NewSearch(x) \/ BackToMenu(x) PROVE FALSE
  <2>1. [Menu EXCEPT !.state = "word"].state = "word" /\ Menu.state = "menu"
    BY Menus, WordWindow
  <2> QED
    BY <1>3, <1>4, <2>1 DEF OpenLookup, NewSearch, BackToMenu
<1>5. ASSUME NEW x \in Chats,
             \/ Prev(x) \/ NextResult(x) \/ AddToDeck(x) \/ Done(x)
             \/ ToCreate(x) \/ BackToSelect(x)
      PROVE  FALSE
  BY <1>3, <1>5 DEF Prev, NextResult, AddToDeck, Done, ToCreate, BackToSelect, In
<1>6. ASSUME NEW x \in Chats, ShowAdded(x) \/ CreateDeck(x) PROVE FALSE
  BY <1>1, <1>6 DEF ShowAdded, CreateDeck, Contexts
<1>7. ASSUME NEW x \in Chats, Parse(x), x # c PROVE FALSE
  BY <1>1, <1>7 DEF Parse
<1>8. ASSUME dialog' = dialog PROVE FALSE
  BY <1>8
<1>9. ASSUME Next PROVE Parse(c)
  BY <1>4, <1>5, <1>6, <1>7, <1>8, <1>9
     DEF Next, CreateCard, LogAdded, UpdateStreak, Fail, Enter, SelectDeck, DeleteCard,
         DeleteDeck, Tick, Without
<1> QED
  BY <1>2, <1>9

LEMMA ShowsWhatIsFound ==
  ASSUME Inv, [Next]_vars, NEW c \in Chats,
         dialog[c].state = "word", dialog'[c].state = "results"
  PROVE  LET asked == handler[c].articles
             found == dialog'[c].results
             Fits(a) == a.head \in Heads /\ Norm[a.head] = handler[c].query
         IN  /\ \A a \in Articles : Times(a, found) = IF Fits(a) THEN Times(a, asked) ELSE 0
             /\ \A i, j \in DOMAIN found :
                  i < j => Priority[found[i].dict] <= Priority[found[j].dict]
             /\ dialog'[c].index = 0 /\ found # <<>>
<1> DEFINE h == handler[c]
           found == SearchWord(h.query, h.articles)
<1>1. Parse(c) /\ h.articles \in Seq(Articles)
  BY OnlyParseFinds, Typed DEF Handlers
<1>2. /\ found # <<>> /\ dialog'[c].results = found /\ dialog'[c].index = 0
  <2>1. dialog \in [Chats -> Contexts]
    BY DEF Inv, TypeOK
  <2> HIDE DEF found
  <2>2. found # <<>>
    BY <1>1 DEF Parse, found
  <2>3. dialog'[c] = [Menu EXCEPT !.state = "results", !.results = found, !.query = h.query]
    BY <1>1, <2>1, <2>2 DEF Parse, found
  <2> QED
    BY <2>2, <2>3, Menus DEF Contexts
<1> HIDE DEF found
<1>3. \A a \in Articles : a.head \in Heads /\ Norm[a.head] = h.query <=> Answers(a, h.query)
  BY LookupAssumption DEF Answers
<1>4. \A a \in Articles :
        Times(a, found) = IF Answers(a, h.query) THEN Times(a, h.articles) ELSE 0
  BY <1>1, Counted DEF found
<1>5. \A i, j \in DOMAIN found : i < j => Priority[found[i].dict] <= Priority[found[j].dict]
  BY <1>1, InPriority DEF found
<1> QED
  BY <1>2, <1>3, <1>4, <1>5

\* A search shows all the fitting articles and no others, the better dictionaries
\* first, for answers of any length (search_word).
THEOREM ResultsAreAsFound == Spec => ResultsAsFound
<1>1. Inv /\ [Next]_vars =>
        [\A c \in Chats :
           LET asked == handler[c].articles
               found == dialog'[c].results
               Fits(a) == a.head \in Heads /\ Norm[a.head] = handler[c].query
           IN  dialog[c].state = "word" /\ dialog'[c].state = "results" =>
                 /\ \A a \in Articles : Times(a, found) = IF Fits(a) THEN Times(a, asked) ELSE 0
                 /\ \A i, j \in DOMAIN found :
                      i < j => Priority[found[i].dict] <= Priority[found[j].dict]
                 /\ dialog'[c].index = 0 /\ found # <<>>]_vars
  BY ShowsWhatIsFound
<1> QED
  BY <1>1, Invariance, PTL DEF Spec, ResultsAsFound
=============================================================================
