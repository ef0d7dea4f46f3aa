------------------------------ MODULE Article ------------------------------
(***************************************************************************)
(* One dictionary article fed to its parser, piece by piece, and turned     *)
(* into a card.  The article is any well-nested markup of the kind the      *)
(* dictionaries deliver: it begins with the headword's paragraph (the       *)
(* grammar line); paragraphs hold headings, examples, abbreviations and     *)
(* text; any of these may be split by an accent; separator and lozenge      *)
(* stand in a paragraph's own text.  What each dictionary's rules take from *)
(* an article is read from the pieces and the elements around them, without *)
(* the parser's flags and buffers, and compared with the parser's result.   *)
(***************************************************************************)
EXTENDS Parsers

CONSTANTS
  Dictionaries,  \* of "explanatory" (tsblm2022, tsbm), "rbs10", "klyshka"
  Texts,         \* the kinds of text that occur
  MaxPieces,     \* bound: texts in an article
  MaxTags        \* bound: elements in an article

ASSUME ArticleAssumption ==
  /\ Dictionaries \subseteq {"explanatory", "rbs10", "klyshka"} /\ Texts \subseteq Kinds
  /\ MaxPieces \in Nat /\ MaxTags \in Nat

VARIABLES
  dict,     \* the dictionary of the article
  parser,   \* the parser's state
  open,     \* the elements open now, outermost first: [el, nr]
  tags,     \* elements opened so far
  last,     \* what was read last
  pieces,   \* the texts read: [kind, within]
  accent,   \* where the headword has an accent mark
  card      \* the card built at the end, or NoCard

vars == <<dict, parser, open, tags, last, pieces, accent, card>>
NoCard == [defs |-> <<>>, phrases |-> <<>>, pos |-> None]

New(k) == CASE k = "explanatory" -> NewExplanatory
            [] k = "klyshka" -> NewKlyshka
            [] k = "rbs10" -> NewRbs10

Card(mark, all) == CASE dict = "explanatory" -> ExplanatoryCard(parser, mark, all)
                     [] dict = "klyshka" -> KlyshkaCard(parser, mark, all)
                     [] dict = "rbs10" -> Rbs10Card(parser, mark, all)

HandleStart(e) == CASE dict = "explanatory" -> ExplanatoryStart(parser, e)
                    [] dict = "klyshka" -> KlyshkaStart(parser, e)
                    [] dict = "rbs10" -> Rbs10Start(parser, e)
HandleEnd(tag) == CASE dict = "explanatory" -> ExplanatoryEnd(parser, tag)
                    [] dict = "klyshka" -> KlyshkaEnd(parser, tag)
                    [] dict = "rbs10" -> Rbs10End(parser, tag)
HandleData(d) == CASE dict = "explanatory" -> ExplanatoryData(parser, d)
                   [] dict = "klyshka" -> KlyshkaData(parser, d)
                   [] dict = "rbs10" -> Rbs10Data(parser, d)

-----------------------------------------------------------------------------
(* The markup.                                                             *)

Blocks == [explanatory |-> {"p", "ms", "table"}, klyshka |-> {"p"}, rbs10 |-> {"p", "ms"}]
Inlines ==
  [explanatory |-> {"alt", "phr", "strong", "v-ex", "abbr", "label", "accent"},
   klyshka |-> {"accent"},
   rbs10 |-> {"strong", "abbr", "label", "accent"}]
Elements == {"hw"} \cup UNION {Blocks[k] \cup Inlines[k] : k \in Dictionaries}

Around == {open[i].el : i \in DOMAIN open}
AtTop == open = <<>>
InBlock == Around \in {{"p"}, {"ms"}}

MayOpen(e) ==
  \/ AtTop /\ IF tags = 0 THEN e = "p" ELSE e \in Blocks[dict]
  \/ InBlock /\ IF pieces = <<>> THEN e = "hw" ELSE e \in Inlines[dict]
  \/ Around # {} /\ Around \cap {"accent", "table"} = {}
     /\ pieces # <<>> /\ ~ InBlock /\ e = "accent"
  \/ "v-ex" \in Around /\ "accent" \notin Around /\ e = "label"

MayHold(kind) ==
  \/ kind = "word"
  \/ kind = "number" /\ "strong" \in Around
  \/ kind = "bars" /\ dict = "explanatory" /\ InBlock
  \/ kind = "lozenge" /\ dict = "rbs10" /\ InBlock

Init ==
  /\ dict \in Dictionaries
  /\ parser = New(dict)
  /\ open = <<>> /\ tags = 0 /\ last = "none" /\ pieces = <<>>
  /\ accent = "none" /\ card = NoCard

StartTag(e) ==
  /\ tags < MaxTags /\ Len(pieces) < MaxPieces
  /\ last # "over" /\ MayOpen(e)
  /\ parser' = HandleStart(e)
  /\ open' = Append(open, [el |-> e, nr |-> tags + 1])
  /\ tags' = tags + 1
  /\ last' = "start"
  /\ UNCHANGED <<dict, pieces, accent, card>>

\* html.parser hands over the text between two tags in one call.
Data(kind) ==
  /\ Len(pieces) < MaxPieces
  /\ open # <<>> /\ last # "text" /\ MayHold(kind)
  /\ pieces = <<>> => "hw" \in Around
  /\ parser' = HandleData([kind |-> kind, at |-> Len(pieces) + 1])
  /\ pieces' = Append(pieces, [kind |-> kind, within |-> {open[i] : i \in DOMAIN open}])
  /\ last' = "text"
  /\ UNCHANGED <<dict, open, tags, accent, card>>

\* No element is left empty.
EndTag ==
  /\ open # <<>> /\ last # "start"
  /\ parser' = HandleEnd(Tag(open[Len(open)].el))
  /\ open' = SubSeq(open, 1, Len(open) - 1)
  /\ last' = "end"
  /\ UNCHANGED <<dict, tags, pieces, accent, card>>

\* The end of parse_article.  Nothing has looked at the headword's accent mark
\* before: any headword may have had any.
Finalize ==
  /\ open = <<>> /\ last = "end"
  /\ \E mark \in Accents :
       /\ accent' = mark
       /\ card' = Card(mark, [i \in DOMAIN pieces |-> [kind |-> pieces[i].kind, at |-> i]])
  /\ last' = "over"
  /\ UNCHANGED <<dict, parser, open, tags, pieces>>

Next == (\E e \in Elements : StartTag(e)) \/ (\E k \in Texts : Data(k)) \/ EndTag \/ Finalize

Spec == Init /\ [][Next]_vars

-----------------------------------------------------------------------------
(* What an article says: a is the sequence of its pieces, i the place of a *)
(* piece, n the number of an element.                                      *)

Places(a) == DOMAIN a
Piece(a, i) == [kind |-> a[i].kind, at |-> i]

\* The n-th number of a set in order.
Nth(S, n) == CHOOSE x \in {y \in S : Cardinality({z \in S : z <= y}) = n} : TRUE

In(a, i, els) == \E x \in a[i].within : x.el \in els
InElement(a, i, n) == \E x \in a[i].within : x.nr = n
Grammar(a, i) == InElement(a, i, 1)
Indented(a, i) == In(a, i, {"ms"})
Plain(a, i) == \A x \in a[i].within : x.el \in {"p", "ms", "accent"}

\* Some pieces as the parser keeps them; the texts of some elements.
Read(a, S) == [k \in 1..Cardinality(S) |-> Piece(a, Nth(S, k))]
Text(a, n) == Read(a, {i \in Places(a) : InElement(a, i, n)})
ReadEach(a, N) == [k \in 1..Cardinality(N) |-> Text(a, Nth(N, k))]
\* The elements named el that hold one of the pieces.
Holding(a, el, S) == {x.nr : x \in {y \in UNION {a[i].within : i \in S} : y.el = el}}

\* Explanatory dictionaries: tables are not read, nor the piece with the separator
\* in it and all that follows.
Separates(a, i) == a[i].kind = "bars" /\ ~ In(a, i, {"table", "hw", "alt"})
Shown(a, i) == ~ In(a, i, {"table"}) /\ \A b \in 1..i : ~ Separates(a, b)
Numbers(a, i) ==
  Shown(a, i) /\ a[i].kind = "number" /\ In(a, i, {"strong"}) /\ ~ Grammar(a, i)
Body(a, i) == Shown(a, i) /\ Plain(a, i) /\ ~ Grammar(a, i)

\* A definition begins with a number, or with the first indented text of an
\* article whose definitions have not begun, and ends where the next begins.
Begins(a, i) ==
  \/ Numbers(a, i)
  \/ Body(a, i) /\ Indented(a, i)
     /\ \A b \in 1..(i - 1) : ~ Numbers(a, b) /\ ~ (Body(a, b) /\ Indented(a, b))
PartOf(a, i, o) == i >= o /\ \A b \in 1..i : Begins(a, b) => b <= o
Meaning(a, o) ==
  LET part == {i \in Places(a) : PartOf(a, i, o)}
  IN  [number |-> IF Numbers(a, o) THEN o ELSE None,
       text |-> Read(a, {i \in part : Body(a, i)}),
       examples |-> ReadEach(a, Holding(a, "v-ex", {i \in part : Shown(a, i)}))]
Beginnings(a) == {i \in Places(a) : Begins(a, i)}
Meanings(a) == [k \in 1..Cardinality(Beginnings(a)) |-> Meaning(a, Nth(Beginnings(a), k))]

\* rbs10: bold text is a number, or a phrase if indented or after the lozenge.
Bold(a, i) == In(a, i, {"strong"})
\* The first piece of the bold text that piece i is in.
Opening(a, i) ==
  Min({b \in 1..i : \E x \in a[i].within : x.el = "strong" /\ x \in a[b].within})
Lozenge(a, i) == a[i].kind = "lozenge" /\ Plain(a, i)
NumberBold(a, i) == Bold(a, i) /\ a[Opening(a, i)].kind = "number"
PhraseBold(a, i) ==
  /\ Bold(a, i) /\ ~ NumberBold(a, i)
  /\ Indented(a, i) \/ \E b \in 1..(i - 1) : Lozenge(a, b)
Breaks(a, i) == NumberBold(a, i) \/ PhraseBold(a, i) \/ Lozenge(a, i)
Free(a, i) == Plain(a, i) /\ ~ Lozenge(a, i)

\* A translation is the text between two breaks.  Its number is the last one
\* before it, which a phrase ends but a lozenge does not.  Without a number (the
\* translation of a phrase has none) it counts only before the first one.
Broken(a, i, j) == \E x \in (i + 1)..(j - 1) : Breaks(a, x)
Starts(a, i) == Free(a, i) /\ \A b \in 1..(i - 1) : Free(a, b) => Broken(a, b, i)
InForce(a, k) == {b \in 1..k : NumberBold(a, b) /\ \A x \in (b + 1)..k : ~ PhraseBold(a, x)}
NumberAfter(a, k) == IF InForce(a, k) = {} THEN None ELSE Opening(a, Max(InForce(a, k)))
NumberOf(a, i) == NumberAfter(a, i - 1)
Counts(a, i) ==
  Starts(a, i) /\ (NumberOf(a, i) # None \/ \A b \in 1..(i - 1) : ~ NumberBold(a, b))
Translation(a, s) ==
  Definition(NumberOf(a, s),
             Read(a, {i \in Places(a) : i >= s /\ Free(a, i) /\ ~ Broken(a, s, i)}))
Starting(a) == {i \in Places(a) : Counts(a, i)}
Translations(a) == [k \in 1..Cardinality(Starting(a)) |-> Translation(a, Nth(Starting(a), k))]

\* What is shown of an article in which nothing has been recognised: all of it,
\* and the headword too if it has been split or has an accent mark inside; of
\* a mark after its last letter only the mark is left.
Rest(a, mark) ==
  LET headword == {i \in Places(a) : In(a, i, {"hw"})}
      others == Read(a, Places(a) \ headword)
  IN  IF Cardinality(headword) > 1 \/ mark = "inside" THEN Read(a, Places(a))
      ELSE IF mark = "last" THEN <<Mark>> \o others ELSE others
OrWhole(a, mark, defs) ==
  IF defs # <<>> \/ Rest(a, mark) = <<>> THEN defs ELSE <<Definition(None, Rest(a, mark))>>

\* The pieces that name the part of speech, for one and the other parser.
NamesExplanatory(a, i) ==
  In(a, i, {"abbr"}) /\ ~ In(a, i, {"v-ex"}) /\ Shown(a, i) /\ \A b \in 1..(i - 1) : ~ Numbers(a, b)
NamesRbs10(a, i) ==
  In(a, i, {"abbr"}) /\ \A b \in 1..(i - 1) : ~ NumberBold(a, b) /\ ~ Lozenge(a, b)
FirstOf(S) == IF S = {} THEN None ELSE Min(S)

-----------------------------------------------------------------------------

TypeOK ==
  /\ dict \in Dictionaries /\ accent \in Accents
  /\ tags \in 0..MaxTags /\ Len(pieces) \in 0..MaxPieces
  /\ \A i \in DOMAIN pieces : pieces[i].kind \in Texts
  /\ parser.in \subseteq {"hw", "alt", "phr", "strong", "v-ex", "v-abbr"}
  /\ dict = "explanatory" => parser.depth \in 0..1 /\ parser.tables \in 0..1
  /\ open = <<>> => parser.in = {}

\* _ExplanatoryParser: every definition with its number, its plain text and its
\* examples, every phrase, and the part of speech first named before any number
\* and outside examples.  Not in the card are the plain text of the first
\* paragraph, tables, alternative headwords, labels, bold text without a number,
\* plain text and examples before the first definition, and everything from the piece with
\* the separator on, words before "||" in that piece included.
MeaningsAsWritten ==
  dict = "explanatory" =>
    /\ card.defs = OrWhole(pieces, accent, Meanings(pieces))
    /\ card.phrases =
         ReadEach(pieces, Holding(pieces, "phr", {i \in DOMAIN pieces : Shown(pieces, i)}))
    /\ card.pos = FirstOf({i \in DOMAIN pieces : NamesExplanatory(pieces, i)})

\* _Rbs10Parser: every text between two breaks is a translation under the last
\* number, also that of the first paragraph.  The text after a phrase, which is
\* the phrase's translation, is left out of an article once that has had a
\* number; before, it is in the card like any other (parser.py:329).  Every
\* phrase is in the card, and the part of speech first named before a number and
\* before the lozenge; labels and other bold text are not.
TranslationsAsWritten ==
  dict = "rbs10" =>
    /\ card.defs = OrWhole(pieces, accent, Translations(pieces))
    /\ card.phrases =
         ReadEach(pieces, Holding(pieces, "strong", {i \in DOMAIN pieces : PhraseBold(pieces, i)}))
    /\ card.pos = FirstOf({i \in DOMAIN pieces : NamesRbs10(pieces, i)})

\* _KlyshkaParser: all that follows the headword, as one definition.
SynonymsAsWritten ==
  dict = "klyshka" =>
    LET rest == Read(pieces, {i \in DOMAIN pieces : ~ In(pieces, i, {"hw"})})
    IN  card.defs =
          OrWhole(pieces, accent, IF rest = <<>> THEN <<>> ELSE <<Definition(None, rest)>>)

\* The card has what its dictionary's rules take from the article, as the three
\* definitions above say them with all that each leaves out, and has nothing
\* else: each text once, in order, with its own number and examples, however
\* elements follow one another and accents split them.  An article that gives no
\* definition is one definition with all its text, as Rest has it.  The markup
\* is what MayOpen and MayHold allow: no separator and no lozenge stands inside
\* an example, a phrase or an abbreviation.
CardAsWritten ==
  last = "over" =>
    MeaningsAsWritten /\ TranslationsAsWritten /\ SynonymsAsWritten
=============================================================================
