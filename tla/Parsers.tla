------------------------------ MODULE Parsers ------------------------------
(***************************************************************************)
(* The three parsers of dictionary articles (infra/verbum/parser.py): state *)
(* machines that html.parser feeds with start tags, end tags and text.      *)
(* A parser is a record, a handler an operator on it.  Markup and its       *)
(* classes are reduced to the elements the handlers tell apart, a text to a *)
(* piece [kind, at]: what it contains and where it stands in the article.   *)
(* A text made of several pieces is their sequence; spacing is left out.    *)
(***************************************************************************)
EXTENDS Integers, Sequences, FiniteSetsExt

Kinds == {"word", "number", "bars", "lozenge"}
  \* plain text; "1."; text with "||" in it, alone or after words; text with a
  \* lozenge

Paragraphs == {"p", "ms"}      \* "ms": indented by a class ms-N (ms-3 in rbs10)
Abbrs == {"abbr", "label"}     \* "abbr": its title names a part of speech
Headings == {"hw", "alt", "phr", "strong"}   \* <strong> by class, or <b> by class

Tag(e) == CASE e \in Paragraphs -> "p"
            [] e \in Abbrs -> "v-abbr"
            [] e \in Headings -> "strong"
            [] OTHER -> e

None == 0

\* finalize: the part of speech is the first candidate whose title names one.
PartOfSpeech(p) ==
  LET naming == {n \in DOMAIN p.pos : p.pos[n].title = "abbr"}
  IN  IF naming = {} THEN None ELSE p.pos[Min(naming)].at

Definition(number, text) == [number |-> number, text |-> text, examples |-> <<>>]

-----------------------------------------------------------------------------
(* _ExplanatoryParser.  "in" holds the _in_... flags that are set; the      *)
(* current definition is always the last one.                               *)

NewExplanatory ==
  [head |-> <<>>, pos |-> <<>>, defs |-> <<>>, phrases |-> <<>>,
   in |-> {}, tables |-> 0, title |-> "", exampleBuf |-> <<>>, phraseBuf |-> <<>>,
   sawDef |-> FALSE, done |-> FALSE, firstP |-> TRUE, depth |-> 0, ms |-> FALSE, sep |-> FALSE]

ExplanatoryStart(p, e) ==
  IF e = "table" THEN [p EXCEPT !.tables = @ + 1]
  ELSE IF p.tables > 0 THEN p
  ELSE CASE e \in Paragraphs -> [p EXCEPT !.depth = @ + 1, !.ms = (e = "ms")]
         [] e \in {"hw", "alt"} -> [p EXCEPT !.in = @ \cup {e}]
         [] e = "phr" -> [p EXCEPT !.in = @ \cup {e}, !.phraseBuf = <<>>]
         [] e = "strong" /\ p.in \cap {"hw", "alt", "phr"} = {} -> [p EXCEPT !.in = @ \cup {e}]
         [] e = "v-ex" -> [p EXCEPT !.in = @ \cup {e}, !.exampleBuf = <<>>]
         [] e \in Abbrs -> [p EXCEPT !.in = @ \cup {"v-abbr"}, !.title = e]
         [] OTHER -> p

\* </strong> does not say which of the headings it ends: the flags are asked
\* in this order.
EndHeading(p) ==
  CASE "hw" \in p.in -> [p EXCEPT !.in = @ \ {"hw"}, !.done = TRUE]
    [] "alt" \in p.in /\ "hw" \notin p.in -> [p EXCEPT !.in = @ \ {"alt"}]
    [] "phr" \in p.in /\ p.in \cap {"hw", "alt"} = {} ->
         [p EXCEPT !.in = @ \ {"phr"}, !.phraseBuf = <<>>,
                   !.phrases = IF p.phraseBuf # <<>> THEN Append(@, p.phraseBuf) ELSE @]
    [] OTHER -> [p EXCEPT !.in = @ \ {"strong"}]

\* Faulty form of EndParagraph: the depth is left as it is.
EndParagraphDeep(p) == [p EXCEPT !.firstP = @ /\ ~ (p.done /\ p.depth = 1)]

EndParagraph(p) ==
  LET deep == IF p.depth > 0 THEN p.depth - 1 ELSE 0
  IN  [p EXCEPT !.depth = deep, !.firstP = @ /\ ~ (p.done /\ deep = 0)]

\* An example belongs to the current definition; before there is one it is dropped.
EndExample(p) ==
  LET ended == [p EXCEPT !.in = @ \ {"v-ex"}, !.exampleBuf = <<>>]
  IN  IF p.exampleBuf = <<>> \/ p.defs = <<>> THEN ended
      ELSE [ended EXCEPT !.defs[Len(p.defs)].examples = Append(@, p.exampleBuf)]

ExplanatoryEnd(p, tag) ==
  IF tag = "table" THEN [p EXCEPT !.tables = IF @ > 0 THEN @ - 1 ELSE 0]
  ELSE IF p.tables > 0 THEN p
  ELSE CASE tag = "p" -> EndParagraph(p)
         [] tag = "strong" -> EndHeading(p)
         [] tag = "v-ex" -> EndExample(p)
         [] tag = "v-abbr" -> [p EXCEPT !.in = @ \ {"v-abbr"}, !.title = ""]
         [] OTHER -> p

\* Faulty form of Destination: the grammar line is read like the body.
DestinationInGrammar(p, d) ==
  IF p.tables > 0 \/ p.sep THEN "nowhere"
  ELSE IF "hw" \in p.in THEN "head"
  ELSE IF "alt" \in p.in THEN "nowhere"
  ELSE IF d.kind = "bars" THEN "separator"
  ELSE IF "v-ex" \in p.in THEN "example"
  ELSE IF "phr" \in p.in THEN "phrase"
  ELSE IF "v-abbr" \in p.in THEN IF p.sawDef THEN "nowhere" ELSE "pos"
  ELSE IF "strong" \in p.in THEN IF d.kind = "number" THEN "number" ELSE "nowhere"
  ELSE IF p.done THEN "body" ELSE "nowhere"

\* What becomes of a text: the early returns of handle_data, in their order.
Destination(p, d) ==
  IF p.tables > 0 \/ p.sep THEN "nowhere"
  ELSE IF "hw" \in p.in THEN "head"
  ELSE IF "alt" \in p.in THEN "nowhere"
  ELSE IF d.kind = "bars" THEN "separator"
  ELSE IF "v-ex" \in p.in THEN "example"
  ELSE IF "phr" \in p.in THEN "phrase"
  ELSE IF "v-abbr" \in p.in THEN IF p.sawDef THEN "nowhere" ELSE "pos"
  ELSE IF p.firstP THEN "nowhere"
  ELSE IF "strong" \in p.in THEN IF d.kind = "number" THEN "number" ELSE "nowhere"
  ELSE IF p.done THEN "body" ELSE "nowhere"

\* Text of the body goes to the current definition; without one, text in an
\* indented paragraph is itself a definition.
AddBody(p, d) ==
  CASE p.defs # <<>> -> [p EXCEPT !.defs[Len(p.defs)].text = Append(@, d)]
    [] p.defs = <<>> /\ p.ms /\ ~ p.sawDef ->
         [p EXCEPT !.defs = <<Definition(None, <<d>>)>>]
    [] OTHER -> p

ExplanatoryData(p, d) ==
  LET to == Destination(p, d)
  IN  CASE to = "head" -> [p EXCEPT !.head = Append(@, d)]
        [] to = "separator" -> [p EXCEPT !.sep = TRUE]
        [] to = "example" -> [p EXCEPT !.exampleBuf = Append(@, d)]
        [] to = "phrase" -> [p EXCEPT !.phraseBuf = Append(@, d)]
        [] to = "pos" -> [p EXCEPT !.pos = Append(@, [title |-> p.title, at |-> d.at])]
        [] to = "number" -> [p EXCEPT !.sawDef = TRUE, !.defs = Append(@, Definition(d.at, <<>>))]
        [] to = "body" -> AddBody(p, d)
        [] to = "nowhere" -> p

-----------------------------------------------------------------------------
(* _KlyshkaParser: all that follows the headword is the list of synonyms.   *)

NewKlyshka == [head |-> <<>>, body |-> <<>>, in |-> {}, done |-> FALSE]

KlyshkaStart(p, e) == IF e = "hw" THEN [p EXCEPT !.in = {"hw"}] ELSE p

KlyshkaEnd(p, tag) ==
  IF tag = "strong" /\ "hw" \in p.in THEN [p EXCEPT !.in = {}, !.done = TRUE] ELSE p

KlyshkaData(p, d) ==
  CASE "hw" \in p.in -> [p EXCEPT !.head = Append(@, d)]
    [] "hw" \notin p.in /\ p.done -> [p EXCEPT !.body = Append(@, d)]
    [] OTHER -> p

-----------------------------------------------------------------------------
(* _Rbs10Parser.  "strong" stands for a <b> that is not the headword.       *)

NewRbs10 ==
  [head |-> <<>>, pos |-> <<>>, defs |-> <<>>, phrases |-> <<>>,
   in |-> {}, title |-> "", defBuf |-> <<>>, boldBuf |-> <<>>, num |-> None,
   sawDef |-> FALSE, done |-> FALSE, ms |-> FALSE, phraseArea |-> FALSE]

Rbs10Start(p, e) ==
  CASE e \in Paragraphs -> [p EXCEPT !.ms = (e = "ms")]
    [] e = "hw" -> [p EXCEPT !.in = @ \cup {"hw"}]
    [] e = "strong" /\ "hw" \notin p.in -> [p EXCEPT !.in = @ \cup {"strong"}, !.boldBuf = <<>>]
    [] e \in Abbrs -> [p EXCEPT !.in = @ \cup {"v-abbr"}, !.title = e]
    [] OTHER -> p

Kept(p) == p.defBuf # <<>> /\ (p.num # None \/ ~ p.sawDef)

\* _flush_def: the buffered text is a definition, unless it follows a phrase
\* in an article with numbers.
FlushDef(p) ==
  [p EXCEPT !.defBuf = <<>>,
            !.defs = IF Kept(p) THEN Append(@, Definition(p.num, p.defBuf)) ELSE @]

\* The end of bold text: a number, a phrase, or nothing.
EndBold(p) ==
  LET ended == [p EXCEPT !.in = @ \ {"strong"}, !.boldBuf = <<>>]
      bold == p.boldBuf
  IN  CASE bold # <<>> /\ bold[1].kind = "number" ->
             [FlushDef(ended) EXCEPT !.num = bold[1].at, !.sawDef = TRUE]
        [] bold # <<>> /\ bold[1].kind # "number" /\ p.done /\ (p.ms \/ p.phraseArea) ->
             [FlushDef(ended) EXCEPT !.phrases = Append(@, bold), !.num = None]
        [] OTHER -> ended

Rbs10End(p, tag) ==
  CASE tag = "strong" /\ "hw" \in p.in -> [p EXCEPT !.in = @ \ {"hw"}, !.done = TRUE]
    [] tag = "strong" /\ "hw" \notin p.in /\ "strong" \in p.in -> EndBold(p)
    [] tag = "v-abbr" -> [p EXCEPT !.in = @ \ {"v-abbr"}, !.title = ""]
    [] OTHER -> p

Rbs10Data(p, d) ==
  IF "hw" \in p.in THEN [p EXCEPT !.head = Append(@, d)]
  ELSE IF "strong" \in p.in THEN [p EXCEPT !.boldBuf = Append(@, d)]
  ELSE IF "v-abbr" \in p.in
       THEN IF p.sawDef \/ p.phraseArea THEN p
            ELSE [p EXCEPT !.pos = Append(@, [title |-> p.title, at |-> d.at])]
  ELSE IF ~ p.done THEN p
  ELSE IF d.kind = "lozenge" THEN [FlushDef(p) EXCEPT !.phraseArea = TRUE]
  ELSE [p EXCEPT !.defBuf = Append(@, d)]

-----------------------------------------------------------------------------
(* The card.                                                               *)

\* Where the headword has an accent mark (U+0301), if it has one.
Accents == {"none", "inside", "last"}
Mark == [kind |-> "mark", at |-> 1]

\* _build_card: an article in which the parser found no definition is shown
\* whole, without its headword if the text begins with that.  The headword has
\* lost its accent marks, the text has not, and where tags split the headword
\* the text has spaces: so the text begins with a headword of one piece that has
\* no mark, or has it after its last letter, and then the mark stays.
BuildCard(head, accent, defs, phrases, pos, all) ==
  LET begins == Len(head) = 1 /\ head[1] = all[1] /\ accent # "inside"
      plain == IF ~ begins THEN all
               ELSE IF accent = "last" THEN <<Mark>> \o Tail(all) ELSE Tail(all)
  IN  [phrases |-> phrases, pos |-> pos,
       defs |-> IF defs # <<>> \/ plain = <<>> THEN defs ELSE <<Definition(None, plain)>>]

\* _parse_explanatory, _parse_klyshka and _parse_rbs10 after the last piece;
\* finalize of rbs10 flushes what is still buffered.
ExplanatoryCard(p, accent, all) ==
  BuildCard(p.head, accent, p.defs, p.phrases, PartOfSpeech(p), all)
KlyshkaCard(p, accent, all) ==
  BuildCard(p.head, accent, IF p.body = <<>> THEN <<>> ELSE <<Definition(None, p.body)>>,
            <<>>, None, all)
Rbs10Card(p, accent, all) ==
  BuildCard(p.head, accent, FlushDef(p).defs, p.phrases, PartOfSpeech(p), all)
=============================================================================
