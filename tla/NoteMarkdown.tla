---------------------------- MODULE NoteMarkdown ----------------------------
(***************************************************************************)
(* How the Notes page reads a note's Markdown (NotesPage.tsx).  Four       *)
(* readers go over the same lines, each with its own idea of what a code   *)
(* block is: the block loop of the reader and of the preview (written      *)
(* twice, with other inline patterns), the outline, the tag detector and   *)
(* the search for [[links]].  The model reads one line a step and runs all *)
(* of them.  A line is what their patterns can tell of it.                 *)
(***************************************************************************)
EXTENDS Integers, Sequences, FiniteSets, SequencesExt

CONSTANTS
  Lines,      \* the lines a note is made of
  MaxLines    \* bound: lines of a note

LineForms ==
  [fence: {"no", "plain", "indented", "info"},   \* ```sh, the same after a space, ```sh x=1
   table: {"no", "row", "separator"},            \* between two |, all cells of - : and spaces
   matches: SUBSET {"heading", "task", "bullet", "ordered", "quote", "rule"},
   blank: BOOLEAN,
   link: {"none", "plain", "alias", "noAlias", "empty"},  \* [[t]], [[t|shown]], [[t|]], [[|shown]]
   within: {"nothing", "code", "bold", "star", "underscore"},  \* what encloses the link: `, **, * or _
   tag: {"none", "bare", "code"}]                \* #tag, `#tag`

\* a line that stands between two | is not blank
ASSUME LinesAssumption ==
  /\ Lines \subseteq LineForms /\ MaxLines \in Nat
  /\ \A line \in Lines : line.blank => line.table = "no"

VARIABLES
  note,       \* the lines read
  reader,     \* RichMarkdownView
  preview,    \* MarkdownPreview
  outline,    \* the lines parseOutline lists, numbered from zero
  tagger,     \* detectBodyTags: inCode, and the lines it found a tag in
  ended       \* the loops have ended

markdownVars == <<note, reader, preview, outline, tagger, ended>>

View == [inCode: BOOLEAN, code: Seq(1..MaxLines), table: Seq(1..MaxLines),
         blocks: Seq([kind: {"code", "table", "heading", "task", "bullet", "ordered",
                             "quote", "rule", "text"},
                      lines: Seq(1..MaxLines), spans: SUBSET ((1..MaxLines) \X {"wiki", "empty", "tag"})])]
NewView == [inCode |-> FALSE, code |-> <<>>, table |-> <<>>, blocks |-> <<>>]

MarkdownTypeOK ==
  /\ note \in Seq(Lines) /\ Len(note) <= MaxLines /\ ended \in BOOLEAN
  /\ reader \in View /\ preview \in View
  /\ outline \in Seq(0..MaxLines - 1) /\ ToSet(outline) \subseteq 0..Len(note) - 1
  /\ tagger.inCode \in BOOLEAN /\ tagger.found \subseteq 1..Len(note)

-----------------------------------------------------------------------------
(* Inline patterns: what a line shows, in a table cell or outside.         *)

\* Mutant of WikiSpans: a pattern that lets the target be empty
WikiSpansEmpty(line, cell) ==
  IF line.link = "none" \/ (line.link # "plain" /\ cell) THEN {} ELSE {"wiki"}

\* a row is cut at each |, the one of an alias too; "empty" leads to no title
WikiSpans(line, cell) ==
  IF line.link = "none" \/ (line.link # "plain" /\ cell) THEN {}
  ELSE IF line.link = "empty" THEN {"empty"} ELSE {"wiki"}

\* the token that starts first takes what it encloses, a link too
renderInline(line, cell) ==
  IF line.within \in {"code", "bold", "underscore"} THEN {} ELSE WikiSpans(line, cell)
renderRichInline(line, cell) ==
  (IF line.within \in {"code", "bold", "star"} THEN {} ELSE WikiSpans(line, cell))
    \cup (IF line.tag = "bare" THEN {"tag"} ELSE {})

\* the reader has the one, the preview the other
Spans(inline, line, cell) ==
  IF inline = "rich" THEN renderRichInline(line, cell) ELSE renderInline(line, cell)

\* a link is found wherever it stands, code and cells included; of one with a
\* bar, an alias of no letter is refused
wikiTargets(line) == line.link \in {"plain", "alias"}

-----------------------------------------------------------------------------
(* The block loop.                                                         *)

Block(kind, ns, spans) == [kind |-> kind, lines |-> ns, spans |-> spans]
Push(view, block) == [view EXCEPT !.blocks = Append(@, block)]

flushTable(view, text, inline) ==
  IF view.table = <<>> THEN view
  ELSE [Push(view, Block("table", view.table,
                         UNION {{n} \X Spans(inline, text[n], TRUE) : n \in ToSet(view.table)}))
        EXCEPT !.table = <<>>]

CodeBlock(view) == [Push(view, Block("code", view.code, {})) EXCEPT !.code = <<>>]
Fence(view) ==
  IF view.inCode THEN [CodeBlock(view) EXCEPT !.inCode = FALSE]
  ELSE [view EXCEPT !.inCode = TRUE]

\* a task is a bullet too: the first pattern that matches decides
Order == <<"heading", "task", "bullet", "ordered", "quote", "rule">>
KindOf(line) ==
  LET tests == {i \in DOMAIN Order : Order[i] \in line.matches}
  IN IF tests = {} THEN "text" ELSE Order[CHOOSE i \in tests : \A k \in tests : i <= k]

BlockLine(view, text, inline) ==
  LET n == Len(text)
      line == text[n]
      flushed == flushTable(view, text, inline)
  IN IF line.fence \in {"plain", "indented"} THEN Fence(flushed)
     ELSE IF view.inCode THEN [view EXCEPT !.code = Append(@, n)]
     ELSE IF line.table = "row" THEN [view EXCEPT !.table = Append(@, n)]
     ELSE IF line.table = "separator" THEN view
     ELSE IF line.blank THEN flushed
     ELSE Push(flushed, Block(KindOf(line), <<n>>, {n} \X Spans(inline, line, FALSE)))

\* Mutant of BlockEnd: the end of the note flushes the table only
BlockEndTable(view, text, inline) == flushTable(view, text, inline)

\* an open code block and an open table are shown too
BlockEnd(view, text, inline) ==
  flushTable(IF view.inCode /\ view.code # <<>> THEN CodeBlock(view) ELSE view, text, inline)

RichMarkdownView(view, text) == BlockLine(view, text, "rich")
MarkdownPreview(view, text) == BlockLine(view, text, "plain")

-----------------------------------------------------------------------------
(* The outline and the tag detector.                                       *)

\* headings of a code block too
parseOutline(listed, text) ==
  IF "heading" \in text[Len(text)].matches THEN Append(listed, Len(text) - 1) ELSE listed

\* only a fence at the start of its line counts, whatever follows it
detectBodyTags(state, text) ==
  LET line == text[Len(text)]
  IN IF line.fence \in {"plain", "info"} THEN [state EXCEPT !.inCode = ~@]
     ELSE IF state.inCode \/ "heading" \in line.matches \/ line.tag # "bare" THEN state
     ELSE [state EXCEPT !.found = @ \cup {Len(text)}]

-----------------------------------------------------------------------------
MarkdownInit ==
  /\ note = <<>> /\ outline = <<>> /\ ended = FALSE
  /\ reader = NewView /\ preview = NewView
  /\ tagger = [inCode |-> FALSE, found |-> {}]

ReadLine ==
  /\ ~ended /\ Len(note) < MaxLines
  /\ \E line \in Lines :
       LET text == Append(note, line)
       IN /\ note' = text
          /\ reader' = RichMarkdownView(reader, text)
          /\ preview' = MarkdownPreview(preview, text)
          /\ outline' = parseOutline(outline, text)
          /\ tagger' = detectBodyTags(tagger, text)
  /\ UNCHANGED ended

End ==
  /\ ~ended /\ ended' = TRUE
  /\ reader' = BlockEnd(reader, note, "rich")
  /\ preview' = BlockEnd(preview, note, "plain")
  /\ UNCHANGED <<note, outline, tagger>>

MarkdownNext == ReadLine \/ End
MarkdownSpec == MarkdownInit /\ [][MarkdownNext]_markdownVars

-----------------------------------------------------------------------------
(* Properties.                                                             *)

\* Which lines a fence of the views encloses, and which the views drop.
Toggles(line) == line.fence \in {"plain", "indented"}
Enclosed(text, n) == Cardinality({k \in 1..(n - 1) : Toggles(text[k])}) % 2 = 1
Dropped(text, n) ==
  Toggles(text[n]) \/ (~Enclosed(text, n) /\ (text[n].blank \/ text[n].table = "separator"))
ShownLines(view) == UNION {ToSet(view.blocks[i].lines) : i \in DOMAIN view.blocks}
Ascending(ns) == \A i, k \in DOMAIN ns : i < k => ns[i] < ns[k]
InOrder(view) ==
  /\ \A i \in DOMAIN view.blocks : Ascending(view.blocks[i].lines)
  /\ \A i, k \in DOMAIN view.blocks :
       i < k => \A m \in ToSet(view.blocks[i].lines), n \in ToSet(view.blocks[k].lines) : m < n

\* The two views show every line of the note once and in its order: what is
\* collected for a code block or a table is not lost when a fence, another
\* block or the end of the note cuts it off.  They drop fences, separators
\* and blank lines, and show as code exactly the enclosed lines.
EveryLineShown ==
  ended =>
    \A view \in {reader, preview} :
      /\ ShownLines(view) = {n \in DOMAIN note : ~Dropped(note, n)} /\ InOrder(view)
      /\ \A i \in DOMAIN view.blocks : \A n \in ToSet(view.blocks[i].lines) :
           Enclosed(note, n) <=> view.blocks[i].kind = "code"

\* The tag detector toggles at other fences than the views: while a note has
\* no indented fence and none with an info string, a tag it offers stands in
\* no line that is shown as code, and every other tag outside a heading is
\* offered.
FencesAgree == \A n \in DOMAIN note : note[n].fence \in {"no", "plain"}
TagsComeFromText ==
  FencesAgree =>
    \A n \in DOMAIN note :
      note[n].tag = "bare" /\ note[n].fence = "no" /\ "heading" \notin note[n].matches
        => (n \in tagger.found <=> ~Enclosed(note, n))

\* A button with a title, which a view shows for a note, leads where the link
\* analysis counts a link, unless the link is [[t|]], which it refuses; and a
\* link it counts has a button, unless the line is code, a table cut an alias
\* at its bar, or an inline code or emphasis of that view encloses the link.
Hides(view, line) ==
  line.within \in {"code", "bold", IF view = "reader" THEN "star" ELSE "underscore"}
HasButton(blocks, n) == \E i \in DOMAIN blocks : <<n, "wiki">> \in blocks[i].spans
ButtonsAreLinks ==
  ended =>
    \A n \in DOMAIN note :
      LET line == note[n]
          cut == Dropped(note, n) \/ Enclosed(note, n) \/ (line.table = "row" /\ line.link # "plain")
          leads == wikiTargets(line) \/ line.link = "noAlias"
      IN /\ HasButton(reader.blocks, n) <=> leads /\ ~cut /\ ~Hides("reader", line)
         /\ HasButton(preview.blocks, n) <=> leads /\ ~cut /\ ~Hides("preview", line)

\* What the page finds in a note for its tags and its links is what the views
\* show there, up to the forms that their patterns read in other ways.
FoundIsShown == TagsComeFromText /\ ButtonsAreLinks
=============================================================================
