------------------------------ MODULE Chunking ------------------------------
(***************************************************************************)
(* From a document's text to its chunks (ingestion): MarkdownParser cuts   *)
(* the lines into sections, one for each heading, HeadingChunker splits    *)
(* those that are too long at paragraphs and merges those that are too     *)
(* short, and process_document stores the result in place of what was      *)
(* there.  Citations show the line numbers of chunks.                      *)
(***************************************************************************)
EXTENDS Naturals, SequencesExt, FiniteSets

CONSTANTS
  Weight,     \* Weight[k]: tokens of a line of kind k
  MinTokens,  \* min_tokens and max_tokens of the chunker
  MaxTokens,
  MaxPages,   \* bounds: pages of a PDF, lines of a document
  MaxLines

(* What parser and chunker tell lines apart by: headings of level 1 and 2, *)
(* lines the boundary pattern of the source matches, fences of code        *)
(* blocks, blank lines, others.                                            *)
Line == {"#", "##", "date", "fence", "blank", "text"}

ASSUME WeightAssumption == Weight \in [Line -> Nat] /\ Weight["blank"] = 0
ASSUME TokenAssumption == MinTokens \in Nat /\ MaxTokens \in Nat

VARIABLES
  pages,  \* the text of each page, a note being one page
  rows,   \* the document's Chunk rows in the order of their index
  dirty   \* the document has changed since it was processed

docVars == <<pages, rows, dirty>>

----------------------------------------------------------------------------
(* MarkdownParser.parse.                                                   *)

Level(k) == IF k = "##" THEN 2 ELSE 1
IsBoundary(k) == k \in {"#", "##", "date"}

(* A section or chunk: lines from..to under a heading path, a sequence of  *)
(* the lines its headings are on.                                          *)
Span(path, from, to) == [path |-> path, from |-> from, to |-> to]

Flush(s, to) == IF to >= s.from THEN Append(s.done, Span(s.path, s.from, to)) ELSE s.done

(* heading_stack[: level - 1] + [heading]; a boundary replaces the stack.  *)
Nest(path, k, n) ==
  IF k = "date" \/ path = <<>> THEN <<n>>
  ELSE Append(SubSeq(path, 1, Level(k) - 1), n)

ParseLine(s, k, n) ==
  IF k = "fence" THEN [s EXCEPT !.fenced = ~@]
  ELSE IF s.fenced \/ ~IsBoundary(k) THEN s
  ELSE [s EXCEPT !.done = Flush(s, n - 1), !.path = Nest(s.path, k, n), !.from = n]

(* What it knows after each line.                                          *)
ParseStates(lines) ==
  LET after[n \in 0..Len(lines)] ==
        IF n = 0 THEN [done |-> <<>>, path |-> <<>>, from |-> 1, fenced |-> FALSE]
        ELSE ParseLine(after[n - 1], lines[n], n)
  IN  after

Parse(lines) == Flush(ParseStates(lines)[Len(lines)], Len(lines))

----------------------------------------------------------------------------
(* HeadingChunker.chunk.                                                   *)

(* The tokens of the first lines.                                          *)
Counts(lines) ==
  LET upTo[n \in 0..Len(lines)] == IF n = 0 THEN 0 ELSE upTo[n - 1] + Weight[lines[n]]
  IN  upTo

Tokens(lines, from, to) == Counts(lines)[to] - Counts(lines)[from - 1]

Extend(spans, to) == [spans EXCEPT ![Len(spans)].to = to]

(* The next line of a section begins a paragraph, or goes to the last one. *)
AddLine(lines, sec, slots, n) ==
  IF lines[n] # "blank" /\ (n = sec.from \/ lines[n - 1] = "blank")
  THEN Append(slots, Span(sec.path, n, n))
  ELSE IF slots = <<>> THEN <<>> ELSE Extend(slots, n)

SlotsUpTo(lines, sec) ==
  LET upTo[n \in 0..sec.to] ==
        IF n < sec.from THEN <<>> ELSE AddLine(lines, sec, upTo[n - 1], n)
  IN  upTo

(* _paragraph_slots.                                                       *)
Slots(lines, sec) ==
  LET slots == SlotsUpTo(lines, sec)[sec.to]
  IN  IF slots = <<>> THEN <<sec>> ELSE slots

Pack(lines, groups, slot) ==
  IF groups # <<>> /\ Tokens(lines, Last(groups).from, slot.to) <= MaxTokens
  THEN Extend(groups, slot.to)
  ELSE Append(groups, slot)

Packed(lines, slots) ==
  LET upTo[i \in 0..Len(slots)] ==
        IF i = 0 THEN <<>> ELSE Pack(lines, upTo[i - 1], slots[i])
  IN  upTo

(* _split_if_too_long: paragraphs, packed.                                 *)
SplitIfTooLong(lines, sec) ==
  IF Tokens(lines, sec.from, sec.to) <= MaxTokens THEN <<sec>>
  ELSE LET slots == Slots(lines, sec) IN Packed(lines, slots)[Len(slots)]

(* Fault: it is not looked at how long the result gets.                    *)
MergeAnyShort(lines, merged, piece) ==
  IF merged # <<>> /\ Tokens(lines, Last(merged).from, Last(merged).to) < MinTokens
  THEN Extend(merged, piece.to)
  ELSE Append(merged, piece)

(* The next piece is merged into the last if that one is short.            *)
Merge(lines, merged, piece) ==
  IF /\ merged # <<>>
     /\ Tokens(lines, Last(merged).from, Last(merged).to) < MinTokens
     /\ Tokens(lines, Last(merged).from, piece.to) <= MaxTokens
  THEN Extend(merged, piece.to)
  ELSE Append(merged, piece)

(* _merge_short_pieces.                                                    *)
Merged(lines, pieces) ==
  LET upTo[i \in 0..Len(pieces)] ==
        IF i = 0 THEN <<>> ELSE Merge(lines, upTo[i - 1], pieces[i])
  IN  upTo

Chunks(lines) ==
  LET sections == Parse(lines)
      pieces == FlattenSeq([i \in DOMAIN sections |-> SplitIfTooLong(lines, sections[i])])
  IN  Merged(lines, pieces)[Len(pieces)]

----------------------------------------------------------------------------
(* The document over time.                                                 *)

DocInit == pages = <<>> /\ rows = <<>> /\ dirty = FALSE

(* The note, or the last page of the PDF, gets another line; or the PDF    *)
(* another page.                                                           *)
Write(k) ==
  /\ pages # <<>> /\ Len(FlattenSeq(pages)) < MaxLines
  /\ pages' = [pages EXCEPT ![Len(pages)] = Append(@, k)]
  /\ dirty' = TRUE /\ UNCHANGED rows

AddPage ==
  /\ Len(pages) < MaxPages
  /\ pages' = Append(pages, <<>>)
  /\ dirty' = TRUE /\ UNCHANGED rows

(* The rows of a text's pages, each chunked on its own (_chunk_pdf).       *)
RowsOf(text) ==
  FlattenSeq([p \in DOMAIN text |->
    LET chunks == Chunks(text[p])
    IN  [i \in DOMAIN chunks |-> [page |-> p, span |-> chunks[i]]]])

(* Fault: what was there of an earlier version is left.                    *)
ProcessMore ==
  /\ dirty
  /\ rows' = rows \o RowsOf(pages)
  /\ dirty' = FALSE /\ UNCHANGED pages

(* process_document.                                                       *)
Process ==
  /\ dirty
  /\ rows' = RowsOf(pages)
  /\ dirty' = FALSE /\ UNCHANGED pages

DocNext == AddPage \/ Process \/ \E k \in Line : Write(k)

DocSpec == DocInit /\ [][DocNext]_docVars

----------------------------------------------------------------------------
(* What must hold.                                                         *)

(* Every line but blank ones is in exactly one chunk, chunks come in the   *)
(* order of the text, and each is cited under the last heading there was   *)
(* before it, outside of code, whatever was split and merged ("citations   *)
(* depend on this being exactly right", test_heading_chunker.py).          *)
LinesKept ==
  ~dirty =>
    /\ \A p \in DOMAIN pages : \A n \in DOMAIN pages[p] :
         pages[p][n] # "blank" =>
           \E i \in DOMAIN rows :
             rows[i].page = p /\ n \in rows[i].span.from .. rows[i].span.to
    /\ \A i, j \in DOMAIN rows :
         i < j => \/ rows[i].page < rows[j].page
                  \/ /\ rows[i].page = rows[j].page
                     /\ rows[i].span.to < rows[j].span.from
    /\ \A i \in DOMAIN rows :
         LET lines == pages[rows[i].page]
             path == rows[i].span.path
             fences(n) == {f \in 1 .. n - 1 : lines[f] = "fence"}
             headings == {n \in 1 .. rows[i].span.from :
                            IsBoundary(lines[n]) /\ Cardinality(fences(n)) % 2 = 0}
         IN  IF headings = {} THEN path = <<>>
             ELSE path # <<>> /\ \A n \in headings : Last(path) >= n /\ Last(path) \in headings

(* A chunk over the maximum is a single paragraph, and one under the       *)
(* minimum could not have been merged with the next.                       *)
SizesRight ==
  ~dirty => \A i \in DOMAIN rows :
    LET lines == pages[rows[i].page]
        c == rows[i].span
    IN  /\ Tokens(lines, c.from, c.to) > MaxTokens =>
             \A n \in c.from + 1 .. c.to : lines[n] # "blank" => lines[n - 1] # "blank"
        /\ Tokens(lines, c.from, c.to) < MinTokens
             /\ i < Len(rows) /\ rows[i + 1].page = rows[i].page =>
             Tokens(lines, c.from, rows[i + 1].span.to) > MaxTokens

=============================================================================
