---------------------------- MODULE DocumentKits -------------------------------
(***************************************************************************)
(* The document-engine and the three kits of document-kits, as far as they *)
(* are pure: which DocumentSpec is accepted, and what each kit makes of    *)
(* its blocks before the worker is asked to write.                         *)
(*                                                                         *)
(* A text is known by the index of the block it stands in.  A block has    *)
(*   kind    one of the twenty of DocumentBlock,                           *)
(*   n       how many items, entries, cards, lines or columns it has (of a *)
(*           cover: 1 when it has a subtitle),                             *)
(*   square  of a table: every row is as wide as the header,               *)
(*   glyphs  the embedded fonts have every character of the texts of the   *)
(*           block that the glyph check looks at,                          *)
(*   title   of a table: the proposed sheet name, a sequence of characters *)
(*           (a word that the code itself writes counts as one).           *)
(***************************************************************************)
EXTENDS Naturals, SequencesExt, FiniteSetsExt

CONSTANT MaxSheetName (* MAX_SHEET_NAME_LEN, 31 in the code *)

ASSUME MaxSheetNameAssumption == MaxSheetName \in Nat /\ MaxSheetName > 2

BlockKinds ==
  {"cover", "toc", "heading", "paragraph", "list", "table", "key_value", "kpis",
   "callout", "quote", "steps", "chart", "image", "code", "divider", "spacer",
   "page_break", "footer", "signatures", "back_cover"}

SheetKinds == {"kpis", "table", "chart"}

Indexes(blocks) == [i \in 1 .. Len(blocks) |-> i]

(* validate_semantic.  parses stands for what the schema asks for, the     *)
(* form of spec_version and the case of language.                          *)
Valid(spec) ==
  /\ spec.parses
  /\ spec.blocks # << >>
  /\ ~ (spec.style = "sobrio" /\ spec.watermark)
  /\ \A i \in DOMAIN spec.blocks :
       LET b == spec.blocks[i]
       IN  /\ b.kind = "kpis" => b.n \in 2 .. 4
           /\ b.kind = "steps" => b.n > 0
           /\ b.kind = "table" => b.square /\ b.n > 0
           /\ spec.type = "spreadsheet" => b.kind \in SheetKinds

--------------------------------------------------------------------------------
(* WordPro: a walk over the blocks with a heading and paragraphs in hand.  *)

(* Blocks that push one line whatever they hold; the others push one line  *)
(* per item.                                                               *)
AlwaysALine ==
  {"toc", "paragraph", "list", "table", "callout", "quote", "chart", "image",
   "divider", "spacer", "footer", "back_cover"}

Lines(b) ==
  /\ b.kind \notin {"heading", "page_break"}
  /\ b.kind \in AlwaysALine \/ b.n > 0

(* Mutant of Flush: a heading that nothing follows is forgotten. *)
FlushIfParagraphs(acc) ==
  IF acc.paragraphs = << >>
  THEN [acc EXCEPT !.heading = 0]
  ELSE [sections |-> Append(acc.sections, [heading |-> acc.heading,
                                           paragraphs |-> acc.paragraphs]),
        heading |-> 0, paragraphs |-> << >>]

(* Heading 0 is none, which is written as the empty string. *)
Flush(acc) ==
  IF acc.heading = 0 /\ acc.paragraphs = << >>
  THEN acc
  ELSE [sections |-> Append(acc.sections, [heading |-> acc.heading,
                                           paragraphs |-> acc.paragraphs]),
        heading |-> 0, paragraphs |-> << >>]

Walk(acc, b, i) ==
  CASE b.kind = "heading"    -> [Flush(acc) EXCEPT !.heading = i]
    [] b.kind = "page_break" -> Flush(acc)
    [] Lines(b)              -> [acc EXCEPT !.paragraphs = Append(@, i)]
    [] OTHER                 -> acc

(* translate_spec_to_docx_payload. *)
Sections(blocks) ==
  Flush(FoldLeft(LAMBDA acc, i : Walk(acc, blocks[i], i),
                 [sections |-> << >>, heading |-> 0, paragraphs |-> << >>],
                 Indexes(blocks))).sections

--------------------------------------------------------------------------------
(* ExcelPro: a sheet per table, and Painel for the cards and charts.       *)

Forbidden == {"\\", "/", "?", "*", "[", "]", ":"}

Trim(name) ==
  LET inked == { k \in DOMAIN name : name[k] # " " }
  IN  IF inked = {} THEN << >> ELSE SubSeq(name, Min(inked), Max(inked))

Shortened(name, most) == SubSeq(name, 1, Min({most, Len(name)}))

(* Steps 1 to 4 of sanitize_sheet_name: i is the index of the block. *)
BaseName(title, i) ==
  LET trimmed == Trim(SelectSeq(title, LAMBDA c : c \notin Forbidden))
  IN  IF trimmed = << >> THEN << "Table_", ToString(i - 1) >>
                         ELSE Shortened(trimmed, MaxSheetName)

(* Mutant of Numbered: the suffix comes after the cut. *)
NumberedUncut(base, n) == base \o << "_", ToString(n) >>

(* format!("{truncated}{suffix}"); numbers have one digit here. *)
Numbered(base, n) == Shortened(base, MaxSheetName - 2) \o << "_", ToString(n) >>

(* sanitize_sheet_name.  Up to nine tables may ask for one name.           *)
SanitizeSheetName(title, i, used) ==
  LET base == BaseName(title, i)
  IN  IF base \notin used THEN base
      ELSE Numbered(base, Min({ n \in 2 .. 9 : Numbered(base, n) \notin used }))

Painel == << "Painel" >>

(* One table: its name is taken, its sheet and its mapping are made. *)
AddTable(acc, b, i) ==
  LET name == SanitizeSheetName(b.title, i, acc.used)
  IN  [used    |-> acc.used \cup {name},
       sheets  |-> Append(acc.sheets, [name |-> name, of |-> i]),
       mapping |-> Append(acc.mapping, [block |-> i, name |-> name])]

(* The sheets of the tables in the order of the blocks. *)
TableSheets(blocks) ==
  FoldLeft(LAMBDA acc, i : IF blocks[i].kind = "table"
                           THEN AddTable(acc, blocks[i], i) ELSE acc,
           [used |-> {}, sheets |-> << >>, mapping |-> << >>],
           Indexes(blocks))

HasPainel(blocks) == \E i \in DOMAIN blocks : blocks[i].kind \in {"kpis", "chart"}

(* What xlsx.write is asked for.  Painel comes first, whether or not a     *)
(* table took its name.                                                    *)
Sheets(blocks) ==
  (IF HasPainel(blocks) THEN << [name |-> Painel, of |-> 0] >> ELSE << >>)
    \o TableSheets(blocks).sheets

Mapping(blocks) == TableSheets(blocks).mapping

(* A spec of another type with a block that is not for a sheet. *)
ExcelRefuses(blocks) == \E i \in DOMAIN blocks : blocks[i].kind \notin SheetKinds

--------------------------------------------------------------------------------
(* PDFPro and the part of pdf.write that comes before reportlab.           *)

(* _build_story: these blocks give no flowable when they are empty; a      *)
(* footer gives none at all.                                               *)
Flows(b) ==
  /\ b.kind # "footer"
  /\ b.kind \in {"list", "key_value", "kpis", "steps", "code", "signatures"} => b.n > 0

Story(blocks) == SelectSeq(Indexes(blocks), LAMBDA i : Flows(blocks[i]))

(* _glyph_check: blocks that it takes no text from pass it. *)
MissingGlyphs(blocks) ==
  { i \in DOMAIN blocks :
      /\ ~ blocks[i].glyphs
      /\ blocks[i].kind \notin {"page_break", "divider", "spacer", "image", "toc"} }

--------------------------------------------------------------------------------
(* What the handlers of the worker leave in the file.                      *)

Lower(name) ==
  LET small == [c \in {"Painel", "A", "B"} |->
                  CASE c = "Painel" -> "painel" [] c = "A" -> "a" [] c = "B" -> "b"]
  IN  [k \in DOMAIN name |-> IF name[k] \in DOMAIN small THEN small[name[k]]
                                                         ELSE name[k]]

(* openpyxl: a title that the workbook has in any case gets a number. *)
Titled(name, written) ==
  IF \E k \in DOMAIN written : Lower(written[k].name) = Lower(name)
  THEN Append(name, ToString(Len(written)))
  ELSE name

(* handle_xlsx_write: create_sheet for each sheet in turn. *)
Workbook(blocks) ==
  FoldLeft(LAMBDA written, s : Append(written, [name |-> Titled(s.name, written),
                                                of |-> s.of]),
           << >>, Sheets(blocks))

(* handle_docx_write, then handle_docx_read and build_docx_spec: the       *)
(* title, which is read as a paragraph (0), and the sections flattened.    *)
RoundTrip(blocks) ==
  << [kind |-> "paragraph", of |-> 0] >> \o
  FlattenSeq([s \in DOMAIN Sections(blocks) |->
    LET section == Sections(blocks)[s]
    IN  (IF section.heading = 0 THEN << >>
         ELSE << [kind |-> "heading", of |-> section.heading] >>) \o
        [k \in DOMAIN section.paragraphs |->
           [kind |-> "paragraph", of |-> section.paragraphs[k]]]])
================================================================================
