----------------------------- MODULE MCDocuments -----------------------------
(* Documents small enough for TLC: what the calls may ask for, and every   *)
(* sequence of a few blocks for the translations.                          *)
EXTENDS Documents

Block(kind) ==
  [kind |-> kind, n |-> 2, square |-> TRUE, glyphs |-> TRUE, title |-> << >>]
Empty(kind) == [Block(kind) EXCEPT !.n = 0]
Table(title) == [Block("table") EXCEPT !.title = title]

Report(format, blocks) ==
  [op |-> "generate", format |-> format, parses |-> TRUE, type |-> "report",
   style |-> "padrao", watermark |-> FALSE, pdfa |-> FALSE, blocks |-> blocks]

Text == << Block("heading"), Block("paragraph") >>

(* One or two that pass, then what stops a request at the kit, in the      *)
(* semantic rules, in the worker and in the audit.                         *)
MCSpecs ==
  { Report("docx", Text), Report("pdf", Text),
    [op |-> "inspect", format |-> "docx"],
    [Report("pdf", Text) EXCEPT !.pdfa = TRUE],
    Report("pdf", << Block("footer") >>),
    Report("xlsx", Text),
    Report("docx", << Empty("steps") >>) }

Upto(S, n) == UNION { [1 .. k -> S] : k \in 1 .. n }

Prose == { Block("heading"), Block("page_break"), Block("paragraph"), Empty("key_value") }

(* Names that are equal but for case, that collide once cut or numbered,   *)
(* with and without characters that Excel forbids.                         *)
Titles == { << >>, << " ", "A" >>, << "A", "/" >>, << "a" >>, << "A", "_", "2" >>,
            << "A", "B", "A", "B", "A" >>, << "Painel" >>, << "Table_", "0" >> }

MCDrafts == Upto(Prose, 4) \cup Upto({ Table(t) : t \in Titles } \cup {Block("kpis")}, 3)

Perms == Permutations(Calls)
==============================================================================
