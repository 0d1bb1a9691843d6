------------------------------ MODULE Documents ------------------------------
(***************************************************************************)
(* docs.generate and docs.inspect on one path of a workspace: the calls of *)
(* the two tools (document-kits), the pipe, the document worker            *)
(* (document-worker.py) and the file.                                      *)
(*                                                                         *)
(* The worker handles one request after the other, in the order they came. *)
(* A PDF takes two: pdf.write and then pdf.audit, and requests of other    *)
(* calls may come between them.  A call that the worker keeps waiting for  *)
(* invoke_timeout_ms gives up; its request stays where it is.  The         *)
(* exchange of messages is the subject of WorkerManager, the worker's      *)
(* death and respawn that of Launcher: here the pipe is a queue that dies  *)
(* with the worker, and one worker is alive at a time.                     *)
(***************************************************************************)
EXTENDS DocumentKits

CONSTANTS
  Calls,      (* calls of the tools, each made once                        *)
  Specs,      (* what a call may ask for: op, format, and of a generate    *)
              (* the DocumentSpec                                          *)
  Drafts,     (* sequences of blocks for the checks of the translations    *)
  MaxCrashes  (* deaths of the worker                                      *)

ASSUME DraftsAssumption ==
  \A blocks \in Drafts : \A i \in DOMAIN blocks : blocks[i].kind \in BlockKinds

VARIABLES
  step,    (* idle, writing, written, auditing, reading, ok, failed        *)
  spec,    (* what a call asked for                                        *)
  before,  (* the calls that had ended when it began                       *)
  inbox,   (* requests in the pipe, in order                               *)
  running, (* the request the worker handles                               *)
  disk,    (* the file                                                     *)
  up,      (* the worker runs                                              *)
  crashes

asked == << spec, before >>
docVars == << step, asked, inbox, running, disk, up, crashes >>

NoSpec == [op |-> "none"]
NoRequest == [op |-> "none"]
NoFile == [has |-> "nothing"]
Request(k, op) == [op |-> op, of |-> k]

Ended == { k \in Calls : step[k] \in {"ok", "failed"} }

DocInit ==
  /\ step = [k \in Calls |-> "idle"]
  /\ spec = [k \in Calls |-> NoSpec]
  /\ before = [k \in Calls |-> {}]
  /\ inbox = << >> /\ running = NoRequest
  /\ disk = NoFile
  /\ up = FALSE /\ crashes = 0

--------------------------------------------------------------------------------
(* The tools.                                                              *)

(* revalidate_spec, then the translation of the kit. *)
Accepts(s) ==
  CASE s.op = "inspect" -> s.format # "pdf"
    [] s.format = "xlsx" -> Valid(s) /\ ~ ExcelRefuses(s.blocks)
    [] OTHER -> Valid(s)

Begin(k, s, next) ==
  /\ step[k] = "idle"
  /\ step' = [step EXCEPT ![k] = next]
  /\ spec' = [spec EXCEPT ![k] = s]
  /\ before' = [before EXCEPT ![k] = Ended]

(* An argument that is missing, a path out of the jail, a symbolic link, a *)
(* format without a kit, an invalid spec: no request is made.              *)
Refuse(k) ==
  /\ Begin(k, NoSpec, "failed")
  /\ UNCHANGED << inbox, running, disk, up, crashes >>

(* launcher.invoke spawns a worker when there is none; its pipe is new.    *)
Send(request) ==
  /\ inbox' = IF up THEN Append(inbox, request) ELSE << request >>
  /\ up' = TRUE

(* render of a kit up to its pdf.write, docx.write or xlsx.write;          *)
(* invoke_read of docs.inspect.                                            *)
Start(k, s) ==
  /\ Accepts(s)
  /\ Begin(k, s, IF s.op = "inspect" THEN "reading" ELSE "writing")
  /\ Send(Request(k, IF s.op = "inspect" THEN "read" ELSE "write"))
  /\ UNCHANGED << running, disk, crashes >>

(* PdfPro::render asks for the audit of the file at the path.              *)
SendAudit(k) ==
  /\ step[k] = "written"
  /\ step' = [step EXCEPT ![k] = "auditing"]
  /\ Send(Request(k, "audit"))
  /\ UNCHANGED << asked, running, disk, crashes >>

(* The time of the call is over, the worker cannot be spawned, or the pipe *)
(* has ended.  What was sent is not taken back.                            *)
GiveUp(k) ==
  /\ step[k] \in {"writing", "written", "auditing", "reading"}
  /\ step' = [step EXCEPT ![k] = "failed"]
  /\ UNCHANGED << asked, inbox, running, disk, up, crashes >>

--------------------------------------------------------------------------------
(* The worker.                                                             *)

(* Mutant of Take: the last line of the buffer first. *)
TakeLast ==
  /\ up /\ running = NoRequest /\ inbox # << >>
  /\ running' = inbox[Len(inbox)]
  /\ inbox' = SubSeq(inbox, 1, Len(inbox) - 1)
  /\ UNCHANGED << step, asked, disk, up, crashes >>

(* The loop of worker_main splits its buffer from the front. *)
Take ==
  /\ up /\ running = NoRequest /\ inbox # << >>
  /\ running' = Head(inbox)
  /\ inbox' = Tail(inbox)
  /\ UNCHANGED << step, asked, disk, up, crashes >>

(* The tool.result: a call that gave up does not see it. *)
Answer(op, to) ==
  LET k == running.of
      waits == [write |-> "writing", audit |-> "auditing", read |-> "reading"]
  IN  /\ running' = NoRequest
      /\ step' = IF step[k] = waits[op] THEN [step EXCEPT ![k] = to] ELSE step
      /\ UNCHANGED << asked, inbox, up, crashes >>

(* validate_path or the handler raises before the file is touched.         *)
HandlerRefuses ==
  /\ running.op \in {"write", "audit", "read"}
  /\ Answer(running.op, "failed")
  /\ UNCHANGED disk

(* _glyph_check and _build_story let nothing else through. *)
Writable(s) ==
  s.format = "pdf" => MissingGlyphs(s.blocks) = {} /\ Story(s.blocks) # << >>

(* The file is opened and what was in it is lost. *)
BeginSave ==
  /\ running.op = "write"
  /\ Writable(spec[running.of])
  /\ disk' = [has |-> "part", by |-> running.of]
  /\ running' = [running EXCEPT !.op = "saving"]
  /\ UNCHANGED << step, asked, inbox, up, crashes >>

(* save raises: what it had written stays. *)
SaveFails ==
  /\ running.op = "saving"
  /\ Answer("write", "failed")
  /\ UNCHANGED disk

(* The rules of the audit on what was written.  Without metadata of PDF/A  *)
(* that reportlab writes, pdfa_metadata never holds.                       *)
Quality(s) == IF s.format = "pdf" /\ ~ s.pdfa THEN BOOLEAN ELSE {s.format # "pdf"}

EndSave ==
  /\ running.op = "saving"
  /\ LET k == running.of
     IN  /\ \E sound \in Quality(spec[k]) :
              disk' = [has |-> "whole", by |-> k, sound |-> sound]
         /\ Answer("write", IF spec[k].format = "pdf" THEN "written" ELSE "ok")

(* Mutant of Passes: a file that can be opened passes. *)
PassesIfOpened == IF disk.has = "part" THEN BOOLEAN ELSE {disk.has = "whole"}

(* What the rules may find in the file at the path, whoever wrote it: a    *)
(* part of a PDF may be read, a file of another format is not.             *)
Passes ==
  IF disk.has = "nothing" \/ spec[disk.by].format # "pdf" THEN {FALSE}
  ELSE IF disk.has = "part" THEN BOOLEAN ELSE {disk.sound}

Audit ==
  /\ running.op = "audit"
  /\ \E passes \in Passes : Answer("audit", IF passes THEN "ok" ELSE "failed")
  /\ UNCHANGED disk

(* docx.read and xlsx.read: both formats are archives whose directory is   *)
(* written last.                                                           *)
ReadFile ==
  /\ running.op = "read"
  /\ Answer("read", IF disk.has = "whole" /\ spec[disk.by].format = spec[running.of].format
                    THEN "ok" ELSE "failed")
  /\ UNCHANGED disk

(* The pipe goes with the worker, and every request in it. *)
Crash ==
  /\ up /\ crashes < MaxCrashes
  /\ up' = FALSE /\ crashes' = crashes + 1
  /\ inbox' = << >> /\ running' = NoRequest
  /\ UNCHANGED << step, asked, disk >>

--------------------------------------------------------------------------------
DocNext ==
  \/ \E k \in Calls :
       \/ Refuse(k) \/ SendAudit(k) \/ GiveUp(k)
       \/ \E s \in Specs : Start(k, s)
  \/ Take \/ HandlerRefuses \/ BeginSave \/ SaveFails \/ EndSave
  \/ Audit \/ ReadFile \/ Crash

DocSpec == DocInit /\ [][DocNext]_docVars

--------------------------------------------------------------------------------
Generated(k) == step[k] = "ok" /\ spec[k].op = "generate"

(* The user is never handed a document that is not one: as long as the     *)
(* file a successful docs.generate wrote is still its own it is whole, and *)
(* a PDF passes the rules of the audit, although the audit is a second     *)
(* request that other calls and deaths of the worker may come before       *)
(* (render of pdfpro.rs).                                                  *)
OkFileIsGood ==
  \A k \in Calls :
    Generated(k) /\ disk.has # "nothing" /\ disk.by = k =>
      disk.has = "whole" /\ (spec[k].format = "pdf" => disk.sound)

(* What a successful docs.generate wrote is not undone by a call that had  *)
(* ended before it began: the write of a call that timed out is still run  *)
(* by the worker, but never after that of a later, answered one            *)
(* (worker_main, invoke of manager.rs).                                    *)
LastOkStands ==
  \A k \in Calls :
    Generated(k) => disk.has # "nothing" /\ disk.by \notin before[k]

--------------------------------------------------------------------------------
(* What the translations owe to the author of a spec.                      *)

(* The last heading or page break before block i, 0 when there is none. *)
Opener(blocks, i) ==
  Max({0} \cup { j \in 1 .. i - 1 : blocks[j].kind \in {"heading", "page_break"} })

(* translate_spec_to_docx_payload and the walk of docx.read lose no block  *)
(* that has a line, keep their order, and put each under the heading the   *)
(* author put it under, without one after a page break.                    *)
DocxFaithful ==
  \A blocks \in Drafts :
    LET back == Tail(RoundTrip(blocks))
        kept == { i \in DOMAIN blocks : blocks[i].kind = "heading" \/ Lines(blocks[i]) }
        under(k) == Max({0} \cup { j \in 1 .. k - 1 : back[j].kind = "heading" })
        sections == Sections(blocks)
    IN  /\ [k \in DOMAIN back |-> back[k].of] = SelectSeq(Indexes(blocks), LAMBDA i : i \in kept)
        /\ \A k \in DOMAIN back :
             (back[k].kind = "heading") = (blocks[back[k].of].kind = "heading")
        /\ \A s \in DOMAIN sections :
             \A i \in { sections[s].paragraphs[k] : k \in DOMAIN sections[s].paragraphs } :
               sections[s].heading =
                 LET o == Opener(blocks, i)
                 IN  IF o > 0 /\ blocks[o].kind = "heading" THEN o ELSE 0

(* Every table has a sheet of its own with a name that Excel accepts, and  *)
(* the mapping a call returns names the sheet that holds the table, unless *)
(* two names are equal but for their case or a table takes the name of the *)
(* sheet Painel (sanitize_sheet_name, translate of excelpro.rs).           *)
SheetsFaithful ==
  \A blocks \in Drafts :
    ~ ExcelRefuses(blocks) =>
      LET sheets == Sheets(blocks)
          names == { sheets[k].name : k \in DOMAIN sheets }
          book == Workbook(blocks)
          tables == { i \in DOMAIN blocks : blocks[i].kind = "table" }
      IN  /\ { sheets[k].of : k \in DOMAIN sheets } \ {0} = tables
          /\ \A n \in names : Len(n) \in 1 .. MaxSheetName
                              /\ \A k \in DOMAIN n : n[k] \notin Forbidden
          /\ Cardinality({ s.name : s \in Range(TableSheets(blocks).sheets) }) = Cardinality(tables)
          /\ Cardinality({ Lower(n) : n \in names }) = Len(sheets) =>
               \A m \in Range(Mapping(blocks)) :
                 { book[k].of : k \in { k \in DOMAIN book : book[k].name = m.name } }
                   = {m.block}

(* A kit gives the worker the document the author wrote.  Nothing a call   *)
(* does can change that: it is asked once, before the first of them.       *)
TranslationFaithful ==
  (\A k \in Calls : step[k] = "idle") => DocxFaithful /\ SheetsFaithful
==============================================================================
