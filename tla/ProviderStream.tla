--------------------------- MODULE ProviderStream ---------------------------
(***************************************************************************)
(* One round of a run with a provider: the task that posts the request and *)
(* forwards the bytes of the response over a bounded channel, the parser   *)
(* of server-sent events, the accumulator of tool calls, the two wire      *)
(* formats (openai_compat.rs, anthropic.rs of provider-engine) and the     *)
(* executor's loop that takes the events one at a time, with the gate of   *)
(* RunStateMachine in front of them.                                       *)
(*                                                                         *)
(* The server writes a script: a sequence of events, each of them the two  *)
(* halves of a data line and a blank line.  The network cuts the bytes     *)
(* where it likes, and the connection may end anywhere.                    *)
(***************************************************************************)
EXTENDS RunStateMachine, Integers, SequencesExt

CONSTANTS Scripts,   \* [wire, delim, events] the server may write
          Tools,     \* the tools of the request, a sequence of names
          NameLimit, \* the longest name a provider takes (64 in the code)
          Channel,   \* room of the channel (8 in the code)
          Cuts       \* numbers of bytes that may arrive at once

\* What the API of each provider documents of a response: which of its events
\* carry the text and the end, and that an end comes in an event of its own,
\* after text and after the identity of a call.  The end of a content block is
\* not the end of the answer: other blocks may follow.
Ends(e) == e.finish # "" \/ e.kind = "message_stop"
FullyNamed(f) == f.id # "" /\ f.tool # 0

\* A fragment of a tool call: the key "arguments" may be missing altogether.
Fragments == [index : Nat, id : STRING, tool : 0..Len(Tools), keyed : BOOLEAN, args : Seq(STRING)]
Events    == [kind : STRING, text : STRING, tools : Seq(Fragments), finish : STRING, usage : BOOLEAN]
Responses == [wire : {"openai", "anthropic"}, delim : {"lf", "crlf"}, events : Seq(Events)]

OpenAiEvent(e) ==
    /\ e.text # "" \/ Ends(e) => e.kind = "chunk"
    /\ Ends(e) => e.text = "" /\ \A k \in DOMAIN e.tools : ~ FullyNamed(e.tools[k])

AnthropicEvent(e) ==
    /\ e.text # "" => e.kind = "content_block_delta"
    /\ e.finish # "" <=> e.kind = "message_delta"

ASSUME StreamAssumption ==
    /\ Channel > 0 /\ Cuts \subseteq Nat \ {0}
    /\ Tools \in Seq(Seq(STRING))
    /\ Scripts \subseteq Responses
    /\ \A s \in Scripts : \A i \in DOMAIN s.events :
          IF s.wire = "openai" THEN OpenAiEvent(s.events[i])
          ELSE /\ AnthropicEvent(s.events[i])
               /\ s.events[i].kind = "message_delta" =>
                     \A j \in DOMAIN s.events : i < j => s.events[j].text = ""

VARIABLES script,    \* what the server writes
          sent,      \* bytes that left the server
          task,      \* "requesting", "reading", "sending", "last" or "over"
          held,      \* the item the task waits to send
          channel,   \* items on their way
          buf,       \* SseParser::buf
          partials,  \* ToolCallDeltaAccumulator::partials
          ready,     \* events of the last item, not yet taken
          state,     \* the run's state in the executor
          content,   \* accumulated
          call,      \* tool_call_collected: <<>> or <<the call>>
          verdict,   \* "running", or how the round's loop ended
          receiving, \* the receiving end of the channel is not dropped yet
          cancel     \* the run's cancellation token

streamVars == <<script, sent, task, held, channel, buf, partials, ready, state, content, call,
                verdict, receiving, cancel>>
taskVars     == <<task, held>>
consumerVars == <<buf, partials, ready, state, content, call, verdict, receiving>>

-----------------------------------------------------------------------------
(* Names: a provider takes letters, digits, '_' and '-' only.  A name is a *)
(* sequence of characters.                                                 *)

Encoded(name) == [i \in 1..Len(name) |-> IF name[i] = "." THEN "_" ELSE name[i]]
Base(name) == SubSeq(Encoded(name), 1, IF Len(name) < NameLimit THEN Len(name) ELSE NameLimit)

\* The n-th candidate for a base.
Candidate(base, n) ==
    IF n = 1 THEN base
    ELSE SubSeq(base, 1, IF Len(base) < NameLimit - 2 THEN Len(base) ELSE NameLimit - 2)
             \o <<"_", ToString(n)>>

\* ToolNameMap::new: the first candidate no earlier tool has taken.
WireNames[k \in 0..Len(Tools)] ==
    IF k = 0 THEN <<>>
    ELSE LET earlier == WireNames[k - 1]
             free(n) == Candidate(Base(Tools[k]), n) \notin ToSet(earlier)
             n == CHOOSE n \in 1..k : free(n) /\ \A m \in 1..(n - 1) : ~ free(m)
         IN  Append(earlier, Candidate(Base(Tools[k]), n))

\* The wire names without the suffix that tells two tools apart.
WireBare == [i \in DOMAIN Tools |-> Base(Tools[i])]

Wire == WireNames[Len(Tools)]

\* decode_event: from_wire, in which the last insertion wins.
Decode(wire) ==
    LET at == {i \in DOMAIN Tools : Wire[i] = wire}
    IN  IF at = {} THEN wire ELSE Tools[CHOOSE i \in at : \A j \in at : j <= i]

-----------------------------------------------------------------------------
(* Bytes.                                                                  *)

Half(k, e, h) == [c |-> IF k = "comment" THEN k ELSE "data", event |-> e, half |-> h]
LF == [c |-> "lf", event |-> 0, half |-> 0]
CR == [c |-> "cr", event |-> 0, half |-> 0]

Delim(d) == IF d = "lf" THEN <<LF, LF>> ELSE <<CR, LF, CR, LF>>

\* What the server writes of its e-th event, the same number of bytes for each.
Piece(s, e) == <<Half(s.events[e].kind, e, 1), Half(s.events[e].kind, e, 2)>> \o Delim(s.delim)
Width(s) == 2 + Len(Delim(s.delim))

Bytes == [s \in Scripts |-> [p \in 1..(Len(s.events) * Width(s)) |->
    Piece(s, 1 + (p - 1) \div Width(s))[1 + ((p - 1) % Width(s))]]]

\* find_event_boundary: where the first blank line starts, 0 if there is none.
find_event_boundary(b) ==
    LET at == {i \in 1..(Len(b) - 1) :
                  \/ b[i] = LF /\ b[i + 1] = LF
                  \/ i + 3 <= Len(b) /\ SubSeq(b, i, i + 3) = <<CR, LF, CR, LF>>}
    IN  IF at = {} THEN 0 ELSE CHOOSE i \in at : \A j \in at : i <= j

IsNewline(x) == x \in {LF, CR}
Stripped(b) ==
    LET at == {i \in DOMAIN b : ~ IsNewline(b[i])}
    IN  IF at = {} THEN <<>> ELSE SubSeq(b, CHOOSE i \in at : \A j \in at : i <= j, Len(b))

\* parse_event: the data of the lines, 0 for none, -1 for data that is not whole.
parse_event(b) ==
    LET data  == {i \in DOMAIN b : b[i].c = "data"}
        whole == {i \in data : \E j \in data : /\ data = {i, j} /\ i < j
                                             /\ b[i].event = b[j].event /\ b[i].half < b[j].half}
    IN  IF data = {} THEN 0
        ELSE IF whole = {} THEN -1 ELSE b[CHOOSE i \in whole : TRUE].event

\* A parser that keeps nothing between two chunks.
FedForgetful(b, bytes) == bytes

\* SseParser::feed, before its loop.
Fed(b, bytes) == b \o bytes

-----------------------------------------------------------------------------
(* Events.                                                                 *)

NoCall == [id |-> "", name |-> <<>>, args |-> <<>>]
EmptyObject == <<"{", "}">>
Ev(kind) == [kind |-> kind, text |-> "", call |-> NoCall]
Delta(text) == [Ev("delta") EXCEPT !.text = text]
ToolCall(c) == [Ev("call") EXCEPT !.call = [c EXCEPT !.name = Decode(@)]]

\* A fragment of a tool call may lack its id and the name of its tool.
NameOf(f) == IF f.tool = 0 THEN <<>> ELSE Wire[f.tool]

\* A fragment joined to the first call that is open, whatever its index.
JoinedToFirst(p, f) ==
    LET old == IF p = <<>> THEN NoCall ELSE p[CHOOSE i \in DOMAIN p : \A j \in DOMAIN p : i <= j]
        new == [id   |-> IF f.id # "" THEN f.id ELSE old.id,
                name |-> IF f.tool # 0 THEN NameOf(f) ELSE old.name,
                args |-> old.args \o f.args]
    IN  [i \in DOMAIN p \union {f.index} |-> IF i = f.index THEN new ELSE p[i]]

\* A fragment joined to what is known of its call.
Joined(p, f) ==
    LET old == IF f.index \in DOMAIN p THEN p[f.index] ELSE NoCall
        new == [id   |-> IF f.id # "" THEN f.id ELSE old.id,
                name |-> IF f.tool # 0 THEN NameOf(f) ELSE old.name,
                args |-> old.args \o f.args]
    IN  [i \in DOMAIN p \union {f.index} |-> IF i = f.index THEN new ELSE p[i]]

Named(c) == c.id # "" /\ c.name # <<>>
LooksComplete(c) == Named(c) /\ c.args # <<>> /\ Last(c.args) = "}"

\* ToolCallDeltaAccumulator::feed: of the calls a chunk completes only the
\* last comes out at once; the end of the calls takes out the others.
accumulate(p, ev) ==
    LET after[k \in 0..Len(ev.tools)] == IF k = 0 THEN p ELSE Joined(after[k - 1], ev.tools[k])
        all      == after[Len(ev.tools)]
        complete == {k \in DOMAIN ev.tools : LooksComplete(after[k][ev.tools[k].index])}
        index    == ev.tools[CHOOSE k \in complete : \A j \in complete : j <= k].index
        left     == IF complete = {} THEN all ELSE [i \in DOMAIN all \ {index} |-> all[i]]
        drained  == {i \in DOMAIN left : Named(left[i])}
        nth(k)   == CHOOSE i \in drained : Cardinality({j \in drained : j < i}) = k - 1
    IN  [partials |-> IF ev.finish = "tool_calls" THEN <<>> ELSE left,
         calls    |-> (IF complete = {} THEN <<>> ELSE <<ToolCall(all[index])>>)
                      \o (IF ev.finish = "tool_calls"
                          THEN [k \in 1..Cardinality(drained) |-> ToolCall(left[nth(k)])] ELSE <<>>)]

Stop(reason) == Ev(CASE reason \in {"tool_calls", "tool_use"} -> "done_tool_calls"
                     [] reason = "content_filter" -> "done_error"
                     [] OTHER -> "done_stop")

\* One event at most for a chunk: its text, its first named call, its end or
\* its usage, in that order.  The call has the arguments of this fragment
\* alone, and the accumulator reports the same call beside it.
openai_compat_translate(ev) ==
    LET named == {k \in DOMAIN ev.tools : FullyNamed(ev.tools[k])}
        first == ev.tools[CHOOSE k \in named : \A j \in named : k <= j]
    IN  IF ev.text # "" THEN <<Delta(ev.text)>>
        ELSE IF named # {}
             THEN <<ToolCall([id |-> first.id, name |-> NameOf(first),
                              args |-> IF first.keyed THEN first.args ELSE EmptyObject])>>
        ELSE IF ev.finish # "" THEN <<Stop(ev.finish)>>
        ELSE IF ev.usage THEN <<Ev("usage")>> ELSE <<>>

translate_anthropic_event(ev) ==
    CASE ev.kind = "content_block_delta" -> IF ev.text = "" THEN <<>> ELSE <<Delta(ev.text)>>
      [] ev.kind = "message_delta" -> IF ev.usage THEN <<Ev("usage")>> ELSE <<Stop(ev.finish)>>
      [] ev.kind \in {"content_block_stop", "message_stop"} -> <<Stop("stop")>>
      [] ev.kind = "garbage" -> <<Ev("error")>>
      [] OTHER -> <<>>

\* What one complete event becomes: the closing "[DONE]" is no JSON and is an
\* error when it is reached.
OneEvent(p, n) ==
    IF n = 0 THEN [partials |-> p, out |-> <<>>]
    ELSE IF n = -1 THEN [partials |-> p, out |-> <<Ev("error")>>]
    ELSE LET ev == script.events[n]
         IN  IF script.wire = "anthropic"
             THEN [partials |-> p, out |-> translate_anthropic_event(ev)]
             ELSE IF ev.kind \in {"marker", "garbage"}
             THEN [partials |-> p, out |-> <<Ev("error")>>]
             ELSE LET acc == accumulate(p, ev)
                  IN  [partials |-> acc.partials, out |-> acc.calls \o openai_compat_translate(ev)]

-----------------------------------------------------------------------------
(* The task.                                                               *)

Item(kind, from, to) == [kind |-> kind, from |-> from, to |-> to]

\* The answer to the request: nothing watches the cancellation until then.
Respond ==
    /\ task = "requesting"
    /\ \/ task' = "reading" /\ UNCHANGED held
       \/ task' = "last" /\ held' = <<Item("error", 0, 0)>>
    /\ UNCHANGED <<script, sent, channel, consumerVars, cancel>>

\* The cancellation goes first; only one of the adapters reports it.
CancelTask ==
    /\ task = "reading" /\ cancel
    /\ IF script.wire = "anthropic" THEN task' = "over" /\ UNCHANGED held
       ELSE task' = "last" /\ held' = <<Item("cancelled", 0, 0)>>
    /\ UNCHANGED <<script, sent, channel, consumerVars, cancel>>

ReadBytes ==
    /\ task = "reading" /\ ~ cancel
    /\ \E n \in Cuts :
          /\ sent + n <= Len(Bytes[script])
          /\ sent' = sent + n
          /\ held' = <<Item("bytes", sent + 1, sent + n)>>
    /\ task' = "sending"
    /\ UNCHANGED <<script, channel, consumerVars, cancel>>

\* The response ends, whole or not, or breaks off with an error.
ReadEnd ==
    /\ task = "reading" /\ ~ cancel
    /\ \/ task' = "over" /\ UNCHANGED held
       \/ task' = "last" /\ held' = <<Item("error", 0, 0)>>
    /\ UNCHANGED <<script, sent, channel, consumerVars, cancel>>

\* A send that waits for room whoever is left to make it.
SendBlindly ==
    /\ task \in {"sending", "last"}
    /\ Len(channel) < Channel
    /\ channel' = channel \o held
    /\ held' = <<>>
    /\ task' = IF task = "sending" THEN "reading" ELSE "over"
    /\ UNCHANGED <<script, sent, consumerVars, cancel>>

\* A send waits for room, or finds that nobody receives.
Send ==
    /\ task \in {"sending", "last"}
    /\ \/ /\ receiving /\ Len(channel) < Channel
          /\ channel' = channel \o held
          /\ task' = IF task = "sending" THEN "reading" ELSE "over"
       \/ ~ receiving /\ task' = "over" /\ UNCHANGED channel
    /\ held' = <<>>
    /\ UNCHANGED <<script, sent, consumerVars, cancel>>

-----------------------------------------------------------------------------
(* The executor.                                                           *)

\* The adapter's stream has nothing but what the channel brings.
Idle == find_event_boundary(buf) = 0 /\ ready = <<>>

Receive ==
    /\ verdict = "running" /\ ~ cancel /\ Idle /\ channel # <<>>
    /\ channel' = Tail(channel)

NextItem ==
    /\ Receive
    /\ LET item == Head(channel)
       IN  IF item.kind = "bytes"
           THEN buf' = Fed(buf, SubSeq(Bytes[script], item.from, item.to)) /\ UNCHANGED ready
           ELSE ready' = <<Ev(item.kind)>> /\ UNCHANGED buf
    /\ UNCHANGED <<script, sent, taskVars, partials, state, content, call, verdict, receiving, cancel>>

\* One turn of the loop over the complete events of the buffer.  Nothing of
\* the executor happens between two turns: the loop does not await.
ParseFirst ==
    /\ find_event_boundary(buf) # 0
    /\ buf' = Stripped(SubSeq(buf, find_event_boundary(buf), Len(buf)))

Parse ==
    /\ ParseFirst
    /\ LET one == OneEvent(partials, parse_event(SubSeq(buf, 1, find_event_boundary(buf) - 1)))
       IN  partials' = one.partials /\ ready' = ready \o one.out
    /\ UNCHANGED <<script, sent, taskVars, channel, state, content, call, verdict, receiving, cancel>>

GateKind(ev) == IF ev.kind = "call" THEN "tool_call" ELSE ev.kind

\* The arguments as they came.
Unparsed(args) == args

\* serde_json::from_str of the arguments, which are pieces of an object: the
\* object when its last brace closes the first one, null for anything else.
Null == <<"null">>
Count(args, brace, n) == Cardinality({i \in 1..n : args[i] = brace})
Parsed(args) ==
    IF /\ args # <<>> /\ Head(args) = "{"
       /\ \A n \in DOMAIN args : Count(args, "{", n) = Count(args, "}", n) <=> n = Len(args)
    THEN args ELSE Null

\* The gate, then the event; what the gate refuses fails the run.
TakeFirst ==
    /\ verdict = "running" /\ ~ cancel /\ ready # <<>> /\ find_event_boundary(buf) = 0
    /\ ready' = Tail(ready)

Take ==
    /\ TakeFirst
    /\ LET ev   == Head(ready)
           gate == StreamTransitions(state, GateKind(ev))
       IN  IF ~ gate.ok
           THEN verdict' = "refused" /\ state' = "failed" /\ UNCHANGED <<content, call>>
           ELSE /\ state' = IF gate.walk = <<>> THEN state ELSE Last(gate.walk).to
                /\ content' = IF ev.kind = "delta" THEN Append(content, ev.text) ELSE content
                /\ call' = IF ev.kind = "call" THEN <<[ev.call EXCEPT !.args = Parsed(@)]>> ELSE call
                /\ verdict' = CASE ev.kind \in {"done_stop", "done_tool_calls", "done_error"} -> "done"
                                [] ev.kind = "error" -> "failed"
                                [] ev.kind = "cancelled" -> "cancelled"
                                [] OTHER -> "running"
    /\ UNCHANGED <<script, sent, taskVars, channel, buf, partials, receiving, cancel>>

\* The stream closed without an end of its own.
StreamClosed ==
    /\ verdict = "running" /\ ~ cancel /\ Idle /\ channel = <<>> /\ task = "over"
    /\ verdict' = "ended"
    /\ UNCHANGED <<script, sent, taskVars, channel, buf, partials, ready, state, content, call,
                   receiving, cancel>>

SeeCancel ==
    /\ verdict = "running" /\ cancel /\ find_event_boundary(buf) = 0
    /\ verdict' = "cancelled"
    /\ UNCHANGED <<script, sent, taskVars, channel, buf, partials, ready, state, content, call,
                   receiving, cancel>>

\* No watchdog between two events.
NoTimeout == FALSE /\ UNCHANGED streamVars

\* event_timeout passes without an event.
Timeout ==
    /\ verdict = "running" /\ ~ cancel /\ Idle /\ channel = <<>> /\ task # "over"
    /\ verdict' = "timeout"
    /\ UNCHANGED <<script, sent, taskVars, channel, buf, partials, ready, state, content, call,
                   receiving, cancel>>

\* The loop's end handles what it collected - a tool may run for long - and
\* only then the stream goes out of scope, the receiver with it.
Drop ==
    /\ verdict # "running" /\ receiving
    /\ receiving' = FALSE
    /\ channel' = <<>> /\ buf' = <<>> /\ partials' = <<>> /\ ready' = <<>>
    /\ UNCHANGED <<script, sent, taskVars, state, content, call, verdict, cancel>>

Cancel ==
    /\ receiving /\ ~ cancel
    /\ cancel' = TRUE
    /\ UNCHANGED <<script, sent, taskVars, channel, consumerVars>>

-----------------------------------------------------------------------------

\* A first round starts in calling_model, a later one in continuing_model.
StreamInit ==
    /\ script \in Scripts /\ sent = 0
    /\ task = "requesting" /\ held = <<>> /\ channel = <<>>
    /\ buf = <<>> /\ partials = <<>> /\ ready = <<>>
    /\ state \in {"calling_model", "continuing_model"}
    /\ content = <<>> /\ call = <<>>
    /\ verdict = "running" /\ receiving = TRUE /\ cancel = FALSE

Server   == Respond \/ ReadBytes \/ ReadEnd
OwnTask  == CancelTask \/ Send
LoopEnds == StreamClosed \/ SeeCancel \/ Timeout \/ Drop

StreamNext == Server \/ OwnTask \/ NextItem \/ Parse \/ Take \/ LoopEnds \/ Cancel

\* The runtime runs a task that can go on, and its clock advances.  The
\* server and the user owe nothing.  The guards of NextItem, Parse and
\* Take stand for them.
Fairness == /\ WF_streamVars(OwnTask) /\ WF_streamVars(LoopEnds)
            /\ WF_channel(Receive) /\ WF_buf(ParseFirst) /\ WF_ready(TakeFirst)

StreamSpec == StreamInit /\ [][StreamNext]_streamVars /\ Fairness

-----------------------------------------------------------------------------
(* Properties.                                                             *)

\* The texts of the first n events.
Said(events) ==
    LET said[n \in 0..Len(events)] ==
            IF n = 0 THEN <<>>
            ELSE IF events[n].text = "" THEN said[n - 1] ELSE Append(said[n - 1], events[n].text)
    IN  said

\* The server's own end: its first event that is one, its last event if none is.
FirstEnd(events) ==
    LET at == {i \in DOMAIN events : Ends(events[i])}
    IN  IF at = {} THEN Len(events) ELSE CHOOSE i \in at : \A j \in at : i <= j

\* Anthropic's answer goes on with text after the end of a content block.
SeveralBlocks(s) ==
    /\ s.wire = "anthropic"
    /\ \E i, j \in DOMAIN s.events : /\ i < j /\ s.events[i].kind = "content_block_stop"
                                     /\ s.events[j].text # ""

\* Wherever the network cuts the bytes, and whatever ends the round, the
\* answer that was accumulated is a beginning of what the server wrote; and
\* it is all of it, up to the server's own end, when the round is done.  Not so
\* an answer of several content blocks: the adapter takes the end of the first
\* for the end of the answer (anthropic.rs:432), and the round is done without
\* the text of the others.
AnswerIsPrefix ==
    LET said == Said(script.events)
    IN  /\ IsPrefix(content, said[Len(script.events)])
        /\ verdict = "done" /\ ~ SeveralBlocks(script) => content = said[FirstEnd(script.events)]

\* What the server wrote of the call with an index, and the tool it meant.
Written(index) ==
    LET of == SelectSeq(FlattenSeq([i \in DOMAIN script.events |-> script.events[i].tools]),
                        LAMBDA f : f.index = index)
        id   == SelectSeq(of, LAMBDA f : f.id # "")
        tool == SelectSeq(of, LAMBDA f : f.tool # 0)
    IN  [id   |-> IF id = <<>> THEN "" ELSE Last(id).id,
         name |-> IF tool = <<>> THEN <<>> ELSE Tools[Last(tool).tool],
         args |-> FlattenSeq([i \in DOMAIN of |-> of[i].args])]

\* The call that a round collects, however the round ends, is one the server
\* wrote: the id and the tool of one index, although fragments of several take
\* turns and the wire cannot carry the tools' own names.  It never has a part of
\* the arguments: they are all those of that index, or none - null when what
\* had come by then does not parse (executor.rs:781), an empty object when the
\* fragment with the name had no key for them (parser.rs:240).
CallWhole ==
    call # <<>> =>
        \E e \in DOMAIN script.events : \E j \in DOMAIN script.events[e].tools :
            LET written == Written(script.events[e].tools[j].index)
            IN  /\ call[1].id = written.id /\ call[1].name = written.name
                /\ call[1].args \in {written.args, Null, EmptyObject}

\* A round ends, whether the server answers, stays silent or breaks off.
StreamSettles == <>(verdict # "running")

\* The task that reads the response outlives the round for no longer than the
\* server lets it wait: it is never left at a full channel nobody reads.
TaskEnds == WF_streamVars(Server) => ((verdict # "running") ~> (task = "over"))

\* A round ends, and so does the task behind it.
RoundEnds == StreamSettles /\ TaskEnds

=============================================================================
