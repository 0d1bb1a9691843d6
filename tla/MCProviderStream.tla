-------------------------- MODULE MCProviderStream --------------------------
(* The scripts of the server.  The two names that the wire cannot tell     *)
(* apart are "a.b" and "a_b"; the arguments of a call are pieces of one    *)
(* object: its braces, and what is between them.                           *)
EXTENDS ProviderStream

Dotted == <<"a", ".", "b">>
Plain  == <<"a", "_", "b">>
MCTools == <<Dotted, Plain>>

Event(kind) == [kind |-> kind, text |-> "", tools |-> <<>>, finish |-> "", usage |-> FALSE]
Chunk == Event("chunk")
Text(t) == [Chunk EXCEPT !.text = t]
Calls(fs) == [Chunk EXCEPT !.tools = fs]
Finish(r) == [Chunk EXCEPT !.finish = r]
Usage == [Chunk EXCEPT !.usage = TRUE]
Block(t) == [Event("content_block_delta") EXCEPT !.text = t]

\* A fragment without the key of the arguments, and one with it.
Bare(index, id, tool) == [index |-> index, id |-> id, tool |-> tool, keyed |-> FALSE, args |-> <<>>]
Part(index, id, tool, args) == [Bare(index, id, tool) EXCEPT !.keyed = TRUE, !.args = args]

Script(wire, delim, events) == [wire |-> wire, delim |-> delim, events |-> events]

\* Text, with a comment between, the end, and the closing marker.
Answer(delim) == Script("openai", delim,
    <<Text("x"), Event("comment"), Text("y"), Finish("stop"), Event("marker")>>)

\* The form of most servers, and of provider-engine.md: the first fragment has
\* the whole identity and empty arguments.
Standard == Script("openai", "lf",
    <<Calls(<<Part(0, "c0", 1, <<>>)>>), Calls(<<Part(0, "", 0, <<"{", "p">>)>>),
      Calls(<<Part(0, "", 0, <<"}">>)>>), Finish("tool_calls")>>)

\* The same without the key, and a call that comes whole in one fragment.
Keyless == Script("openai", "lf",
    <<Calls(<<Bare(0, "c0", 2)>>), Calls(<<Part(0, "", 0, <<"{", "p", "}">>)>>), Finish("tool_calls")>>)
AtOnce == Script("openai", "lf",
    <<Calls(<<Part(0, "c0", 1, <<"{", "p", "}">>)>>), Finish("tool_calls")>>)

\* The identity comes in two chunks, and a fragment of the arguments ends with
\* the brace of an inner object.
Nested == Script("openai", "lf",
    <<Calls(<<Bare(0, "c0", 0)>>), Calls(<<Part(0, "", 1, <<"{", "p", "{", "}">>)>>),
      Calls(<<Part(0, "", 0, <<"}">>)>>), Finish("tool_calls")>>)

\* The identity in two chunks, the arguments in two more.
Split == Script("openai", "lf",
    <<Calls(<<Bare(0, "c0", 0)>>), Calls(<<Part(0, "", 1, <<"{", "p">>)>>),
      Calls(<<Part(0, "", 0, <<"}">>)>>), Finish("tool_calls")>>)

\* No arguments: the end of the calls takes the call out.
Drained == Script("openai", "lf",
    <<Usage, Calls(<<Bare(0, "c0", 0)>>), Calls(<<Bare(0, "", 2)>>), Finish("tool_calls")>>)

\* Two calls whose fragments take turns.
Interleaved == Script("openai", "lf",
    <<Calls(<<Bare(0, "c0", 0), Bare(1, "c1", 0)>>),
      Calls(<<Part(1, "", 2, <<"{", "q">>), Part(0, "", 1, <<"{", "p">>)>>),
      Calls(<<Part(1, "", 0, <<"}">>)>>), Finish("tool_calls")>>)

\* No end but the marker, after data that is no JSON; an answer that is held back.
Unfinished == Script("openai", "lf", <<Text("x"), Event("garbage"), Event("marker")>>)
Filtered   == Script("openai", "lf", <<Text("x"), Finish("content_filter")>>)

Anthropic == Script("anthropic", "lf",
    <<Event("message_start"), Block("x"), Block("y"),
      [Event("message_delta") EXCEPT !.finish = "end_turn", !.usage = TRUE], Event("message_stop")>>)
\* One block, then two, of which the adapter takes the first.
AnthropicBlock == Script("anthropic", "lf",
    <<Block("x"), Block("y"), Event("content_block_stop"), [Event("message_delta") EXCEPT !.finish = "end_turn"]>>)
AnthropicBlocks == Script("anthropic", "crlf",
    <<Block("x"), Event("content_block_stop"), Block("y"), [Event("message_delta") EXCEPT !.finish = "tool_use"]>>)

MCScripts == {Answer("lf"), Answer("crlf"), Standard, Keyless, AtOnce, Nested, Split, Drained, Interleaved,
              Unfinished, Filtered, Anthropic, AnthropicBlock, AnthropicBlocks}
=============================================================================
