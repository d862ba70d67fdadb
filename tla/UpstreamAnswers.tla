--------------------------- MODULE UpstreamAnswers ---------------------------
(***************************************************************************)
(* What upstreams send: the frames of an answer in each protocol, as the   *)
(* decoders expect them.  An upstream is external; it leaves out every     *)
(* frame the decoders let it leave out.                                    *)
(*                                                                         *)
(* An answer is made of units.  Unit n says the tokens 10n+1 and 10n+2,    *)
(* and its calls have the id n.  It is a sequence of lanes, each a         *)
(* sequence of frames with what they say.                                  *)
(***************************************************************************)
EXTENDS StreamEvents

Chat == INSTANCE ChatStream
Responses == INSTANCE ResponsesStream

Tokens(n) == <<10 * n + 1, 10 * n + 2>>
UnitOf(token) == token \div 10
Speak(frame) == [frame |-> frame, says |-> {}]
Say(frame, kind, tokens) == [frame |-> frame, says |-> {[kind |-> kind, x |-> x] : x \in ToSet(tokens)}]

(* Anthropic: one block after the other.  The unit "empty call" is a tool  *)
(* call without arguments.                                                 *)
AnthropicUnits == {<<"text">>, <<"thinking">>, <<"tool">>, <<"empty call">>, <<"server", "result">>,
                   <<"hosted", "result">>, <<"redacted">>, <<"opaque">>}

AnthropicBlock(kind, n) ==
    CASE kind = "opaque" -> Opaque("anthropic")
      [] kind = "empty call" -> Block("tool", n)
      [] kind = "result" -> Block("result", n - 1)
      [] OTHER -> Block(kind, n)

Delta(n, kind, x) == [type |-> "content_block_delta", at |-> n - 1, delta |-> [kind |-> kind, x |-> x]]
DeltaKind(kind) == IF kind \in {"text", "thinking"} THEN kind ELSE "input_json"

AnthropicFrames(kind, n) ==
    LET said == IF kind \in {"text", "thinking", "tool", "server", "hosted"} THEN Tokens(n) ELSE <<>>
    IN <<Speak([type |-> "content_block_start", at |-> n - 1, block |-> AnthropicBlock(kind, n)])>>
       \o [k \in DOMAIN said |-> Say(Delta(n, DeltaKind(kind), said[k]), kind, <<said[k]>>)]
       \o (IF kind = "thinking" THEN <<Speak(Delta(n, "signature", Empty))>> ELSE <<>>)
       \o (IF kind = "opaque" THEN <<Speak(Delta(n, "unknown", Empty))>> ELSE <<>>)
       \o <<Speak([type |-> "content_block_stop", at |-> n - 1])>>

AnthropicAnswer(units) ==
    LET kinds == FlattenSeq(units)
    IN <<<<Speak([type |-> "message_start"])>>
           \o FlattenSeq([n \in DOMAIN kinds |-> AnthropicFrames(kinds[n], n)])>>

(* Chat: what a tool call's chunks carry, in the orders upstreams use; a   *)
(* call may never get an id, or a name, or either.                         *)
ChatUnits ==
    {"text", "thinking", "refusal", "whole", "split", "late", "no id", "no name", "nameless", "empty call"}
ChatCalls == ChatUnits \ {"text", "thinking", "refusal"}
Identified == {"whole", "split", "empty call"}

Chunk(delta) == [type |-> "chunk", delta |-> delta, finish |-> "", extra |-> FALSE]
CallDelta(slot, id, name, args) ==
    Chunk([kind |-> "tool", slot |-> slot, id |-> id, name |-> name, args |-> args])

ChatFrames(unit, n, slot) ==
    LET a == Tokens(n)[1]
        b == Tokens(n)[2]
        Part(id, name, args) ==
            IF args = Unset THEN Speak(CallDelta(slot, id, name, Unset))
            ELSE Say(CallDelta(slot, id, name, args), "tool", <<args>>)
    IN CASE unit = "whole" -> <<Part(n, TRUE, a)>>
         [] unit = "split" -> <<Part(n, TRUE, Unset), Part(Unset, FALSE, a), Part(Unset, FALSE, b)>>
         [] unit = "late" -> <<Part(Unset, FALSE, a), Part(Unset, TRUE, b), Part(n, FALSE, Unset)>>
         [] unit = "no id" -> <<Part(Unset, TRUE, a), Part(Unset, FALSE, b)>>
         [] unit = "no name" -> <<Part(n, FALSE, a), Part(Unset, FALSE, b)>>
         [] unit = "nameless" -> <<Part(Unset, FALSE, a)>>
         [] unit = "empty call" -> <<Part(n, TRUE, Unset)>>
         [] OTHER -> <<Say(Chunk([kind |-> unit, x |-> a]), unit, <<a>>),
                       Say([Chunk([kind |-> unit, x |-> b]) EXCEPT !.extra = TRUE], unit, <<b>>)>>

(* An answer, and which of its units are sent in a way the decoder has no  *)
(* means, or does not take the trouble, to recognise:                      *)
(*   "unnamed": its slot is given to another call before it had a name;    *)
(*   "glued": likewise, before it had an id to tell the two calls apart;   *)
(*   "echoed": its arguments come whole and then once more, as deltas.     *)
Answer(lanes, odd) == [lanes |-> lanes, odd |-> odd]
Plain(lanes) == Answer(lanes, {})
Replaced(unit) == CASE unit = "no name" -> {<<"unnamed", 1>>}
                    [] unit \in {"no id", "nameless"} -> {<<"glued", 1>>}
                    [] OTHER -> {}

(* Two calls come in two slots, interleaved, or one after the other in the *)
(* same slot, if the second announces itself.                              *)
ChatAnswers(units) ==
    LET Frames(slot2) == [n \in DOMAIN units |-> ChatFrames(units[n], n, IF n = 1 THEN 0 ELSE slot2)]
    IN IF Len(units) = 2 /\ ToSet(units) \subseteq ChatCalls
       THEN {Plain(Frames(1))}
              \cup (IF units[2] \in Identified THEN {Answer(<<FlattenSeq(Frames(0))>>, Replaced(units[1]))}
                    ELSE {})
       ELSE {Plain(<<FlattenSeq(Frames(0))>>)}

(* Responses: an item comes with all its frames, with its deltas only,     *)
(* with its item.done only, with arguments before its identity ("bare"),   *)
(* or without ever getting one ("lost").  The frame that announces a call  *)
(* may bring its arguments, all ("early") or some ("begun"), and some      *)
(* upstreams then send them again as deltas ("echoed").                    *)
ResponsesUnits ==
    ({"message", "tool", "reasoning"} \X {"all", "deltas", "done"})
        \cup ({"tool"} \X {"bare", "lost", "early", "begun", "echoed"})
        \cup { <<"message", "some">>, <<"empty call", "all">>,
               <<"custom", "all">>, <<"search", "all">>, <<"search", "deltas">>, <<"other", "deltas">>}

ItemKind(kind) == IF kind = "empty call" THEN "tool" ELSE kind
PartsOf(n) == <<[refusal |-> FALSE, full |-> <<Tokens(n)[1]>>], [refusal |-> TRUE, full |-> <<Tokens(n)[2]>>]>>
Item(kind, n, full) == [kind |-> ItemKind(kind), id |-> n, full |-> full, signed |-> kind = "reasoning"]

ResponsesFrames(kind, how, n) ==
    LET out == n - 1
        a == Tokens(n)[1]
        b == Tokens(n)[2]
        full == CASE kind = "message" -> PartsOf(n)
                  [] kind = "search" -> <<a>>
                  [] kind \in {"tool", "custom", "reasoning"} -> Tokens(n)
                  [] OTHER -> <<>>
        says == CASE kind = "message" -> {[kind |-> "text", x |-> a], [kind |-> "refusal", x |-> b]}
                  [] kind = "search" -> {[kind |-> "server", x |-> a]}
                  [] kind = "reasoning" -> {[kind |-> "thinking", x |-> x] : x \in {a, b}}
                  [] kind \in {"tool", "custom"} -> {[kind |-> "tool", x |-> x] : x \in {a, b}}
                  [] OTHER -> {}
        Added(value) == Say([type |-> "item_added", out |-> out, item |-> Item(kind, n, value)], "tool", value)
        added == Added(<<>>)
        done == [frame |-> [type |-> "item_done", out |-> out, item |-> Item(kind, n, full)], says |-> says]
        PartFrame(type, k) ==
            Say([type |-> type, out |-> out, part |-> k - 1, refusal |-> k = 2,
                 x |-> Tokens(n)[k], full |-> <<Tokens(n)[k]>>],
                IF k = 2 THEN "refusal" ELSE "text",
                IF type = "part_added" THEN <<>> ELSE <<Tokens(n)[k]>>)
        args == [k \in 1..2 |-> Say([type |-> "args_delta", out |-> out, custom |-> kind = "custom",
                                     x |-> Tokens(n)[k]], "tool", <<Tokens(n)[k]>>)]
        argsDone == Say([type |-> "args_done", out |-> out, custom |-> kind = "custom", full |-> full],
                        "tool", full)
        thought == Say([type |-> "reasoning_delta", out |-> out, x |-> a], "thinking", <<a>>)
        thoughtDone == Say([type |-> "reasoning_done", out |-> out, full |-> full], "thinking", full)
    IN CASE how = "done" -> <<done>>
         [] kind = "message" /\ how = "all" ->
              <<added, PartFrame("part_added", 1), PartFrame("part_delta", 1), PartFrame("text_done", 1),
                PartFrame("part_done", 1), PartFrame("part_added", 2), PartFrame("part_delta", 2),
                PartFrame("refusal_done", 2), PartFrame("part_done", 2), done>>
         [] kind = "message" /\ how = "deltas" -> <<PartFrame("part_delta", 1), PartFrame("part_delta", 2)>>
         [] kind = "message" /\ how = "some" -> <<PartFrame("part_delta", 1), PartFrame("part_done", 1), done>>
         [] kind \in {"tool", "custom"} /\ how = "all" -> <<added>> \o args \o <<argsDone, done>>
         [] kind \in {"tool", "custom"} /\ how = "deltas" -> <<added>> \o args
         [] how = "bare" -> <<args[1], argsDone, done>>
         [] how = "lost" -> args
         [] how = "early" -> <<Added(full), argsDone, done>>
         [] how = "begun" -> <<Added(<<a>>), args[2], argsDone, done>>
         [] how = "echoed" -> <<Added(full)>> \o args \o <<argsDone, done>>
         [] kind = "reasoning" /\ how = "all" -> <<added, thought, thoughtDone, done>>
         [] kind = "reasoning" /\ how = "deltas" -> <<thought>>
         [] how = "deltas" -> <<added>>
         [] OTHER -> <<added, done>>

(* The frames of two calls may interleave.                                 *)
ResponsesAnswer(units) ==
    LET items == [n \in DOMAIN units |-> ResponsesFrames(units[n][1], units[n][2], n)]
        created == <<Speak([type |-> "created"])>>
        odd == {<<"echoed", n>> : n \in {m \in DOMAIN units : units[m][2] = "echoed"}}
    IN IF \A n \in DOMAIN units : units[n][1] \in {"tool", "custom", "empty call"}
       THEN Answer(<<created>> \o items, odd)
       ELSE Answer(<<created \o FlattenSeq(items)>>, odd)

(* An answer in one JSON document, as the decoders of whole answers hand   *)
(* it on: the content is one frame.                                        *)
JsonUnits == {<<k>> : k \in Attachments \cup {"custom", "upload"}} \cup AnthropicUnits
JsonBlock(kind, n) ==
    LET b == IF kind = "custom" THEN CustomCall(n) ELSE AnthropicBlock(kind, n)
    IN CASE kind \in {"text", "tool", "custom", "server"} -> [b EXCEPT !.said = Tokens(n)]
         [] kind = "thinking" -> [b EXCEPT !.said = Tokens(n), !.from = "anthropic"]
         [] OTHER -> b
JsonAnswer(units) ==
    LET kinds == FlattenSeq(units)
        content == [n \in DOMAIN kinds |-> JsonBlock(kinds[n], n)]
    IN <<<<[frame |-> [type |-> "json", content |-> content],
            says |-> UNION {{[kind |-> b.kind, x |-> x] : x \in ToSet(b.said)} : b \in ToSet(content)}]>>>>

Answers(proto, units) ==
    CASE proto = "anthropic" -> {Plain(AnthropicAnswer(units))}
      [] proto = "chat" -> ChatAnswers(units)
      [] proto = "responses" -> {ResponsesAnswer(units)}
      [] proto = "json" -> {Plain(JsonAnswer(units))}
Units(proto) ==
    CASE proto = "anthropic" -> AnthropicUnits
      [] proto = "chat" -> ChatUnits
      [] proto = "responses" -> ResponsesUnits
      [] proto = "json" -> JsonUnits

(* How an answer ends well: the frames, and what the end means.            *)
Endings(proto) ==
    CASE proto = "anthropic" ->
           {[stop |-> s, frames |-> <<[type |-> "message_delta", stop |-> s], [type |-> "message_stop"]>>] :
               s \in {"end_turn", "pause_turn", "max_tokens"}}
      [] proto = "chat" ->
           {[stop |-> Chat!MapFinishReason(s),
             frames |-> <<[Chunk([kind |-> "none"]) EXCEPT !.finish = s], [type |-> "done"]>>] :
               s \in {"stop", "length"}}
      [] proto = "responses" ->
           {[stop |-> "end_turn", frames |-> <<[type |-> "completed"]>>]}
             \cup {[stop |-> Responses!MapIncompleteReason(r),
                    frames |-> <<[type |-> "incomplete", reason |-> r], [type |-> "done"]>>] :
                     r \in {"max_output_tokens", "max_messages"}}
      [] proto = "json" -> {}

=============================================================================
