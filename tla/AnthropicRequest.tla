-------------------------- MODULE AnthropicRequest --------------------------
(***************************************************************************)
(* Requests in the Anthropic protocol: what a client's request becomes in  *)
(* the intermediate form, and what is sent to an Anthropic upstream        *)
(* (src/agent/proto/anthropic/codec.go).                                   *)
(***************************************************************************)
EXTENDS Normalize

AnthropicName == "anthropic"

(* a wire block: its own kind, from = "signed" for a thinking block with a   *)
(* signature; a block no case knows stays whole                              *)
AnthropicKnown == [text |-> "text", image |-> "image", document |-> "media",
                   tool_use |-> "tool_use", tool_result |-> "tool_result",
                   thinking |-> "thinking", redacted_thinking |-> "redacted",
                   server_tool_use |-> "server_call",
                   web_search_tool_result |-> "server_result"]

AnthropicSource(b) ==
    CASE b.kind = "thinking" -> IF b.from = "signed" THEN AnthropicName ELSE ""
      [] b.kind = "document" -> "document"
      [] OTHER -> b.from

AnthropicDecodeBlock(b) ==
    IF b.kind \in DOMAIN AnthropicKnown
    THEN [b EXCEPT !.kind = AnthropicKnown[b.kind], !.from = AnthropicSource(b)]
    ELSE Block("opaque", NoId, AnthropicName, b.said)

AnthropicDecodeContent(blocks) ==
    [i \in DOMAIN blocks |->
        [AnthropicDecodeBlock(blocks[i]) EXCEPT
            !.inner = [k \in DOMAIN @ |-> AnthropicDecodeBlock(@[k])]]]

AnthropicDecodeTool(t) ==
    [name |-> t.name, hosted |-> IF t.type \in {"", "custom"} THEN "" ELSE t.type,
     family |-> IF t.type \in {"", "custom"} THEN "" ELSE AnthropicName]

AnthropicDecodeRequest(wire) ==
    [system |-> <<>>, refs |-> 0, thinking |-> wire.thinking, choice |-> wire.choice,
     tools |-> [i \in DOMAIN wire.tools |-> AnthropicDecodeTool(wire.tools[i])],
     messages |-> [i \in DOMAIN wire.sent |->
         Message(wire.sent[i].role, AnthropicDecodeContent(wire.sent[i].content))]]

-----------------------------------------------------------------------------

degradeThinkingUnsigned(b) ==
    IF b.kind = "thinking" /\ b.from = "" THEN Text(b.said) ELSE b

(* a thinking block another family signed, or nobody, is sent as text *)
degradeThinking(b) ==
    IF b.kind = "thinking" /\ ~SignedBy(b, AnthropicName) THEN Text(b.said) ELSE b

encodableBlock(b) ==
    CASE b.kind = "image" -> b.from = "inline"
      [] b.kind \in {"opaque", "item"} -> OpaqueVerbatimFor(b, AnthropicName)
      [] OTHER -> TRUE

(* only documents have a slot, another attachment is described by a text *)
AnthropicEncodeBlock(b) ==
    CASE b.kind = "media" /\ b.from # "document" -> Text(<<Placeholder>>)
      [] b.kind = "refusal" -> Text(b.said)
      [] OTHER -> b

AnthropicEncodeBlocks(blocks) ==
    LET kept == SelectSeq(blocks, encodableBlock)
    IN  [i \in DOMAIN kept |-> AnthropicEncodeBlock(kept[i])]

AnthropicEncodeMessage(m) ==
    LET degraded == [i \in DOMAIN m.content |-> degradeThinking(m.content[i])]
        blocks   == AnthropicEncodeBlocks(degraded)
    IN  [role |-> m.role,
         content |-> IF blocks = <<>> THEN Filler
                     ELSE [i \in DOMAIN blocks |->
                              [blocks[i] EXCEPT !.inner = AnthropicEncodeBlocks(@)]]]

(* the one hosted tool with a counterpart goes under its fixed name, a tool *)
(* of another family without one is left out                                *)
AnthropicEncodeTool(t) ==
    CASE t.hosted = "" \/ t.family = AnthropicName -> <<t.name>>
      [] t.hosted = "web_search" /\ t.family # AnthropicName -> <<"web_search">>
      [] OTHER -> <<>>

(* mode and name are written as they are, whatever the tools are by now *)
AnthropicEncodeChoice(r) == [mode |-> r.choice.mode, name |-> r.choice.name]

AnthropicEncodeRequest(request) ==
    LET r == Normalized(request, TRUE)
    IN  [family |-> AnthropicName, system |-> AnthropicEncodeBlocks(r.system),
         messages |-> [i \in DOMAIN r.messages |-> AnthropicEncodeMessage(r.messages[i])],
         tools |-> Each(AnthropicEncodeTool, r.tools), choice |-> AnthropicEncodeChoice(r)]
=============================================================================
