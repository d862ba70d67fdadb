---------------------------- MODULE ChatRequest ----------------------------
(***************************************************************************)
(* Requests in the Chat Completions protocol: what a client's request      *)
(* becomes in the intermediate form, and what is sent to a Chat upstream,  *)
(* whose tool messages are put back behind the calls they answer           *)
(* (src/agent/proto/openaichat/codec.go).                                  *)
(***************************************************************************)
EXTENDS Normalize

ChatName == "openai-chat"

ChatMessage(role, content) ==
    [role |-> role, content |-> content, reasoning |-> <<>>, refusal |-> <<>>,
     calls |-> <<>>, id |-> NoId, audio |-> FALSE, media |-> FALSE]

ChatKnown == [text |-> "text", image_url |-> "image", input_audio |-> "media", file |-> "media"]
ChatSource == [text |-> "", image_url |-> "inline", input_audio |-> "audio", file |-> "document"]

contentBlocks(parts) ==
    [i \in DOMAIN parts |->
        IF parts[i].kind \in DOMAIN ChatKnown
        THEN [parts[i] EXCEPT !.kind = ChatKnown[@], !.from = ChatSource[parts[i].kind]]
        ELSE Block("opaque", NoId, ChatName, parts[i].said)]

ChatSystem(m) == IF m.role = "system" THEN contentBlocks(m.content) ELSE <<>>

ChatDecodeMessage(m) ==
    LET parts == contentBlocks(m.content)
        given(kind, said) == IF said = <<>> THEN <<>> ELSE <<Block(kind, NoId, "", said)>>
    IN  CASE m.role = "system" -> <<>>
          [] m.role = "assistant" ->
                <<[Message("assistant", given("thinking", m.reasoning) \o parts
                                            \o given("refusal", m.refusal) \o m.calls)
                     EXCEPT !.audio = m.audio]>>
          [] m.role = "tool" -> <<Message("user", <<Result(m.id, parts)>>)>>
          [] OTHER -> <<Message("user", parts)>>

ChatDecodeChoice(c) ==
    CASE c.form \in {"auto", "none"} -> Choice(c.form, "", {})
      [] c.form = "required" -> Choice("any", "", {})
      [] c.form = "allowed" -> Choice("auto", "", c.names)
      [] c.form = "allowed_required" -> Choice("any", "", c.names)
      [] c.form = "named" -> Choice("tool", c.name, {})
      [] OTHER -> NoChoice

ChatDecodeRequest(wire) ==
    [system |-> Each(ChatSystem, wire.sent), refs |-> 0, thinking |-> wire.thinking,
     choice |-> ChatDecodeChoice(wire.choice),
     tools |-> [i \in DOMAIN wire.tools |->
                   [name |-> wire.tools[i].name, hosted |-> "", family |-> ""]],
     messages |-> Each(ChatDecodeMessage, wire.sent)]

-----------------------------------------------------------------------------

(* an assistant message has one text, one reasoning, one refusal, a list of  *)
(* calls and no place for anything else                                      *)
ChatAssistant(m) ==
    LET text == SaidIn(m.content, {"text"})
    IN  [ChatMessage("assistant", IF text = <<>> THEN <<>> ELSE <<Text(text)>>) EXCEPT
            !.reasoning = SaidIn(m.content, {"thinking"}),
            !.refusal = SaidIn(m.content, {"refusal"}),
            !.calls = OfKind(m.content, {"tool_use"}), !.audio = m.audio]

(* what a block of a user message adds to the message being built *)
ChatPart(b) ==
    IF \/ b.kind \in {"text", "media"}
       \/ b.kind = "image" /\ b.from = "inline"
       \/ OpaqueVerbatimFor(b, ChatName)
    THEN <<b>> ELSE <<>>

ChatFlush(parts) == IF parts = <<>> THEN <<>> ELSE <<ChatMessage("user", parts)>>

(* a tool message holds text only: the attachments of a result follow it *)
ChatToolReply(b) ==
    LET attached == Each(ChatPart, mediaOf(b.inner))
    IN  <<[ChatMessage("tool", <<Text(SaidIn(b.inner, {"text"}))>>) EXCEPT !.id = b.id]>>
          \o [i \in DOMAIN ChatFlush(attached) |->
                 [ChatFlush(attached)[i] EXCEPT !.media = TRUE]]

ChatUser(m) ==
    LET Take(acc, b) ==
            IF b.kind = "tool_result"
            THEN [out |-> acc.out \o ChatFlush(acc.parts) \o ChatToolReply(b), parts |-> <<>>]
            ELSE [acc EXCEPT !.parts = @ \o ChatPart(b)]
        end == FoldLeft(Take, [out |-> <<>>, parts |-> <<>>], m.content)
        out == end.out \o ChatFlush(end.parts)
    IN  IF out = <<>> THEN <<ChatMessage("user", Filler)>> ELSE out

ChatEncodeMessages(m) == IF m.role = "assistant" THEN <<ChatAssistant(m)>> ELSE ChatUser(m)

-----------------------------------------------------------------------------
(* every call is followed by the first tool message with its id; one nobody *)
(* called for becomes a user text; a second one with the same id goes       *)

FirstReply(msgs, id) ==
    {i \in DOMAIN msgs : /\ msgs[i].role = "tool" /\ msgs[i].id = id
                         /\ \A j \in 1..(i - 1) : msgs[j].role = "tool" => msgs[j].id # id}

MediaAfter(msgs, i) == IF i < Len(msgs) /\ msgs[i + 1].media THEN <<msgs[i + 1]>> ELSE <<>>

Downgraded(m) == ChatMessage("user", m.content)

(* the replies to the calls of one assistant message, in the order of calls *)
Replies(msgs, calls, used) ==
    LET Answer(acc, call) ==
            LET found == FirstReply(msgs, call.id) \ acc.used
                j     == CHOOSE i \in found : TRUE
            IN  IF found = {} THEN acc
                ELSE [used |-> acc.used \cup found, tools |-> Append(acc.tools, msgs[j]),
                      media |-> acc.media \o MediaAfter(msgs, j)]
    IN  FoldLeft(Answer, [used |-> used, tools |-> <<>>, media |-> <<>>], calls)

fixToolOrderTwice(msgs) ==
    LET Place(acc, i) ==
            LET m == msgs[i]
                replies == Replies(msgs, m.calls, acc.used)
            IN  CASE m.role = "tool" -> [acc EXCEPT !.out = Append(@, Downgraded(m))]
                  [] m.media -> acc
                  [] OTHER -> [used |-> replies.used,
                               out |-> Append(acc.out, m) \o replies.tools \o replies.media]
    IN  FoldLeft(Place, [used |-> {}, out |-> <<>>], [i \in DOMAIN msgs |-> i]).out

fixToolOrder(msgs) ==
    LET Place(acc, i) ==
            LET m == msgs[i]
                replies == Replies(msgs, m.calls, acc.used)
            IN  CASE m.role = "tool" ->
                        IF i \in acc.used \/ i \notin FirstReply(msgs, m.id) THEN acc
                        ELSE [used |-> acc.used \cup {i},
                              out |-> Append(acc.out, Downgraded(m)) \o MediaAfter(msgs, i)]
                  [] m.media -> acc
                  [] OTHER -> [used |-> replies.used,
                               out |-> Append(acc.out, m) \o replies.tools \o replies.media]
    IN  FoldLeft(Place, [used |-> {}, out |-> <<>>], [i \in DOMAIN msgs |-> i]).out

ChatEncodeTool(t) == IF t.hosted = "" THEN <<t.name>> ELSE <<>>

(* a choice with no mode of its own has no form here; a forced tool is given *)
(* up while the model thinks                                                 *)
ChatEncodeChoice(r) ==
    CASE r.thinking /\ r.choice.mode \in {"any", "tool"} -> [mode |-> "auto", name |-> ""]
      [] r.choice.mode = "" -> [mode |-> "absent", name |-> ""]
      [] OTHER -> [mode |-> r.choice.mode, name |-> r.choice.name]

ChatEncodeRequest(request) ==
    LET r == Normalized(request, FALSE)
    IN  [family |-> ChatName, system |-> OfKind(r.system, {"text"}),
         messages |-> fixToolOrder(Each(ChatEncodeMessages, r.messages)),
         tools |-> Each(ChatEncodeTool, r.tools), choice |-> ChatEncodeChoice(r)]
=============================================================================
