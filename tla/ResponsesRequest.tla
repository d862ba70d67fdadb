-------------------------- MODULE ResponsesRequest --------------------------
(***************************************************************************)
(* Requests in the Responses protocol: a flat list of items on the wire,   *)
(* messages of blocks in the intermediate form; a hosted search is one     *)
(* item there and a call and a result here                                 *)
(* (src/agent/proto/openairesponses/codec.go).                             *)
(***************************************************************************)
EXTENDS Normalize

ResponsesName == "openai-responses"

Item(type, role, id, content) ==
    [type |-> type, role |-> role, id |-> id, content |-> content, said |-> <<>>, signed |-> FALSE]

PartKnown == [text |-> "text", refusal |-> "refusal", input_image |-> "image",
              input_file |-> "media", input_audio |-> "media"]
PartSource(p) == CASE p.kind = "input_file" -> "document"
                   [] p.kind = "input_audio" -> "audio"
                   [] OTHER -> p.from

decodeParts(parts) ==
    [i \in DOMAIN parts |->
        IF parts[i].kind \in DOMAIN PartKnown
        THEN [parts[i] EXCEPT !.kind = PartKnown[@], !.from = PartSource(parts[i])]
        ELSE Block("opaque", NoId, ResponsesName, parts[i].said)]

appendAssistantBlock(msgs, b) ==
    IF msgs # <<>> /\ Last(msgs).role = "assistant"
    THEN [msgs EXCEPT ![Len(msgs)].content = Append(@, b)]
    ELSE Append(msgs, Message("assistant", <<b>>))

SystemItem(it) == it.type = "message" /\ it.role = "system"

decodeItem(msgs, it) ==
    LET thought == Block("thinking", NoId, IF it.signed THEN ResponsesName ELSE "", it.said)
        search  == Block("server_call", it.id, "web_search", it.said)
        found   == Block("server_result", it.id, "", SaidIn(it.content, {"text"}))
        adding(b) == appendAssistantBlock(msgs, b)
        saying(role, blocks) == Append(msgs, Message(role, blocks))
    IN  CASE SystemItem(it) \/ it.type = "item_reference" -> msgs
          [] it.type = "message" /\ it.role # "system" -> saying(it.role, decodeParts(it.content))
          [] it.type = "function_call" -> adding(Block("tool_use", it.id, "", it.said))
          [] it.type = "function_call_output" ->
                saying("user", <<Result(it.id, decodeParts(it.content))>>)
          [] it.type = "reasoning" -> IF it.said = <<>> /\ ~it.signed THEN msgs ELSE adding(thought)
          [] it.type = "web_search_call" -> Append(adding(search), Message("user", <<found>>))
          [] OTHER -> adding(Block("item", NoId, ResponsesName, it.said))

ResponsesDecodeChoice(c) ==
    CASE c.form \in {"auto", "none"} -> Choice(c.form, "", {})
      [] c.form = "required" -> Choice("any", "", {})
      [] c.form = "allowed" -> Choice("auto", "", c.names)
      [] c.form = "allowed_required" -> Choice("any", "", c.names)
      [] c.form = "named" -> Choice("tool", c.name, {})
      [] c.form = "typed" -> RawChoice(c.name)
      [] OTHER -> NoChoice

ResponsesDecodeTool(t) ==
    IF t.type = "" THEN [name |-> t.name, hosted |-> "", family |-> ""]
    ELSE [name |-> "", hosted |-> t.type, family |-> ResponsesName]

ResponsesDecodeRequest(wire) ==
    [system |-> Each(LAMBDA it : decodeParts(it.content), SelectSeq(wire.sent, SystemItem)),
     refs |-> Len(SelectSeq(wire.sent, LAMBDA it : it.type = "item_reference")),
     thinking |-> wire.thinking, choice |-> ResponsesDecodeChoice(wire.choice),
     tools |-> [i \in DOMAIN wire.tools |-> ResponsesDecodeTool(wire.tools[i])],
     messages |-> FoldLeft(decodeItem, <<>>, wire.sent)]

-----------------------------------------------------------------------------
(* encoding carries, from message to message, the search results no call     *)
(* has taken yet (left); inside a message, the items written and the parts   *)
(* of the message being built                                                *)

ResultWithId(msgs, id) ==
    LET all == OfKind(Each(LAMBDA m : m.content, msgs), {"server_result"})
    IN  SelectLastInSeq(all, LAMBDA b : b.id = id)

collectWSResults(msgs) == Ids(Each(LAMBDA m : m.content, msgs), "server_result")

SearchFound(msgs, id) ==
    LET all == OfKind(Each(LAMBDA m : m.content, msgs), {"server_result"})
    IN  all[ResultWithId(msgs, id)].said

ResponsesFlush(acc, role) ==
    [acc EXCEPT !.out = @ \o (IF acc.parts = <<>> THEN <<>>
                              ELSE <<Item("message", role, NoId, acc.parts)>>),
                !.parts = <<>>]

Standing(acc, role, item) == [ResponsesFlush(acc, role) EXCEPT !.out = Append(@, item)]

ResponsesAssistantBlock(msgs, acc, b) ==
    LET found == IF b.id \in acc.left THEN <<Text(SearchFound(msgs, b.id))>> ELSE <<>>
        alone(item) == Standing(acc, "assistant", [item EXCEPT !.said = b.said])
    IN  CASE b.kind \in {"text", "refusal"} -> [acc EXCEPT !.parts = Append(@, b)]
          [] b.kind = "opaque" /\ OpaqueVerbatimFor(b, ResponsesName) ->
                [acc EXCEPT !.parts = Append(@, b)]
          [] b.kind = "item" -> alone(Item("item", "", NoId, <<>>))
          [] SignedBy(b, ResponsesName) ->
                alone([Item("reasoning", "", NoId, <<>>) EXCEPT !.signed = TRUE])
          [] b.kind = "thinking" /\ b.from # ResponsesName /\ b.said # <<>> ->
                [acc EXCEPT !.parts = Append(@, Text(b.said))]
          [] b.kind = "tool_use" -> alone(Item("function_call", "", b.id, <<>>))
          [] b.kind = "server_call" /\ b.from = "web_search" ->
                [alone(Item("web_search_call", "", b.id, found)) EXCEPT !.left = @ \ {b.id}]
          [] b.kind = "server_result" -> [acc EXCEPT !.left = @ \ {b.id}]
          [] OTHER -> acc

ResponsesPart(b) ==
    IF b.kind \in {"text", "image", "media"} \/ OpaqueVerbatimFor(b, ResponsesName)
    THEN <<b>> ELSE <<>>

splitToolResultContent(b) ==
    LET attached == Each(ResponsesPart, mediaOf(b.inner))
    IN  <<Item("function_call_output", "", b.id, <<Text(SaidIn(b.inner, {"text"}))>>)>>
          \o (IF attached = <<>> THEN <<>> ELSE <<Item("message", "user", NoId, attached)>>)

ResponsesUserBlock(acc, b) ==
    CASE b.kind = "tool_result" ->
            [ResponsesFlush(acc, "user") EXCEPT !.out = @ \o splitToolResultContent(b)]
      [] b.kind = "server_result" ->
            IF b.id \in acc.left THEN [acc EXCEPT !.left = @ \ {b.id}]
            ELSE [acc EXCEPT !.consumed = @ + 1]
      [] OTHER -> [acc EXCEPT !.parts = @ \o ResponsesPart(b)]

encodeMessageItems(msgs, acc, m) ==
    LET start == [out |-> <<>>, parts |-> <<>>, left |-> acc.left, consumed |-> 0]
        Step(a, b) == IF m.role = "assistant" THEN ResponsesAssistantBlock(msgs, a, b)
                      ELSE ResponsesUserBlock(a, b)
        end   == ResponsesFlush(FoldLeft(Step, start, m.content), m.role)
        items == IF m.role = "user" /\ end.out = <<>> /\ end.consumed = 0
                 THEN <<Item("message", "user", NoId, Filler)>> ELSE end.out
    IN  [items |-> acc.items \o items, left |-> end.left]

ResponsesEncodeTool(t) ==
    CASE t.hosted = "" -> <<t.name>>
      [] t.family = ResponsesName -> <<t.hosted>>
      [] t.hosted = "web_search" /\ t.family \notin {"", ResponsesName} -> <<"web_search">>
      [] OTHER -> <<>>

ResponsesEncodeChoice(r) ==
    CASE r.choice.raw # "" -> [mode |-> "typed", name |-> r.choice.raw]
      [] r.choice.mode = "" /\ r.choice.raw = "" -> [mode |-> "absent", name |-> ""]
      [] OTHER -> [mode |-> r.choice.mode, name |-> r.choice.name]

ResponsesEncodeRequest(request) ==
    LET r == Normalized(request, FALSE)
        Encode(acc, m) == encodeMessageItems(r.messages, acc, m)
    IN  [family |-> ResponsesName, system |-> OfKind(r.system, {"text"}),
         messages |-> FoldLeft(Encode, [items |-> <<>>, left |-> collectWSResults(r.messages)],
                               r.messages).items,
         tools |-> Each(ResponsesEncodeTool, r.tools), choice |-> ResponsesEncodeChoice(r)]
=============================================================================
