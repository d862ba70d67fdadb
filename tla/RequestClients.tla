--------------------------- MODULE RequestClients ---------------------------
(***************************************************************************)
(* The requests clients of the four protocols send: a history, one turn    *)
(* after the other, as a client keeps it and cuts it, with the tools and   *)
(* the tool choice of this turn.  None of it is code of the repository;    *)
(* the shapes are the ones its decoders read.                              *)
(*                                                                         *)
(* Part k of turn n carries the mark 10 * n + k, and a call made there has *)
(* the id <<n, k>>.                                                        *)
(***************************************************************************)
EXTENDS Normalize

Part(kind, n, k) == Block(kind, NoId, "", <<10 * n + k>>)
From(part, from) == [part EXCEPT !.from = from]
Called(kind, n, k) == [Part(kind, n, k) EXCEPT !.id = <<n, k>>]
Turn(role, content) == [role |-> role, content |-> content]

(* an id the history does not hold any more *)
Forgotten == <<9, 9>>

-----------------------------------------------------------------------------

AnthropicAnswer(id, n) ==
    [Block("tool_result", id, "", <<>>) EXCEPT
        !.inner = <<Part("text", n, 1), From(Part("image", n, 2), "inline")>>]

AnthropicPlain(n, ids) ==
    {Turn("user", <<Part("text", n, 1)>>), Turn("assistant", <<Part("text", n, 1)>>)}
    \cup {Turn("user", <<AnthropicAnswer(id, n), Part("text", n, 3)>>) : id \in ids}

AnthropicMixed(n, ids) ==
    {Turn("user", <<Part("search_result", n, 1), From(Part("image", n, 2), "inline")>>),
     Turn("assistant", <<From(Part("thinking", n, 1), "signed"), Called("tool_use", n, 2)>>),
     Turn("assistant", <<Part("thinking", n, 1), Called("tool_use", n, 2), Called("tool_use", n, 3)>>),
     Turn("assistant", <<From(Called("server_tool_use", n, 1), "web_search"),
                         [Part("web_search_tool_result", n, 2) EXCEPT !.id = <<n, 1>>],
                         From(Called("server_tool_use", n, 3), "other")>>),
     Turn("user", <<AnthropicAnswer(Forgotten, n), Part("text", n, 3)>>)}
    \cup {Turn("user", <<Result(id, <<Part("search_result", n, 1)>>)>>) : id \in ids}

-----------------------------------------------------------------------------

ChatTurn(role, content) ==
    [role |-> role, content |-> content, reasoning |-> <<>>, refusal |-> <<>>,
     calls |-> <<>>, id |-> NoId, audio |-> FALSE, media |-> FALSE]

ChatReply(n, id) == [ChatTurn("tool", <<Part("text", n, 1)>>) EXCEPT !.id = id]

ChatPlain(n, ids) ==
    {ChatTurn("user", <<Part("text", n, 1)>>), ChatTurn("assistant", <<Part("text", n, 1)>>)}
    \cup {ChatReply(n, id) : id \in ids}

ChatMixed(n, ids) ==
    LET said == ChatTurn("assistant", <<Part("text", n, 1)>>)
        mute == ChatTurn("assistant", <<>>)
    IN  {ChatTurn("system", <<Part("text", n, 1)>>), ChatReply(n, Forgotten),
         ChatTurn("user", <<From(Part("image_url", n, 1), ""), Part("video_url", n, 2),
                            Part("input_audio", n, 3)>>),
         [said EXCEPT !.content = <<Part("video_url", n, 1)>>],
         [mute EXCEPT !.refusal = <<10 * n + 1>>], [mute EXCEPT !.audio = TRUE],
         [said EXCEPT !.reasoning = <<10 * n + 3>>, !.calls = <<Called("tool_use", n, 2)>>],
         [mute EXCEPT !.calls = <<Called("tool_use", n, 1), Called("tool_use", n, 2)>>]}
    \cup {[mute EXCEPT !.calls = <<[Called("tool_use", n, 1) EXCEPT !.id = id]>>] : id \in ids}

-----------------------------------------------------------------------------

ResponsesTurn(type, role, id, content) ==
    [type |-> type, role |-> role, id |-> id, content |-> content, said |-> <<>>, signed |-> FALSE]

ResponsesBare(type, n) ==
    [ResponsesTurn(type, "", <<n, 1>>, <<>>) EXCEPT !.said = <<10 * n + 1>>]
ResponsesReply(n, id) ==
    ResponsesTurn("function_call_output", "", id,
        <<Part("text", n, 1), From(Part("input_image", n, 2), "inline")>>)

ResponsesPlain(n, ids) ==
    {ResponsesTurn("message", "user", NoId, <<Part("text", n, 1)>>),
     ResponsesTurn("message", "assistant", NoId, <<Part("text", n, 1), Part("refusal", n, 2)>>),
     ResponsesBare("function_call", n)}
    \cup {ResponsesReply(n, id) : id \in ids}

ResponsesMixed(n, ids) ==
    LET bare(type) == ResponsesBare(type, n)
        thought(said, signed) == [bare("reasoning") EXCEPT !.said = said, !.signed = signed]
    IN  {ResponsesTurn("message", "user", NoId, <<From(Part("input_image", n, 1), "file")>>),
         ResponsesTurn("message", "user", NoId, <<Part("input_video", n, 1)>>),
         ResponsesReply(n, Forgotten), bare("mcp_call"), bare("item_reference"),
         thought(<<10 * n + 1>>, TRUE), thought(<<10 * n + 1>>, FALSE), thought(<<>>, TRUE),
         [bare("web_search_call") EXCEPT !.content = <<Part("text", n, 2)>>]}

-----------------------------------------------------------------------------
(* two functions, f and g; calls of f carry no id, calls of g do *)

NamelessPart(kind, n, k) == From(Part(kind, n, k), "f")

GeminiPlain(n, ids) ==
    LET answer(id) == From([Part("functionResponse", n, 1) EXCEPT !.id = id], "g")
    IN  {Turn("user", <<Part("text", n, 1)>>), Turn("model", <<Part("text", n, 1)>>),
         Turn("user", <<NamelessPart("functionResponse", n, 1)>>)}
        \cup {Turn("user", <<answer(id)>>) : id \in ids}

GeminiMixed(n, ids) ==
    LET f(kind, k) == NamelessPart(kind, n, k)
        g(k) == From(Called("functionCall", n, k), "g")
    IN  {Turn("user", <<Part("image", n, 1)>>),
         Turn("user", <<f("functionResponse", 1), f("functionResponse", 2)>>),
         Turn("model", <<Part("image", n, 1)>>),
         Turn("model", <<Part("executableCode", n, 1), Part("text", n, 2)>>),
         Turn("model", <<Part("thought", n, 1),
                         [From(Part("thought", n, 2), "signed") EXCEPT !.said = <<>>],
                         f("functionCall", 3)>>),
         Turn("model", <<From(Part("thought", n, 1), "dummy"), f("functionCall", 2),
                         f("functionCall", 3)>>),
         Turn("model", <<g(1)>>)}

-----------------------------------------------------------------------------
(* the ids a history has called with *)

PartsOf(client, turn) ==
    CASE client = "openai-chat" -> turn.content \o turn.calls
      [] client = "openai-responses" ->
            IF turn.type = "function_call" THEN <<Block("tool_use", turn.id, "", turn.said)>> ELSE <<>>
      [] OTHER -> turn.content

CallParts(client, sent) ==
    OfKind(Each(LAMBDA turn : PartsOf(client, turn), sent), {"tool_use", "functionCall"})

IdsOf(client, sent) == Ids(CallParts(client, sent), "tool_use")
                         \cup (Ids(CallParts(client, sent), "functionCall") \ {NoId})

(* the turns a history may go on with, and the ones of special content *)
PlainTurns(client, sent) ==
    LET n == Len(sent) + 1 ids == IdsOf(client, sent)
    IN  CASE client = "anthropic" -> AnthropicPlain(n, ids)
          [] client = "openai-chat" -> ChatPlain(n, ids)
          [] client = "openai-responses" -> ResponsesPlain(n, ids)
          [] OTHER -> GeminiPlain(n, ids)

MixedTurns(client, sent) ==
    LET n == Len(sent) + 1 ids == IdsOf(client, sent)
    IN  CASE client = "anthropic" -> AnthropicMixed(n, ids)
          [] client = "openai-chat" -> ChatMixed(n, ids)
          [] client = "openai-responses" -> ResponsesMixed(n, ids)
          [] OTHER -> GeminiMixed(n, ids)

-----------------------------------------------------------------------------
(* the tools of a turn and what it says about using them *)

Tool(name, type) == [name |-> name, type |-> type]
Functions == <<Tool("f", ""), Tool("g", "")>>
Wish(form, name, names) == [form |-> form, name |-> name, names |-> names]
NoWish == Wish("absent", "", {})

HostedTypes(client) ==
    CASE client = "anthropic" -> {"web_search", "text_editor"}
      [] client = "openai-chat" -> {}
      [] client = "openai-responses" -> {"web_search", "file_search"}
      [] OTHER -> {"google_search", "url_context"}

ToolLists(client) ==
    LET hosted == {Tool(IF client = "anthropic" THEN t ELSE "", t) : t \in HostedTypes(client)}
    IN  {<<>>, Functions} \cup {<<h>> : h \in hosted} \cup {<<h>> \o Functions : h \in hosted}

Wishes(client) ==
    CASE client = "anthropic" ->
            {NoChoice, Choice("auto", "", {}), Choice("any", "", {}), Choice("none", "", {}),
             Choice("tool", "f", {}), Choice("tool", "h", {})}
      [] client = "gemini" ->
            {NoWish, Wish("auto", "", {}), Wish("auto", "", {"f"}), Wish("any", "", {"f"}),
             Wish("any", "", {"f", "h"}), Wish("any", "", {"h"}), Wish("none", "", {})}
      [] OTHER ->
            {NoWish, Wish("auto", "", {}), Wish("none", "", {}), Wish("required", "", {}),
             Wish("allowed", "", {"f", "h"}), Wish("allowed_required", "", {"h"}),
             Wish("named", "g", {}), Wish("named", "h", {})}
            \cup (IF client = "openai-responses" THEN {Wish("typed", "mcp", {})} ELSE {})

NoWishOf(client) == IF client = "anthropic" THEN NoChoice ELSE NoWish
=============================================================================
