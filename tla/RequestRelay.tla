---------------------------- MODULE RequestRelay ----------------------------
(***************************************************************************)
(* A request on its way through the Agent: the client writes it in its own *)
(* protocol, it is decoded once, and every attempt encodes it again for    *)
(* the protocol of the account it goes to, under the overrides of that     *)
(* account, and notes what this protocol cannot carry                      *)
(* (src/agent/relay/forward.go, src/agent/relay/diagnose.go).              *)
(***************************************************************************)
EXTENDS AnthropicRequest, ChatRequest, ResponsesRequest, GeminiRequest, RequestClients

CONSTANTS
    MaxTurns,     \* bound: turns of a history
    MaxMixed,     \* bound: turns of a history that may be of any kind
    MaxWished     \* bound: turns of a history sent with every tool list and choice

ASSUME BoundsAssumption == MaxTurns \in Nat \ {0} /\ MaxMixed \in Nat /\ MaxWished \in Nat

VARIABLES
    wire,      \* what the client sends: protocol, history, tools, choice, thinking
    request,   \* the decoded request, NoRequest before
    attempt    \* the last attempt: the body sent and the notes, NoAttempt before

vars == <<wire, request, attempt>>

Clients == {AnthropicName, ChatName, ResponsesName, GeminiName}
Targets == {AnthropicName, ChatName, ResponsesName}
NoRequest == [none |-> TRUE]
NoAttempt == [none |-> TRUE]

-----------------------------------------------------------------------------

DecodeRequest(w) ==
    CASE w.client = AnthropicName -> AnthropicDecodeRequest(w)
      [] w.client = ChatName -> ChatDecodeRequest(w)
      [] w.client = ResponsesName -> ResponsesDecodeRequest(w)
      [] OTHER -> GeminiDecodeRequest(w)

EncodeRequest(r, target) ==
    CASE target = AnthropicName -> AnthropicEncodeRequest(r)
      [] target = ChatName -> ChatEncodeRequest(r)
      [] OTHER -> ResponsesEncodeRequest(r)

(* an account may force thinking on, whatever the client asked *)
Overridden(r, forced) == IF forced THEN [r EXCEPT !.thinking = TRUE] ELSE r

-----------------------------------------------------------------------------
(* what is said of an attempt *)

Blocks(r) == Each(LAMBDA m : m.content, r.messages)
Attached(r) == OfKind(Blocks(r), {"image", "media"})
                 \o Each(LAMBDA b : mediaOf(b.inner), OfKind(Blocks(r), {"tool_result"}))
CountOf(blocks, Test(_)) == Len(Those(Test, blocks))

SearchCallsBefore(blocks, i) ==
    {blocks[j].id : j \in {k \in 1..i : blocks[k].kind = "server_call" /\ blocks[k].from = "web_search"}}

ServerToolMappable(blocks, i, target) ==
    CASE target = AnthropicName -> TRUE
      [] target = ResponsesName /\ blocks[i].kind = "server_call" -> blocks[i].from = "web_search"
      [] target = ResponsesName /\ blocks[i].kind = "server_result" ->
            blocks[i].id \in SearchCallsBefore(blocks, i)
      [] OTHER -> FALSE

UnmappableServerBlocks(blocks, target) ==
    {i \in DOMAIN blocks : /\ blocks[i].kind \in {"server_call", "server_result"}
                           /\ ~ServerToolMappable(blocks, i, target)}

ChoiceNotes(r, target) ==
    IF ToolChoiceWithoutTools(r) THEN {"dropped"}
    ELSE (IF r.choice.raw # "" /\ target # ResponsesName THEN {"dropped"} ELSE {})
    \cup (IF AllowlistApplies(r.choice) /\ ~AllowlistNarrow(r).ok THEN {"allowlist"} ELSE {})
    \cup (IF \/ ForcedToolUndeclared(r)
             \/ r.thinking /\ r.choice.mode \in {"any", "tool"} /\ target = ChatName
          THEN {"relaxed"} ELSE {})

DroppedTools(r, target) ==
    {i \in DOMAIN r.tools :
        /\ r.tools[i].hosted # ""
        /\ \/ target = ChatName
           \/ r.tools[i].hosted # "web_search" /\ r.tools[i].family # target}

Diagnose(r, target) ==
    LET all == Blocks(r)
    IN  [signatures |-> CountOf(all, LAMBDA b : b.kind = "thinking" /\ b.from \notin {"", target}),
         images |-> CountOf(Attached(r), LAMBDA b :
                        b.kind = "image" /\ b.from = "file" /\ target # ResponsesName),
         media |-> CountOf(Attached(r), LAMBDA b :
                        b.kind = "media" /\ b.from # "document" /\ target = AnthropicName),
         opaque |-> CountOf(all, LAMBDA b :
                        b.kind \in {"opaque", "item"} /\ ~OpaqueVerbatimFor(b, target)),
         server |-> Cardinality(UnmappableServerBlocks(all, target)),
         references |-> r.refs,
         tools |-> Cardinality(DroppedTools(r, target)),
         choice |-> ChoiceNotes(r, target)]

-----------------------------------------------------------------------------

Init ==
    /\ wire \in {[client |-> c, sent |-> <<>>, tools |-> Functions, choice |-> NoWishOf(c),
                  thinking |-> FALSE] : c \in Clients}
    /\ request = NoRequest /\ attempt = NoAttempt

(* the history grows by a turn of the model or of the client *)
Continue ==
    /\ request = NoRequest /\ Len(wire.sent) < MaxTurns
    /\ \E turn \in PlainTurns(wire.client, wire.sent)
                    \cup (IF Len(wire.sent) < MaxMixed
                          THEN MixedTurns(wire.client, wire.sent) ELSE {}) :
          wire' = [wire EXCEPT !.sent = Append(@, turn)]
    /\ UNCHANGED <<request, attempt>>

(* short histories are sent with every tool list, choice and thinking switch, *)
(* the others with two functions, the shorter of those also with none          *)
Send ==
    /\ request = NoRequest /\ wire.sent # <<>>
    /\ \E tools \in ToolLists(wire.client), choice \in Wishes(wire.client), thinking \in BOOLEAN :
          /\ \/ Len(wire.sent) <= MaxWished
             \/ /\ tools \in (IF Len(wire.sent) <= MaxMixed THEN {<<>>, Functions} ELSE {Functions})
                /\ choice = NoWishOf(wire.client) /\ ~thinking
          /\ wire' = [wire EXCEPT !.tools = tools, !.choice = choice, !.thinking = thinking]
          /\ request' = DecodeRequest(wire')
    /\ UNCHANGED attempt

(* each attempt works on a copy of the decoded request, so the next one, to   *)
(* whichever account, finds it as the client wrote it                         *)
AttemptOnShared(target, forced) ==
    /\ request # NoRequest
    /\ forced => Len(wire.sent) <= MaxWished
    /\ attempt' = [body |-> EncodeRequest(Overridden(request, forced), target),
                   notes |-> Diagnose(request, target), forced |-> forced]
    /\ request' = Normalized(request, FALSE)
    /\ UNCHANGED wire

AttemptOn(target, forced) ==
    /\ request # NoRequest
    /\ forced => Len(wire.sent) <= MaxWished
    /\ attempt' = [body |-> EncodeRequest(Overridden(request, forced), target),
                   notes |-> Diagnose(request, target), forced |-> forced]
    /\ UNCHANGED <<wire, request>>

Attempt == \E target \in Targets, forced \in BOOLEAN : AttemptOn(target, forced)

Next == Continue \/ Send \/ Attempt

Spec == Init /\ [][Next]_vars

-----------------------------------------------------------------------------
(* Both ends as one list of entries, in the order they are written: what     *)
(* kind of thing is said, under which id, and in which message.              *)

Entry(kind, id, said, turn) == [kind |-> kind, id |-> id, said |-> said, turn |-> turn]

Numbered(seq, Entries(_, _)) == FlattenSeq([i \in DOMAIN seq |-> Entries(seq[i], i)])

EntryKind(kind) ==
    CASE kind \in {"image_url", "input_image", "image"} -> "image"
      [] kind \in {"tool_use", "functionCall", "function_call"} -> "call"
      [] kind \in {"tool_result", "functionResponse"} -> "result"
      [] kind \in {"server_tool_use", "server_call", "web_search_call"} -> "server"
      [] kind \in {"web_search_tool_result", "server_result"} -> "server"
      [] kind \in {"thinking", "thought", "reasoning"} -> "thinking"
      [] kind \in {"search_result", "video_url", "input_video", "executableCode",
                   "mcp_call", "item", "opaque"} -> "opaque"
      [] kind \in {"input_audio", "media"} -> "media"
      [] OTHER -> kind

BlockEntries(b, turn) ==
    <<Entry(EntryKind(b.kind), b.id, b.said, turn)>>
      \o [k \in DOMAIN b.inner |-> Entry(
            IF EntryKind(b.inner[k].kind) = "text" THEN "result" ELSE EntryKind(b.inner[k].kind),
            b.id, b.inner[k].said, turn)]

ContentEntries(m, turn) == Each(LAMBDA b : BlockEntries(b, turn), m.content)

ChatEntries(m, turn) ==
    LET own == <<Entry("thinking", NoId, m.reasoning, turn)>> \o ContentEntries(m, turn)
                 \o <<Entry("refusal", NoId, m.refusal, turn)>>
                 \o Each(LAMBDA b : BlockEntries(b, turn), m.calls)
        renamed(kind) == [k \in DOMAIN own |->
            IF own[k].kind = "text" THEN [own[k] EXCEPT !.kind = kind, !.id = m.id] ELSE own[k]]
    IN  CASE m.role = "tool" -> <<Entry("result", m.id, <<>>, turn)>> \o renamed("result")
          [] m.role = "system" -> renamed("system")
          [] OTHER -> own

ItemEntries(it, turn) ==
    LET parts == Each(LAMBDA b : BlockEntries(b, turn), it.content)
        within(kind) == [k \in DOMAIN parts |->
            IF parts[k].kind = "text" THEN [parts[k] EXCEPT !.kind = kind, !.id = it.id] ELSE parts[k]]
    IN  CASE it.type = "message" -> parts
          [] it.type = "function_call_output" -> <<Entry("result", it.id, <<>>, turn)>> \o within("result")
          [] it.type = "web_search_call" ->
                <<Entry("server", it.id, it.said, turn)>> \o within("server")
          [] OTHER -> <<Entry(EntryKind(it.type), it.id, it.said, turn)>> \o parts

Entries(family, messages) ==
    CASE family = ChatName -> Numbered(messages, ChatEntries)
      [] family = ResponsesName -> Numbered(messages, ItemEntries)
      [] OTHER -> Numbered(messages, ContentEntries)

Sent == Entries(wire.client, wire.sent)
Written == Entries(attempt.body.family, attempt.body.messages)

Spoken(entries, kinds) ==
    Each(LAMBDA e : e.said, SelectSeq(entries, LAMBDA e : e.kind \in kinds))
SystemSaid == Each(LAMBDA b : b.said, attempt.body.system)
Arrived == ToSet(Spoken(Written, {e.kind : e \in ToSet(Written)})) \cup ToSet(SystemSaid)
Lost(kinds) == ToSet(Spoken(Sent, kinds)) \ Arrived

-----------------------------------------------------------------------------
(* What a history asks for, told from the client's side. *)

Of(kind) == SelectSeq(Sent, LAMBDA e : e.kind = kind /\ e.said # <<>>)
CallsMade == Of("call")
ResultsGiven ==
    Numbered(wire.sent, LAMBDA turn, n :
        CASE wire.client = ResponsesName ->
                IF turn.type = "function_call_output"
                THEN <<Entry("result", turn.id, SaidIn(turn.content, {"text"}), n)>> ELSE <<>>
          [] wire.client = ChatName ->
                IF turn.role = "tool"
                THEN <<Entry("result", turn.id, SaidIn(turn.content, {"text"}), n)>> ELSE <<>>
          [] OTHER -> Each(LAMBDA b : <<Entry("result", b.id, b.said \o SaidIn(b.inner, {"text"}), n)>>,
                           OfKind(turn.content, {"tool_result", "functionResponse"})))
Nameless(entries) == SelectSeq(entries, LAMBDA e : e.id = NoId)

(* the result q answers the call c: it carries its id, or both carry none and *)
(* stand at the same place among those                                        *)
Answers(q, c) ==
    \/ q.id = c.id /\ q.id # NoId /\ c.turn < q.turn
    \/ \E k \in DOMAIN Nameless(CallsMade) \cap DOMAIN Nameless(ResultsGiven) :
          Nameless(CallsMade)[k] = c /\ Nameless(ResultsGiven)[k] = q

(* no two calls share an id *)
IdsDiffer ==
    \A i, j \in DOMAIN CallsMade : CallsMade[i].id = CallsMade[j].id => i = j \/ CallsMade[i].id = NoId

SpeaksForTheModel(turn) ==
    CASE wire.client = ResponsesName ->
            \/ turn.role = "assistant"
            \/ turn.type \in {"function_call", "reasoning", "mcp_call", "web_search_call"}
      [] OTHER -> turn.role \in {"assistant", "model"}
SpeaksForTheUser(turn) ==
    IF wire.client = ResponsesName
    THEN turn.role = "user" \/ turn.type \in {"function_call_output", "web_search_call"}
    ELSE turn.role \in {"user", "tool"}

(* the model has spoken again between the call and its result, after a turn *)
(* of the user or by a voice message, which no other is merged with          *)
Late(q, c) ==
    \/ \E u \in (c.turn + 1)..(q.turn - 1) :
          /\ SpeaksForTheUser(wire.sent[u])
          /\ \E a \in u..(q.turn - 1) : a # u /\ SpeaksForTheModel(wire.sent[a])
    \/ \E a \in (c.turn + 1)..(q.turn - 1) : wire.client = ChatName /\ wire.sent[a].audio

(* no call shares its id, and a result that answers a call of the history is *)
(* the only one to do so and comes before the model speaks again             *)
Orderly ==
    /\ IdsDiffer
    /\ \A i \in DOMAIN ResultsGiven : \A k \in DOMAIN CallsMade :
          LET q == ResultsGiven[i] c == CallsMade[k]
          IN  Answers(q, c) =>
                /\ c.turn < q.turn /\ ~Late(q, c)
                /\ \A j \in DOMAIN ResultsGiven : Answers(ResultsGiven[j], c) => j = i

-----------------------------------------------------------------------------
(* Properties of every attempt *)

Tried == attempt # NoAttempt
Target == attempt.body.family

(* Every text of the history is in the body exactly once and in its order,    *)
(* the system texts apart, and nothing else is there twice, whatever is       *)
(* stripped, merged, paired and moved on the way                              *)
(* (normalize.go:67, openaichat/codec.go:835).                                *)
SaidOnceInOrder ==
    LET texts    == Spoken(Sent, {"text"})
        everything == Spoken(Written, {e.kind : e \in ToSet(Written)})
        real(marks) == SelectSeq(marks, LAMBDA x : x # Placeholder)
    IN  Tried =>
            /\ SelectSeq(Spoken(Written, {"text"}), LAMBDA x : x \in ToSet(texts)) = texts
            /\ SystemSaid = Spoken(Sent, {"system"})
            /\ IsInjective(real(everything))

(* What the client said and the body does not hold is what the notes count,   *)
(* kind by kind, and nothing is noted that did arrive.  A part of another     *)
(* family inside a tool result, and one that is neither text nor a call in a  *)
(* turn of the model, are lost without a note and left out here               *)
(* (diagnose.go:94, openaichat/codec.go:698).                                 *)
Unnoted ==
    LET inResults(e) == \E q \in ToSet(Sent) :
                           q.kind = "result" /\ q.turn = e.turn /\ q.id = e.id /\ e.id # NoId
        byTheModel(e) == SpeaksForTheModel(wire.sent[e.turn]) /\ wire.sent[e.turn].role # ""
        quiet(e) == \/ e.kind = "opaque" /\ inResults(e)
                    \/ e.kind = "opaque" /\ byTheModel(e) /\ wire.client = ChatName /\ Target = ChatName
                    \/ e.kind = "image" /\ byTheModel(e) /\ Target # AnthropicName
    IN  UNION {ToSet(e.said) : e \in {x \in ToSet(Sent) : quiet(x)}}

LossesAreNoted ==
    LET lost(kind) == Cardinality(Lost({kind}) \ Unnoted)
    IN  Tried /\ Orderly =>
            /\ lost("image") = attempt.notes.images
            /\ lost("media") = attempt.notes.media
            /\ lost("opaque") = attempt.notes.opaque
            /\ lost("server") = attempt.notes.server
            /\ lost("item_reference") = attempt.notes.references
            /\ Lost({"text", "refusal", "thinking", "call", "result"}) = {}

(* Every call in the body is answered where its protocol demands it: in the   *)
(* next message, by the tool messages right behind it in the order of the     *)
(* calls, or by some later item; and nothing there answers a call the body    *)
(* does not hold (normalize.go:284, openaichat/codec.go:835).                 *)
AnthropicPaired(msgs) ==
    \A i \in DOMAIN msgs :
        /\ Ids(msgs[i].content, "tool_use") # {} =>
              i < Len(msgs) /\ Ids(msgs[i].content, "tool_use") \subseteq
                                  Ids(msgs[i + 1].content, "tool_result")
        /\ Orderly /\ Ids(msgs[i].content, "tool_result") # {} =>
              i > 1 /\ Ids(msgs[i].content, "tool_result") \subseteq
                          Ids(msgs[i - 1].content, "tool_use")

ChatPaired(msgs) ==
    /\ \A i \in DOMAIN msgs : \A k \in DOMAIN msgs[i].calls :
          /\ i + k <= Len(msgs)
          /\ msgs[i + k].role = "tool" /\ msgs[i + k].id = msgs[i].calls[k].id
    /\ \A j \in DOMAIN msgs : msgs[j].role = "tool" =>
          \E i \in 1..(j - 1) : j - i \in DOMAIN msgs[i].calls

ResponsesPaired(items) ==
    LET at(type, id) == {i \in DOMAIN items : items[i].type = type /\ items[i].id = id}
    IN  \A i \in DOMAIN items :
          /\ items[i].type = "function_call" =>
                \E j \in at("function_call_output", items[i].id) : j > i
          /\ items[i].type = "function_call_output" =>
                \E j \in at("function_call", items[i].id) : j < i

CallsAreAnswered ==
    Tried /\ IdsDiffer =>
        CASE Target = AnthropicName -> AnthropicPaired(attempt.body.messages)
          [] Target = ChatName -> ChatPaired(attempt.body.messages)
          [] OTHER -> ResponsesPaired(attempt.body.messages)

(* What a tool returned arrives as the result of the call it was returned     *)
(* for, under whatever id that call now has, though Gemini calls may carry no *)
(* id and are paired by name and order (gemini/codec.go:172).                 *)
ResultsReachTheirCall ==
    Tried /\ Orderly /\ wire.tools # <<>> =>
        \A q \in ToSet(ResultsGiven), c \in ToSet(CallsMade) : Answers(q, c) =>
            \E e, f \in ToSet(Written) :
                /\ e.kind = "result" /\ ToSet(q.said) \subseteq ToSet(e.said)
                /\ f.kind = "call" /\ f.said = c.said /\ e.id = f.id

(* A signature goes to no upstream but one of the protocol that issued it,    *)
(* where all of them go; the notes count the others (codec.go:489,            *)
(* diagnose.go:164).                                                          *)
SignedSent ==
    IF wire.client = ResponsesName
    THEN Len(SelectSeq(wire.sent, LAMBDA turn : turn.signed))
    ELSE CountOf(Each(LAMBDA turn : turn.content, wire.sent), LAMBDA b :
             b.kind \in {"thinking", "thought"} /\ b.from \in {"signed", "dummy"})

SignedWritten ==
    CASE Target = AnthropicName ->
            CountOf(Each(LAMBDA m : m.content, attempt.body.messages),
                    LAMBDA b : b.kind = "thinking")
      [] Target = ResponsesName -> Len(SelectSeq(attempt.body.messages, LAMBDA it : it.signed))
      [] OTHER -> 0

SignaturesStayHome ==
    Tried => /\ SignedWritten = IF wire.client = Target THEN SignedSent ELSE 0
             /\ attempt.notes.signatures = SignedSent - SignedWritten

(* The upstream is asked for the choice of tools the client made, among the   *)
(* tools it allows, and where it is not a note says so; an override that      *)
(* forces thinking on is not known to the notes of a Chat attempt             *)
(* (diagnose.go:376, types.go:574, types.go:612).                             *)
ChoiceHonouredOrNoted ==
    LET wanted == DecodeRequest(wire).choice
        asked  == attempt.body.choice
        noted  == attempt.notes.choice
    IN  Tried /\ ~(attempt.forced /\ Target = ChatName) =>
            /\ noted \cap {"dropped", "relaxed"} = {} <=>
                  asked = IF wanted.raw # "" THEN [mode |-> "typed", name |-> wanted.raw]
                          ELSE [mode |-> wanted.mode, name |-> wanted.name]
            /\ AllowlistApplies(wanted) /\ "allowlist" \notin noted =>
                  \A t \in ToSet(wire.tools) :
                      t.name \in ToSet(attempt.body.tools) /\ t.type = "" => t.name \in wanted.allowed

(* A body that makes the model use a tool has one, unless all the client      *)
(* declared were hosted ones and left out for this upstream, which is not     *)
(* looked at when the choice is; one that names a tool has that tool; and a   *)
(* choice that is sent has a mode, unless it is the typed one of a Responses  *)
(* client, which goes to Anthropic as an empty type (types.go:641,            *)
(* anthropic/codec.go:595).                                                   *)
OnlyHostedOnesLeftOut ==
    attempt.notes.tools > 0 /\ \A t \in ToSet(wire.tools) : t.type # ""

EmptiedChoice == Target = AnthropicName /\ DecodeRequest(wire).choice.raw # ""

ChoiceCanBeMet ==
    LET choice == attempt.body.choice
        tools  == ToSet(attempt.body.tools)
    IN  Tried =>
            /\ choice.mode = "any" => tools # {} \/ OnlyHostedOnesLeftOut
            /\ choice.mode = "tool" => choice.name \in tools
            /\ choice.mode = "" => EmptiedChoice

(* An Anthropic body begins with the user, the two take turns and each says   *)
(* something, whatever the history was cut down to (normalize.go:348,         *)
(* normalize.go:367, normalize.go:378).  Thinking kept as a signature only is *)
(* the text left when it cannot go.                                           *)
TurnsAlternate ==
    LET msgs == attempt.body.messages
        blank(b) == b.kind = "text" /\ b.said = <<>>
        unsaid == \E i \in DOMAIN wire.sent : wire.client = ResponsesName
                      /\ wire.sent[i].signed /\ wire.sent[i].said = <<>>
    IN  Tried /\ Target = AnthropicName =>
            /\ msgs # <<>> => msgs[1].role = "user"
            /\ \A i \in DOMAIN msgs :
                  /\ i > 1 => msgs[i].role # msgs[i - 1].role
                  /\ \E b \in ToSet(msgs[i].content) : ~blank(b) \/ unsaid

(* The body is one its upstream accepts, but for the two things ChoiceCanBeMet *)
(* names.                                                                      *)
AcceptableToTheTarget == CallsAreAnswered /\ TurnsAlternate /\ ChoiceCanBeMet

-----------------------------------------------------------------------------
(* A typed choice is left out of a body that has no form for it ("the other   *)
(* three families leave tool_choice out", types.go:541, diagnose.go:384).     *)
TypedChoiceIsLeftOut ==
    Tried /\ Target # ResponsesName /\ DecodeRequest(wire).choice.raw # "" =>
        attempt.body.choice.mode = "absent"

(* The tool message put back beside its call is the one the client sent, even *)
(* if the model spoke in between ("replies that can be saved are moved beside *)
(* the governing assistant", openaichat/codec.go:829).                        *)
LateResultsAreSaved ==
    Tried /\ wire.client = ChatName /\ Target = ChatName /\ IdsDiffer
          /\ Len(ResultsGiven) = 1 =>
        Lost({"result"}) = {}
=============================================================================
