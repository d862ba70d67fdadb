--------------------------- MODULE GeminiRequest ---------------------------
(***************************************************************************)
(* What a Gemini client's request becomes in the intermediate form: calls  *)
(* and responses that carry no id are paired by name and order, signatures *)
(* may come in a part of their own (src/agent/proto/gemini/codec.go).      *)
(* There is no Gemini upstream.                                            *)
(***************************************************************************)
EXTENDS Normalize

GeminiName == "gemini"

(* a part: its kind, an id or none, in from the function's name or for a     *)
(* thought who signed it ("signed", "dummy" or "")                           *)
GeminiSource(p) == CASE p.from = "signed" -> GeminiName
                     [] p.from = "dummy" -> "synthetic"
                     [] OTHER -> ""

GeminiOther(p) ==
    CASE p.kind = "text" -> Text(p.said)
      [] p.kind = "image" -> Block("image", NoId, "inline", p.said)
      [] p.kind = "document" -> Block("media", NoId, "document", p.said)
      [] OTHER -> Block("opaque", NoId, GeminiName, p.said)

(* the fold's state: the content so far, the synthesised ids, and per        *)
(* function name the ids of the calls no response has taken                  *)
synthID(acc) == <<0, acc.made + 1>>

Waiting(acc, name) == SelectSeq(acc.pending, LAMBDA c : c.name = name)

GeminiCall(acc, p) ==
    LET id == IF p.id = NoId THEN synthID(acc) ELSE p.id
    IN  [acc EXCEPT !.content = Append(@, Block("tool_use", id, "", p.said)),
                    !.made = IF p.id = NoId THEN @ + 1 ELSE @,
                    !.pending = Append(@, [name |-> p.from, id |-> id])]

GeminiResponseKept(acc, p) ==
    LET queue == Waiting(acc, p.from)
        take  == p.id = NoId /\ queue # <<>>
        make  == p.id = NoId /\ queue = <<>>
        id    == CASE take -> Head(queue).id [] make -> synthID(acc) [] OTHER -> p.id
    IN  [acc EXCEPT !.content = Append(@, Result(id, <<Text(p.said)>>)),
                    !.made = IF make THEN @ + 1 ELSE @]

GeminiResponse(acc, p) ==
    LET queue == Waiting(acc, p.from)
        take  == p.id = NoId /\ queue # <<>>
        make  == p.id = NoId /\ queue = <<>>
        id    == CASE take -> Head(queue).id [] make -> synthID(acc) [] OTHER -> p.id
    IN  [acc EXCEPT !.content = Append(@, Result(id, <<Text(p.said)>>)),
                    !.made = IF make THEN @ + 1 ELSE @,
                    !.pending = IF take THEN Remove(@, Head(queue)) ELSE @]

(* a part with a signature and no text signs the unsigned thought before it *)
GeminiThought(acc, p) ==
    LET joins == /\ p.said = <<>> /\ p.from # "" /\ acc.content # <<>>
                 /\ Last(acc.content).kind = "thinking" /\ Last(acc.content).from = ""
    IN  IF joins THEN [acc EXCEPT !.content[Len(acc.content)].from = GeminiSource(p)]
        ELSE [acc EXCEPT !.content =
                 Append(@, Block("thinking", NoId, GeminiSource(p), p.said))]

GeminiPart(acc, p) ==
    CASE p.kind = "functionCall" -> GeminiCall(acc, p)
      [] p.kind = "functionResponse" -> GeminiResponse(acc, p)
      [] p.kind = "thought" -> GeminiThought(acc, p)
      [] OTHER -> [acc EXCEPT !.content = Append(@, GeminiOther(p))]

decodeRole(role) == IF role = "model" THEN "assistant" ELSE "user"

GeminiContent(acc, c) ==
    LET end == FoldLeft(GeminiPart, [acc EXCEPT !.content = <<>>], c.content)
    IN  [end EXCEPT !.messages = Append(@, Message(decodeRole(c.role), end.content))]

GeminiDecodeChoice(c) ==
    CASE c.form = "absent" -> NoChoice
      [] c.form = "any" /\ Cardinality(c.names) = 1 ->
            Choice("tool", CHOOSE n \in c.names : TRUE, c.names)
      [] c.form = "any" /\ Cardinality(c.names) # 1 -> Choice("any", "", c.names)
      [] c.form = "none" -> Choice("none", "", c.names)
      [] OTHER -> Choice("auto", "", c.names)

GeminiDecodeTool(t) ==
    CASE t.type = "" -> [name |-> t.name, hosted |-> "", family |-> ""]
      [] t.type = "google_search" ->
            [name |-> "google_search", hosted |-> "web_search", family |-> GeminiName]
      [] OTHER -> [name |-> t.type, hosted |-> t.type, family |-> GeminiName]

GeminiDecodeRequest(wire) ==
    [system |-> <<>>, refs |-> 0, thinking |-> wire.thinking,
     choice |-> GeminiDecodeChoice(wire.choice),
     tools |-> [i \in DOMAIN wire.tools |-> GeminiDecodeTool(wire.tools[i])],
     messages |-> FoldLeft(GeminiContent,
         [content |-> <<>>, messages |-> <<>>, made |-> 0, pending |-> <<>>],
         wire.sent).messages]
=============================================================================
