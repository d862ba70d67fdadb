----------------------------- MODULE Normalize -----------------------------
(***************************************************************************)
(* The request in its intermediate form (src/agent/ir/types.go) and the    *)
(* passes every encoder runs over its private copy before writing it       *)
(* (src/agent/normalize/normalize.go).  A text, an argument list or an     *)
(* attachment is the sequence "said" of the marks the client put in it;    *)
(* ids are tuples of numbers, the empty tuple being no id.                 *)
(***************************************************************************)
EXTENDS Naturals, Sequences, FiniteSets, SequencesExt

NoId == <<>>
Placeholder == 0

Block(kind, id, from, said) ==
    [kind |-> kind, id |-> id, from |-> from, said |-> said, inner |-> <<>>]
Text(said) == Block("text", NoId, "", said)
Result(id, inner) == [Block("tool_result", id, "", <<>>) EXCEPT !.inner = inner]
Message(role, content) == [role |-> role, content |-> content, audio |-> FALSE]
Filler == <<Text(<<Placeholder>>)>>

Each(Op(_), seq) == FlattenSeq([i \in DOMAIN seq |-> Op(seq[i])])
Those(Test(_), seq) == Each(LAMBDA x : IF Test(x) THEN <<x>> ELSE <<>>, seq)
OfKind(blocks, kinds) == Those(LAMBDA b : b.kind \in kinds, blocks)
Ids(blocks, kind) == {b.id : b \in ToSet(OfKind(blocks, {kind}))}
SaidIn(blocks, kinds) == Each(LAMBDA b : b.said, OfKind(blocks, kinds))

(* a tool choice: its mode, the tool it names, the names it allows; a choice *)
(* nobody but its own family can read has no mode and is kept as it came     *)
Choice(mode, name, allowed) ==
    [mode |-> mode, name |-> name, allowed |-> allowed, raw |-> ""]
NoChoice == Choice("absent", "", {})
RawChoice(type) == [Choice("", "", {}) EXCEPT !.raw = type]

-----------------------------------------------------------------------------
(* the tools the model may see *)

AllowlistApplies(c) == c.allowed # {} /\ c.mode \in {"auto", "any"}

AllowlistNarrow(r) ==
    LET admitted == Those(LAMBDA t : t.hosted # "" \/ t.name \in r.choice.allowed, r.tools)
        matched  == \E i \in DOMAIN r.tools :
                        r.tools[i].hosted = "" /\ r.tools[i].name \in r.choice.allowed
        ok       == AllowlistApplies(r.choice) /\ matched
    IN  [tools |-> IF ok THEN admitted ELSE r.tools, ok |-> ok]

ForcedToolUndeclared(r) ==
    /\ r.choice.mode = "tool" /\ r.choice.name # "" /\ r.tools # <<>>
    /\ \A i \in DOMAIN r.tools : r.tools[i].name # r.choice.name

ToolChoiceWithoutTools(r) ==
    r.tools = <<>> /\ r.choice.mode \in {"any", "tool"}

EnforceToolAllowlist(r) == [r EXCEPT !.tools = AllowlistNarrow(r).tools]

RelaxUndeclaredForcedTool(r) ==
    IF ForcedToolUndeclared(r)
    THEN [r EXCEPT !.choice.mode = "auto", !.choice.name = ""] ELSE r

DropToolChoiceWithoutTools(r) ==
    IF ToolChoiceWithoutTools(r) THEN [r EXCEPT !.choice = NoChoice] ELSE r

-----------------------------------------------------------------------------
(* the messages *)

renderToolUse(b) == Text(b.said)
renderToolResult(b) == Text(SaidIn(b.inner, {"text"}))
mediaOf(blocks) == OfKind(blocks, {"image", "media"})
OpaqueVerbatimFor(b, family) == b.kind \in {"opaque", "item"} /\ b.from = family
SignedBy(b, family) == b.kind = "thinking" /\ b.from = family

AsTextAlone(b) ==
    CASE b.kind = "tool_use" -> <<renderToolUse(b)>>
      [] b.kind = "tool_result" -> <<renderToolResult(b)>>
      [] OTHER -> <<b>>

AsText(b) ==
    CASE b.kind = "tool_use" -> <<renderToolUse(b)>>
      [] b.kind = "tool_result" -> <<renderToolResult(b)>> \o mediaOf(b.inner)
      [] OTHER -> <<b>>

stripToolContent(msgs) ==
    [i \in DOMAIN msgs |-> [msgs[i] EXCEPT !.content = Each(AsText, @)]]

CalledBefore(msgs, i) ==
    UNION {Ids(msgs[j].content, "tool_use") :
               j \in {k \in 1..(i - 1) : msgs[k].role = "assistant"}}

fixOrphanToolResults(msgs) ==
    [i \in DOMAIN msgs |->
        IF msgs[i].role = "assistant" THEN msgs[i]
        ELSE [msgs[i] EXCEPT !.content = Each(LAMBDA b :
                 IF b.kind = "tool_result" /\ b.id \notin CalledBefore(msgs, i)
                 THEN AsText(b) ELSE <<b>>, @)]]

mergeAdjacentSkipped(msgs) == msgs

mergeAdjacent(msgs) ==
    FoldLeft(LAMBDA out, m :
        IF out # <<>> /\ Last(out).role = m.role /\ ~Last(out).audio /\ ~m.audio
        THEN [out EXCEPT ![Len(out)].content = @ \o m.content]
        ELSE Append(out, m), <<>>, msgs)

(* the results message i asks of the message after it and does not get: only *)
(* that message is looked at                                                 *)
MissingResults(msgs, i) ==
    LET followed == i < Len(msgs) /\ msgs[i + 1].role = "user"
        have     == IF followed THEN Ids(msgs[i + 1].content, "tool_result") ELSE {}
        calls    == SelectSeq(msgs[i].content,
                        LAMBDA b : b.kind = "tool_use" /\ b.id \notin have)
    IN  IF msgs[i].role = "assistant"
        THEN [k \in DOMAIN calls |-> Result(calls[k].id, Filler)] ELSE <<>>

requireToolPairing(msgs) ==
    FlattenSeq([i \in DOMAIN msgs |->
        LET answersTo == IF i > 1 /\ msgs[i].role = "user"
                         THEN MissingResults(msgs, i - 1) ELSE <<>>
            alone     == i = Len(msgs) \/ msgs[i + 1].role # "user"
            missing   == IF alone THEN MissingResults(msgs, i) ELSE <<>>
        IN  <<[msgs[i] EXCEPT !.content = answersTo \o @]>>
              \o (IF missing # <<>> THEN <<Message("user", missing)>> ELSE <<>>)])

ensureAlternating(msgs) ==
    FoldLeft(LAMBDA out, m :
        IF out # <<>> /\ Last(out).role = m.role
        THEN out \o <<Message(IF m.role = "user" THEN "assistant" ELSE "user", Filler), m>>
        ELSE Append(out, m), <<>>, msgs)

ensureFirstUser(msgs) ==
    IF msgs = <<>> \/ Head(msgs).role = "user" THEN msgs
    ELSE <<Message("user", Filler)>> \o msgs

HasContent(m) ==
    m.audio \/ \E i \in DOMAIN m.content : m.content[i].kind # "text" \/ m.content[i].said # <<>>

fillEmptyContent(msgs) ==
    [i \in DOMAIN msgs |->
        IF HasContent(msgs[i]) THEN msgs[i] ELSE [msgs[i] EXCEPT !.content = @ \o Filler]]

(* strict: the two passes only the Anthropic encoder leaves switched on *)
Normalized(request, strict) ==
    LET r     == DropToolChoiceWithoutTools(RelaxUndeclaredForcedTool(EnforceToolAllowlist(request)))
        plain == IF r.tools = <<>> THEN stripToolContent(r.messages) ELSE r.messages
        paired == requireToolPairing(mergeAdjacent(fixOrphanToolResults(plain)))
        placed == IF strict THEN ensureFirstUser(ensureAlternating(paired)) ELSE paired
    IN  [r EXCEPT !.messages = fillEmptyContent(placed)]
=============================================================================
