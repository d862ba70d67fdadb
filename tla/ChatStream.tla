----------------------------- MODULE ChatStream -----------------------------
(***************************************************************************)
(* The stream decoder and encoder of the OpenAI Chat Completions protocol  *)
(* (agent/proto/openaichat).  An upstream chunk is a record: "done" for    *)
(* [DONE], "error", or "chunk" with the delta of the primary choice        *)
(* ("extra" says whether other choices come with it).                      *)
(***************************************************************************)
EXTENDS StreamEvents

MapFinishReason(s) ==
    CASE s = "length" -> "max_tokens"
      [] s = "tool_calls" -> "tool_use"
      [] s = "content_filter" -> "refusal"
      [] OTHER -> "end_turn"
UnmapFinishReason(s) ==
    CASE s = "tool_use" -> "tool_calls"
      [] s = "refusal" -> "content_filter"
      [] s \in Incomplete \cup {"max_messages"} -> "length"
      [] OTHER -> "stop"

----------------------------------------------------------------------------
(* Decoder.  The protocol has no blocks: they are opened when a kind of    *)
(* content first appears.  A call is kept by its slot until both its id    *)
(* and its name are known; its block's index is taken when it first shows. *)

PendingTool(at) == [blockIdx |-> at, id |-> Unset, name |-> FALSE, started |-> FALSE, pendingArgs |-> <<>>]

NewStreamDecoder ==
    [started |-> FALSE, nextBlock |-> 0,
     textIdx |-> Unset, thinkIdx |-> Unset, refusalIdx |-> Unset,
     openBlocks |-> <<>>, tools |-> EmptyMap, finishReason |-> "", gotFinish |-> FALSE,
     sawError |-> FALSE, noted |-> {}, out |-> <<>>]

(* The block is announced with its type only, so one of reasoning has no   *)
(* record to hold it.                                                      *)
OpenBlock(d, slot, kind) ==
    Emit([d EXCEPT ![slot] = d.nextBlock, !.nextBlock = @ + 1, !.openBlocks = Append(@, d.nextBlock)],
         EvBlockStart(d.nextBlock, [Block(kind, Unset) EXCEPT !.payload = (kind # "thinking")]))
DropOpen(d, i) == [d EXCEPT !.openBlocks = SelectSeq(@, LAMBDA j : j # i)]
CloseBlock(d, i) == Emit(DropOpen(d, i), EvBlockStop(i))
CloseSlot(d, slot) ==
    IF d[slot] = Unset THEN d ELSE [CloseBlock(d, d[slot]) EXCEPT ![slot] = Unset]
Ensure(d, slot, kind) == IF d[slot] = Unset THEN OpenBlock(d, slot, kind) ELSE d

StartTool(d, slot) ==
    LET t == d.tools[slot]
    IN EmitAll(Emit([d EXCEPT !.tools[slot].started = TRUE, !.tools[slot].pendingArgs = <<>>],
                    EvBlockStart(t.blockIdx, Block("tool", t.id))),
               [k \in DOMAIN t.pendingArgs |-> EvToolInput(t.blockIdx, t.pendingArgs[k])])

(* Mutant: the next call in a slot is taken for more of the former one.    *)
ReuseSlotGlued(d, tc) == d

(* A slot that comes back with another id is the next call: the former     *)
(* call's block ends, or is given up if it never started.                  *)
ReuseSlot(d, tc) ==
    IF ~Has(d.tools, tc.slot) \/ tc.id = Unset \/ d.tools[tc.slot].id \in {Unset, tc.id} THEN d
    ELSE LET t == d.tools[tc.slot]
             freed == [d EXCEPT !.tools = Drop(@, tc.slot)]
         IN IF t.started THEN CloseBlock(freed, t.blockIdx) ELSE DropOpen(freed, t.blockIdx)

NewSlot(d, tc) ==
    IF Has(d.tools, tc.slot) THEN d
    ELSE [d EXCEPT !.tools = Put(@, tc.slot, PendingTool(d.nextBlock)),
                   !.nextBlock = @ + 1, !.openBlocks = Append(@, d.nextBlock)]

FeedToolCall(d0, tc) ==
    LET d1 == CloseSlot(CloseSlot(d0, "textIdx"), "thinkIdx")
        d2 == NewSlot(ReuseSlot(d1, tc), tc)
        d3 == [d2 EXCEPT !.tools[tc.slot].id = IF tc.id = Unset THEN @ ELSE tc.id,
                         !.tools[tc.slot].name = @ \/ tc.name]
        t == d3.tools[tc.slot]
        d4 == IF ~t.started /\ t.id # Unset /\ t.name THEN StartTool(d3, tc.slot) ELSE d3
    IN IF tc.args = Unset THEN d4
       ELSE IF d4.tools[tc.slot].started THEN Emit(d4, EvToolInput(t.blockIdx, tc.args))
       ELSE [d4 EXCEPT !.tools[tc.slot].pendingArgs = Append(@, tc.args)]

(* One delta: reasoning, refusal, text (which ends the reasoning), calls.  *)
FeedDelta(d, delta) ==
    CASE delta.kind = "thinking" ->
           LET d1 == Ensure(d, "thinkIdx", "thinking")
           IN Emit(d1, EvThinkingDelta(d1.thinkIdx, delta.x))
      [] delta.kind = "refusal" ->
           LET d1 == Ensure(d, "refusalIdx", "refusal")
           IN Emit(d1, EvTextDelta(d1.refusalIdx, delta.x))
      [] delta.kind = "text" ->
           LET d1 == Ensure(CloseSlot(d, "thinkIdx"), "textIdx", "text")
           IN Emit(d1, EvTextDelta(d1.textIdx, delta.x))
      [] delta.kind = "tool" -> FeedToolCall(d, delta)
      [] OTHER -> d

(* An error chunk is recognised before the stream counts as started, or a  *)
(* refused request would read as an empty answer.                          *)
Feed(d0, c) ==
    LET d == Quiet(d0)
    IN CASE c.type = "done" -> d
         [] c.type = "error" -> Emit([d EXCEPT !.sawError = TRUE], EvError)
         [] c.type = "chunk" ->
              LET d1 == IF d.started THEN d ELSE Emit([d EXCEPT !.started = TRUE], EvMessageStart)
                  d2 == IF c.extra THEN Note(d1, "choices") ELSE d1
                  d3 == FeedDelta(d2, c.delta)
              IN IF c.finish = "" THEN d3
                 ELSE [d3 EXCEPT !.gotFinish = TRUE, !.finishReason = c.finish]

(* A call that never got an id but has a name is kept under a made-up id;  *)
(* one without a name cannot be restored and is counted.                   *)
SynthId(at) == 100 + at

Settle(d, slot) ==
    IF ~d.tools[slot].name
    THEN Note(DropOpen(d, d.tools[slot].blockIdx), "lost call")
    ELSE StartTool(Note([d EXCEPT !.tools[slot].id = SynthId(d.tools[slot].blockIdx)], "made-up id"), slot)

DecoderFinish(d0) ==
    IF ~d0.started THEN Quiet(d0)
    ELSE LET late == {s \in DOMAIN d0.tools : ~d0.tools[s].started}
             byBlock == SetToSortSeq(late, LAMBDA s, t : d0.tools[s].blockIdx < d0.tools[t].blockIdx)
             d1 == FoldLeft(Settle, Quiet(d0), byBlock)
             d2 == EmitAll([d1 EXCEPT !.openBlocks = <<>>],
                           [k \in DOMAIN d1.openBlocks |-> EvBlockStop(d1.openBlocks[k])])
             stop == IF d2.gotFinish THEN MapFinishReason(d2.finishReason) ELSE "aborted"
         IN IF d2.sawError THEN d2 ELSE EmitAll(d2, <<EvMessageDelta(stop), EvMessageStop>>)

----------------------------------------------------------------------------
(* Encoder.                                                                *)

(* toolIdx is the dense index of a call among calls; skipped blocks are    *)
(* those the protocol has no form for.                                     *)
NewStreamEncoder ==
    [toolIdx |-> EmptyMap, toolArgs |-> EmptyMap, custom |-> {}, skipIdx |-> {}, refusalIdx |-> {},
     nextTool |-> 0, stopped |-> FALSE, failed |-> FALSE, noted |-> {}, out |-> <<>>]

(* The error frame carries its own [DONE].                                 *)
RenderStreamError == <<Frame("error"), Frame("end")>>

StartBlock(e, i, b) ==
    CASE b.kind = "tool" ->
           LET e1 == [e EXCEPT !.toolIdx = Put(@, i, e.nextTool), !.nextTool = @ + 1,
                               !.toolArgs = Put(@, i, <<>>),
                               !.custom = IF b.custom THEN @ \cup {i} ELSE @ \ {i}]
           IN Emit(IF b.custom THEN Note(e1, "custom") ELSE e1, Opened(e.nextTool, b))
      [] b.kind = "refusal" -> [e EXCEPT !.refusalIdx = @ \cup {i}]
      [] b.kind \in {"text", "thinking"} -> e
      [] OTHER -> Note([e EXCEPT !.skipIdx = @ \cup {i}], LossName(b.kind))

FinishToolArgs(e, i) ==
    IF ~Has(e.toolArgs, i) THEN e
    ELSE LET args == e.toolArgs[i]
             due == IF args = <<>> THEN <<Empty>> ELSE IF i \in e.custom THEN args ELSE <<>>
         IN EmitAll([e EXCEPT !.toolArgs = Drop(@, i), !.custom = @ \ {i}],
                    [k \in DOMAIN due |-> Piece(e.toolIdx[i], "tool", due[k])])

(* Arguments for a block nobody opened cannot be encoded: Encode fails.    *)
ToolInput(e, i, x) ==
    CASE i \in e.skipIdx -> e
      [] ~Has(e.toolIdx, i) -> [e EXCEPT !.failed = TRUE]
      [] OTHER ->
           LET before == IF Has(e.toolArgs, i) THEN e.toolArgs[i] ELSE <<>>
               e1 == [e EXCEPT !.toolArgs = Put(@, i, Append(before, x))]
           IN IF i \in e.custom THEN e1 ELSE Emit(e1, Piece(e.toolIdx[i], "tool", x))

Encode(e0, ev) ==
    LET e == Quiet(e0)
    IN CASE ev.ev = "message_start" -> Emit(e, Frame("start"))
         [] ev.ev = "block_start" -> StartBlock(e, ev.at, ev.block)
         [] ev.ev = "text_delta" ->
              Emit(e, Piece(Unset, IF ev.at \in e.refusalIdx THEN "refusal" ELSE "text", ev.x))
         [] ev.ev = "thinking_delta" -> Emit(e, Piece(Unset, "thinking", ev.x))
         [] ev.ev = "signature_delta" -> Note(e, "signature")
         [] ev.ev = "input_json_delta" -> ToolInput(e, ev.at, ev.x)
         [] ev.ev = "block_stop" -> FinishToolArgs(e, ev.at)
         [] ev.ev = "message_delta" ->
              IF e.stopped THEN e ELSE Emit(e, Finished(UnmapFinishReason(ev.stop), <<>>))
         [] ev.ev = "message_stop" ->
              IF e.stopped THEN e ELSE Emit([e EXCEPT !.stopped = TRUE], Frame("end"))
         [] ev.ev = "ping" -> Emit(e, Frame("ping"))
         [] ev.ev = "error" -> EmitAll([e EXCEPT !.stopped = TRUE], RenderStreamError)

EncoderFinish(e0) ==
    LET e == FoldLeft(FinishToolArgs, Quiet(e0), Ascending(DOMAIN e0.toolArgs))
    IN IF e.stopped THEN e
       ELSE EmitAll([e EXCEPT !.stopped = TRUE],
                    <<Finished(UnmapFinishReason("aborted"), <<>>), Frame("end")>>)

----------------------------------------------------------------------------
(* A whole answer has one text, one refusal, one reasoning and the calls.  *)
Encodable(b) == b.kind \in {"text", "refusal", "thinking", "tool"}
EncodeResponse(content, stop) ==
    Finished(UnmapFinishReason(stop), SelectSeq(content, Encodable))

=============================================================================
