--------------------------- MODULE ResponsesStream ---------------------------
(***************************************************************************)
(* The stream decoder and encoder of the OpenAI Responses protocol         *)
(* (agent/proto/openairesponses).  A Responses stream has output items     *)
(* that hold content parts; blocks are numbered by part, so one item may   *)
(* become several blocks.  "Done" events repeat complete values.           *)
(***************************************************************************)
EXTENDS StreamEvents

MapIncompleteReason(r) ==
    CASE r = "content_filter" -> "refusal"
      [] r \in {"max_messages", "steered"} -> r
      [] OTHER -> "max_tokens"
UnmapIncompleteReason(s) ==
    CASE s \in {"max_tokens", "pause_turn", "aborted", "context_window_exceeded"} -> "max_output_tokens"
      [] s \in {"max_messages", "steered"} -> s
      [] s = "refusal" -> "content_filter"
      [] OTHER -> "completed"

----------------------------------------------------------------------------
(* Decoder.                                                                *)

(* parts: part -> block; itemParts: item -> its blocks in order; given:    *)
(* what a block was already given, so that a done event adds only the rest *)
(* of it; pendingItems: hosted items announced but not complete;           *)
(* pendingToolArgs: arguments of a call whose identity is not known yet.   *)
NewStreamDecoder ==
    [started |-> FALSE, sawToolCall |-> FALSE, finished |-> FALSE, sawError |-> FALSE,
     parts |-> EmptyMap, itemParts |-> EmptyMap, given |-> EmptyMap,
     open |-> {}, order |-> <<>>, next |-> 0,
     pendingItems |-> EmptyMap, pendingToolArgs |-> EmptyMap, noted |-> {}, out |-> <<>>]

Part(item, n, refusal) == <<item, n, refusal>>
Whole(item) == Part(item, 0, FALSE)

Assign(d, k, b) ==
    IF Has(d.parts, k) THEN d
    ELSE Emit([d EXCEPT !.next = @ + 1, !.parts = Put(@, k, d.next), !.open = @ \cup {d.next},
                        !.order = Append(@, d.next), !.given = Put(@, d.next, <<>>),
                        !.itemParts = Put(@, k[1], Append(IF Has(@, k[1]) THEN @[k[1]] ELSE <<>>, d.next))],
              EvBlockStart(d.next, b))

Close(d, i) == IF i \in d.open THEN Emit([d EXCEPT !.open = @ \ {i}], EvBlockStop(i)) ELSE d
ClosePart(d, k) == IF Has(d.parts, k) THEN Close(d, d.parts[k]) ELSE d
CloseItem(d, item) ==
    LET blocks == IF Has(d.itemParts, item) THEN d.itemParts[item] ELSE <<>>
        closed == FoldLeft(Close, d, blocks)
    IN [closed EXCEPT !.itemParts = Drop(@, item),
                      !.parts = Restrict(@, {k \in DOMAIN @ : k[1] # item})]

(* A delta of block i.                                                     *)
Say(d, i, kind, x) == Emit([d EXCEPT !.given[i] = Append(@, x)], DeltaOf(i, kind, x))

(* Mutant: a done event repeats what the deltas have said.                 *)
CompleteValueAgain(d, i, kind, full) == FoldLeft(LAMBDA s, x : Say(s, i, kind, x), d, full)

(* A complete value: only what is missing of it follows, and nothing if it *)
(* does not continue what was given.                                       *)
CompleteValue(d, i, kind, full) ==
    IF ~IsPrefix(d.given[i], full) THEN d
    ELSE FoldLeft(LAMBDA s, x : Say(s, i, kind, x), d,
                  SubSeq(full, Len(d.given[i]) + 1, Len(full)))

(* The block is opened if need be; one already closed takes nothing more.  *)
Backfill(d0, k, kind, full) ==
    IF full = <<>> THEN d0
    ELSE LET d == Assign(d0, k, Block(kind, Unset))
         IN IF d.parts[k] \in d.open THEN CompleteValue(d, d.parts[k], kind, full) ELSE d

Delta(d0, k, kind, x) ==
    LET d == Assign(d0, k, Block(kind, Unset)) IN Say(d, d.parts[k], kind, x)

ToolBlock(it) == IF it.kind = "custom" THEN CustomCall(it.id) ELSE Block("tool", it.id)
PartKind(refusal) == IF refusal THEN "refusal" ELSE "text"

(* A web search becomes a call and its result, both complete.              *)
EmitWebSearchPair(d0, item, it) ==
    LET d1 == Assign(d0, Whole(item), Block("server", it.id))
        d2 == IF it.full = <<>> THEN d1 ELSE CompleteValue(d1, d1.parts[Whole(item)], "server", it.full)
        d3 == ClosePart(d2, Whole(item))
    IN ClosePart(Assign(d3, Part(item, 1, FALSE), Block("result", it.id)), Part(item, 1, FALSE))

KeepOpaque(d, item) == Assign(Note(d, "kept opaque"), Whole(item), Opaque("responses"))

(* response.output_item.added: a message opens nothing, its parts do; the  *)
(* arguments a call already has are passed on.                             *)
ItemAdded(d, item, it) ==
    CASE it.kind = "message" -> d
      [] it.kind \in {"tool", "custom"} ->
           LET d1 == Assign([d EXCEPT !.sawToolCall = TRUE], Whole(item), ToolBlock(it))
           IN CompleteValue(d1, d1.parts[Whole(item)], "tool", it.full)
      [] it.kind = "reasoning" -> Assign(d, Whole(item), Block("thinking", Unset))
      [] OTHER -> [d EXCEPT !.pendingItems = Put(@, item, it)]

(* Arguments of a call nobody announced wait for its identity; a complete  *)
(* value replaces the fragments.                                           *)
PendingArgs(d, item) ==
    IF Has(d.pendingToolArgs, item) THEN d.pendingToolArgs[item].frags ELSE <<>>
Park(d, item, custom, frags) ==
    [d EXCEPT !.pendingToolArgs = Put(@, item, [custom |-> custom, frags |-> frags])]

ArgsDelta(d0, item, custom, x) ==
    LET d == [d0 EXCEPT !.sawToolCall = TRUE]
    IN IF Has(d.parts, Whole(item)) THEN Say(d, d.parts[Whole(item)], "tool", x)
       ELSE Park(d, item, custom, Append(PendingArgs(d, item), x))
ArgsDone(d0, item, custom, full) ==
    LET d == [d0 EXCEPT !.sawToolCall = TRUE]
    IN IF Has(d.parts, Whole(item)) THEN CompleteValue(d, d.parts[Whole(item)], "tool", full)
       ELSE Park(d, item, custom, IF full = <<>> THEN PendingArgs(d, item) ELSE full)

(* The announced or late-identified call: parked arguments are replayed.   *)
ToolDone(d0, item, it) ==
    LET d1 == Assign(d0, Whole(item), ToolBlock(it))
        i == d1.parts[Whole(item)]
        d2 == FoldLeft(LAMBDA s, x : Say(s, i, "tool", x),
                       [d1 EXCEPT !.pendingToolArgs = Drop(@, item)], PendingArgs(d1, item))
    IN CompleteValue(d2, i, "tool", it.full)

MessageDone(d0, item, it) ==
    FoldLeft(LAMBDA d, n : Backfill(d, Part(item, n - 1, it.full[n].refusal),
                                    PartKind(it.full[n].refusal), it.full[n].full),
             d0, [n \in DOMAIN it.full |-> n])

ReasoningDone(d0, item, it) ==
    IF it.full = <<>> /\ ~it.signed THEN d0
    ELSE LET d1 == Assign(d0, Whole(item), Block("thinking", Unset))
             i == d1.parts[Whole(item)]
             d2 == IF i \in d1.open THEN CompleteValue(d1, i, "thinking", it.full) ELSE d1
         IN IF it.signed THEN Emit(d2, EvSigDelta(i, "responses")) ELSE d2

ItemDone(d0, item, it) ==
    LET d == [d0 EXCEPT !.pendingItems = Drop(@, item)]
    IN CloseItem(CASE it.kind \in {"tool", "custom"} -> ToolDone(d0, item, it)
                   [] it.kind = "message" -> MessageDone(d0, item, it)
                   [] it.kind = "reasoning" -> ReasoningDone(d0, item, it)
                   [] it.kind = "search" -> EmitWebSearchPair(d, item, it)
                   [] OTHER -> KeepOpaque(d, item), item)

(* Everything still open or waiting is completed before the end: blocks in *)
(* the order they were opened, hosted items, calls without an identity.    *)
SynthId(item) == 100 + item
FlushItem(d, item) ==
    LET it == d.pendingItems[item]
        rest == [d EXCEPT !.pendingItems = Drop(@, item)]
    IN IF it.kind = "search" THEN EmitWebSearchPair(rest, item, it)
       ELSE ClosePart(KeepOpaque(rest, item), Whole(item))
FlushCall(d0, item) ==
    LET p == d0.pendingToolArgs[item]
        b == [Block("tool", SynthId(item)) EXCEPT !.custom = p.custom]
        d == Assign(Note([d0 EXCEPT !.pendingToolArgs = Drop(@, item)], "made-up id"), Whole(item), b)
    IN ClosePart(FoldLeft(LAMBDA s, x : Say(s, d.parts[Whole(item)], "tool", x), d, p.frags), Whole(item))

(* Mutant: calls without an identity are forgotten.                        *)
TerminalEventsWithoutCalls(d0, stop) ==
    LET d1 == FoldLeft(Close, d0, d0.order)
        d2 == FoldLeft(FlushItem, d1, Ascending(DOMAIN d1.pendingItems))
    IN EmitAll(d2, <<EvMessageDelta(stop), EvMessageStop>>)

TerminalEvents(d0, stop) ==
    LET d1 == FoldLeft(Close, d0, d0.order)
        d2 == FoldLeft(FlushItem, d1, Ascending(DOMAIN d1.pendingItems))
        d3 == FoldLeft(FlushCall, d2, Ascending(DOMAIN d2.pendingToolArgs))
    IN EmitAll(d3, <<EvMessageDelta(stop), EvMessageStop>>)

(* After an error nothing ends the message a second time.                  *)
Terminal(d0, stop) ==
    LET d == [d0 EXCEPT !.finished = TRUE] IN IF d.sawError THEN d ELSE TerminalEvents(d, stop)
Failure(d0) ==
    LET d == [d0 EXCEPT !.finished = TRUE]
    IN IF d.sawError THEN d ELSE Emit([d EXCEPT !.sawError = TRUE], EvError)

Feed(d0, f) ==
    LET d == Quiet(d0)
    IN CASE f.type = "created" -> Emit([d EXCEPT !.started = TRUE], EvMessageStart)
         [] f.type = "item_added" -> ItemAdded(d, f.out, f.item)
         [] f.type = "part_added" ->
              Assign(d, Part(f.out, f.part, f.refusal), Block(PartKind(f.refusal), Unset))
         [] f.type = "part_delta" -> Delta(d, Part(f.out, f.part, f.refusal), PartKind(f.refusal), f.x)
         [] f.type = "text_done" -> Backfill(d, Part(f.out, f.part, FALSE), "text", f.full)
         [] f.type = "refusal_done" ->
              ClosePart(Backfill(d, Part(f.out, f.part, TRUE), "refusal", f.full), Part(f.out, f.part, TRUE))
         [] f.type = "part_done" ->
              ClosePart(Backfill(d, Part(f.out, f.part, f.refusal), PartKind(f.refusal), f.full),
                        Part(f.out, f.part, f.refusal))
         [] f.type = "reasoning_delta" -> Delta(d, Whole(f.out), "thinking", f.x)
         [] f.type = "reasoning_done" -> Backfill(d, Whole(f.out), "thinking", f.full)
         [] f.type = "args_delta" -> ArgsDelta(d, f.out, f.custom, f.x)
         [] f.type = "args_done" -> ArgsDone(d, f.out, f.custom, f.full)
         [] f.type = "item_done" -> ItemDone(d, f.out, f.item)
         [] f.type = "completed" -> Terminal(d, IF d.sawToolCall THEN "tool_use" ELSE "end_turn")
         [] f.type = "incomplete" -> Terminal(d, MapIncompleteReason(f.reason))
         [] f.type \in {"failed", "error"} -> Failure(d)
         [] f.type = "done" -> [d EXCEPT !.finished = TRUE]
         [] OTHER -> Note(d, f.type)

DecoderFinish(d0) ==
    LET d == Quiet(d0)
    IN IF ~d.started \/ d.finished THEN d ELSE TerminalEvents([d EXCEPT !.finished = TRUE], "aborted")

----------------------------------------------------------------------------
(* Encoder.                                                                *)

(* wire: block -> output_index, given out when the block is registered, so *)
(* that every index points into the final output; wsOpen: web searches     *)
(* whose result has not come.                                              *)
NewStreamEncoder ==
    [blocks |-> EmptyMap, order |-> <<>>, wire |-> EmptyMap, closed |-> {}, skip |-> {}, wsOpen |-> EmptyMap,
     stopReason |-> "", completed |-> FALSE, failed |-> FALSE, noted |-> {}, out |-> <<>>]

Register(e, i, b) ==
    [e EXCEPT !.order = IF Has(e.blocks, i) THEN @ ELSE Append(@, i),
              !.blocks = Put(@, i, b),
              !.wire = IF Has(@, i) THEN @ ELSE Put(@, i, Cardinality(DOMAIN @))]

DoneItem(b) == IF b.kind = "tool" /\ b.said = <<>> THEN [b EXCEPT !.said = <<Empty>>] ELSE b
DoneFrame(e, i) == [f |-> "done", at |-> e.wire[i], item |-> DoneItem(e.blocks[i])]
CloseWith(e, i) == Emit([e EXCEPT !.closed = @ \cup {i}], DoneFrame(e, i))

Skip(e, i, loss) == Note([e EXCEPT !.skip = @ \cup {i}], loss)
Start(e0, i, b) == LET e == Register([e0 EXCEPT !.closed = @ \ {i}], i, b) IN Emit(e, Opened(e.wire[i], b))

BlockStart(e, i, b) ==
    CASE b.kind \in {"thinking", "tool", "refusal", "text"} -> Start(e, i, b)
      [] b.kind = "server" -> Start([e EXCEPT !.wsOpen = Put(@, b.id, i)], i, b)
      [] b.kind = "hosted" -> Skip(e, i, "server")
      [] b.kind = "result" ->
           LET paired == [e EXCEPT !.wsOpen = Drop(@, b.id)]
           IN IF Has(e.wsOpen, b.id) /\ e.wsOpen[b.id] \notin e.closed
              THEN CloseWith(paired, e.wsOpen[b.id])
              ELSE Skip(paired, i, "result")
      [] b.kind = "opaque" /\ b.from = "responses" -> CloseWith(Start(e, i, b), i)
      [] OTHER -> Skip(e, i, LossName(b.kind))

(* Text and reasoning for a block nobody opened cannot be encoded.         *)
Said(e, i, kind, x) ==
    IF ~Has(e.blocks, i) THEN [e EXCEPT !.failed = TRUE]
    ELSE Emit([e EXCEPT !.blocks[i].said = Append(@, x)], Piece(e.wire[i], kind, x))

(* A search has no argument events: its query goes with the done frame.    *)
ToolInput(e, i, x) ==
    CASE i \in e.skip -> e
      [] Has(e.blocks, i) /\ e.blocks[i].kind = "server" -> [e EXCEPT !.blocks[i].said = Append(@, x)]
      [] OTHER -> Said(e, i, "tool", x)

(* A search stays open until its result comes, or the stream ends.         *)
BlockStop(e, i) ==
    IF ~Has(e.blocks, i) \/ i \in e.closed \/ e.blocks[i].kind = "server" THEN e ELSE CloseWith(e, i)

FullOutput(e) == [k \in DOMAIN e.order |-> DoneItem(e.blocks[e.order[k]])]
Completed(e, stop) ==
    Emit([e EXCEPT !.completed = TRUE, !.stopReason = stop],
         Finished(UnmapIncompleteReason(stop), FullOutput(e)))

Encode(e0, ev) ==
    LET e == Quiet(e0)
    IN CASE ev.ev = "message_start" -> Emit(e, Frame("start"))
         [] ev.ev = "block_start" -> BlockStart(e, ev.at, ev.block)
         [] ev.ev = "text_delta" ->
              Said(e, ev.at, IF Has(e.blocks, ev.at) /\ e.blocks[ev.at].kind = "refusal"
                             THEN "refusal" ELSE "text", ev.x)
         [] ev.ev = "thinking_delta" -> Said(e, ev.at, "thinking", ev.x)
         [] ev.ev = "signature_delta" ->
              IF ev.from # "responses" THEN Note(e, "signature")
              ELSE IF Has(e.blocks, ev.at) THEN [e EXCEPT !.blocks[ev.at].from = "responses"] ELSE e
         [] ev.ev = "input_json_delta" -> ToolInput(e, ev.at, ev.x)
         [] ev.ev = "block_stop" -> BlockStop(e, ev.at)
         [] ev.ev = "message_delta" -> IF e.completed THEN e ELSE Completed(e, ev.stop)
         [] ev.ev = "message_stop" -> e
         [] ev.ev = "ping" -> Emit(e, Frame("ping"))
         [] ev.ev = "error" -> Emit([e EXCEPT !.completed = TRUE], Frame("error"))

EncoderFinish(e0) ==
    LET finish(e, i) == IF i \in e.closed THEN e ELSE CloseWith(e, i)
        closed == FoldLeft(finish, Quiet(e0), e0.order)
    IN IF closed.completed THEN closed ELSE Completed(closed, "aborted")

----------------------------------------------------------------------------
(* A whole answer: hosted calls other than a search, results without their *)
(* search and what only other protocols have are left out.                 *)
Encodable(b) ==
    \/ b.kind \in {"text", "refusal", "thinking", "tool", "server"}
    \/ b.kind = "opaque" /\ b.from = "responses"
EncodeResponse(content, stop) == Finished(UnmapIncompleteReason(stop), SelectSeq(content, Encodable))

=============================================================================
