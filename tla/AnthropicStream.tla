--------------------------- MODULE AnthropicStream ---------------------------
(***************************************************************************)
(* The stream decoder and encoder of the Anthropic Messages protocol       *)
(* (agent/proto/anthropic).  An upstream event is a record whose "type"    *)
(* is the event's name and whose other fields are what the event carries.  *)
(***************************************************************************)
EXTENDS StreamEvents

Known == {"end_turn", "stop_sequence", "pause_turn", "max_tokens",
          "context_window_exceeded", "tool_use", "refusal"}
MapStopReason(s) == IF s \in Known THEN s ELSE "end_turn"
UnmapStopReason(s) ==
    CASE s \in Known -> s
      [] s \in {"aborted", "max_messages", "steered"} -> "max_tokens"
      [] OTHER -> "end_turn"

----------------------------------------------------------------------------
(* Decoder.                                                                *)

NewStreamDecoder ==
    [started |-> FALSE, messageDeltaSent |-> FALSE, stopped |-> FALSE, sawError |-> FALSE,
     noted |-> {}, out |-> <<>>]

DeltaEvents(i, delta) ==
    CASE delta.kind = "text" -> <<EvTextDelta(i, delta.x)>>
      [] delta.kind = "input_json" -> <<EvToolInput(i, delta.x)>>
      [] delta.kind = "thinking" -> <<EvThinkingDelta(i, delta.x)>>
      [] delta.kind = "signature" -> <<EvSigDelta(i, "anthropic")>>

(* One upstream event.  An event or delta of an unknown type is counted,   *)
(* and so is a compaction receipt, which no slot could hold; an error ends *)
(* the message: neither message_stop nor Finish adds to it.                *)
Feed(d0, f) ==
    LET d == Quiet(d0)
    IN CASE f.type = "message_start" ->
              Emit([d EXCEPT !.started = TRUE], EvMessageStart)
         [] f.type = "content_block_start" -> Emit(d, EvBlockStart(f.at, f.block))
         [] f.type = "content_block_delta" ->
              IF f.delta.kind \in {"compaction", "unknown"} THEN Note(d, f.delta.kind)
              ELSE EmitAll(d, DeltaEvents(f.at, f.delta))
         [] f.type = "content_block_stop" -> Emit(d, EvBlockStop(f.at))
         [] f.type = "message_delta" ->
              Emit([d EXCEPT !.messageDeltaSent = TRUE], EvMessageDelta(MapStopReason(f.stop)))
         [] f.type = "message_stop" ->
              IF d.sawError THEN d ELSE Emit([d EXCEPT !.stopped = TRUE], EvMessageStop)
         [] f.type = "ping" -> Emit(d, EvPing)
         [] f.type = "error" ->
              Emit([d EXCEPT !.sawError = TRUE, !.stopped = TRUE, !.messageDeltaSent = TRUE], EvError)
         [] OTHER -> Note(d, "unknown")

(* The stream broke off: the missing message_delta says "aborted".         *)
DecoderFinish(d0) ==
    LET d == Quiet(d0)
        ended == IF d.started /\ ~d.messageDeltaSent THEN Emit(d, EvMessageDelta("aborted")) ELSE d
    IN IF d.started /\ ~d.stopped THEN Emit(ended, EvMessageStop) ELSE ended

----------------------------------------------------------------------------
(* Encoder.                                                                *)

NewStreamEncoder ==
    [open |-> {}, toolArgs |-> EmptyMap, custom |-> {},
     messageDeltaSent |-> FALSE, stopped |-> FALSE, sawError |-> FALSE,
     failed |-> FALSE, noted |-> {}, out |-> <<>>]

EnsureOpen(e, i, kind) ==
    IF i \in e.open THEN e
    ELSE Emit([e EXCEPT !.open = @ \cup {i}], Opened(i, Block(kind, Unset)))

(* The arguments of a call are complete: a free-form call sends them in    *)
(* one piece, a call without any sends "{}", since clients assemble        *)
(* arguments from deltas only.                                             *)
FinishToolArgs(e, i) ==
    IF ~Has(e.toolArgs, i) THEN e
    ELSE LET args == e.toolArgs[i]
             due == IF i \in e.custom \/ args = <<>>
                    THEN IF args = <<>> THEN <<Empty>> ELSE args
                    ELSE <<>>
         IN EmitAll([e EXCEPT !.toolArgs = Drop(@, i), !.custom = @ \ {i}],
                    [k \in DOMAIN due |-> Piece(i, "tool", due[k])])

(* Mutant: a block that was never opened is closed as well.                *)
CloseBlockAlways(e, i) == Emit([e EXCEPT !.open = @ \ {i}], Closed(i))

CloseBlock(e, i) ==
    IF i \in e.open THEN Emit([e EXCEPT !.open = @ \ {i}], Closed(i)) ELSE e

(* Attachments and opaque blocks of another protocol have no place in an   *)
(* answer: they are skipped and counted.                                   *)
StartBlock(e, i, b) ==
    CASE b.kind \in Attachments -> Note(e, "attachment")
      [] b.kind = "opaque" /\ b.from # "anthropic" -> Note(e, "opaque")
      [] OTHER ->
           LET e1 == [e EXCEPT !.open = @ \cup {i}]
               e2 == IF b.kind # "tool" THEN e1
                     ELSE [e1 EXCEPT !.toolArgs = Put(@, i, <<>>),
                                     !.custom = IF b.custom THEN @ \cup {i} ELSE @]
           IN Emit(IF b.custom THEN Note(e2, "custom") ELSE e2, Opened(i, b))

Encode(e0, ev) ==
    LET e == Quiet(e0)
    IN CASE ev.ev = "message_start" -> Emit(e, Frame("start"))
         [] ev.ev = "block_start" -> StartBlock(e, ev.at, ev.block)
         [] ev.ev = "text_delta" ->
              Emit(EnsureOpen(e, ev.at, "text"), Piece(ev.at, "text", ev.x))
         [] ev.ev = "thinking_delta" ->
              Emit(EnsureOpen(e, ev.at, "thinking"), Piece(ev.at, "thinking", ev.x))
         [] ev.ev = "signature_delta" ->
              IF ev.from # "anthropic" THEN Note(e, "signature")
              ELSE Emit(EnsureOpen(e, ev.at, "thinking"), Piece(ev.at, "signature", Empty))
         [] ev.ev = "input_json_delta" ->
              LET e1 == EnsureOpen(e, ev.at, "tool")
                  before == IF Has(e1.toolArgs, ev.at) THEN e1.toolArgs[ev.at] ELSE <<>>
                  e2 == [e1 EXCEPT !.toolArgs = Put(@, ev.at, Append(before, ev.x))]
              IN IF ev.at \in e.custom THEN e2 ELSE Emit(e2, Piece(ev.at, "tool", ev.x))
         [] ev.ev = "block_stop" -> CloseBlock(FinishToolArgs(e, ev.at), ev.at)
         [] ev.ev = "message_delta" ->
              IF e.sawError THEN e
              ELSE Emit([e EXCEPT !.messageDeltaSent = TRUE], Finished(UnmapStopReason(ev.stop), <<>>))
         [] ev.ev = "message_stop" ->
              IF e.sawError THEN e ELSE Emit([e EXCEPT !.stopped = TRUE], Frame("end"))
         [] ev.ev = "ping" -> Emit(e, Frame("ping"))
         [] ev.ev = "error" -> Emit([e EXCEPT !.sawError = TRUE], Frame("error"))

(* Close what is open and end the message if nothing else did.             *)
EncoderFinish(e0) ==
    LET closed == FoldLeft(LAMBDA e, i : CloseBlock(FinishToolArgs(e, i), i),
                           Quiet(e0), Ascending(e0.open))
        delta == IF closed.messageDeltaSent THEN closed
                 ELSE Emit([closed EXCEPT !.messageDeltaSent = TRUE],
                           Finished(UnmapStopReason("aborted"), <<>>))
    IN IF closed.sawError THEN closed
       ELSE IF delta.stopped THEN delta
       ELSE Emit([delta EXCEPT !.stopped = TRUE], Frame("end"))

----------------------------------------------------------------------------
(* A whole answer: attachments and foreign opaque blocks are left out.     *)
Encodable(b) == b.kind \notin Attachments /\ ~(b.kind = "opaque" /\ b.from # "anthropic")

EncodeResponse(content, stop) == Finished(UnmapStopReason(stop), SelectSeq(content, Encodable))

=============================================================================
