---------------------------- MODULE GeminiStream ----------------------------
(***************************************************************************)
(* The stream encoder of the Gemini protocol (agent/proto/gemini), which   *)
(* only clients speak, and the filter in front of it for clients that did  *)
(* not ask for thoughts (agent/relay/hidethoughts.go).                     *)
(***************************************************************************)
EXTENDS StreamEvents

(* Mutant: only the model's own limit counts as incomplete.                *)
UnmapFinishReasonLimitOnly(s) ==
    CASE s = "max_tokens" -> "MAX_TOKENS"
      [] s = "refusal" -> "SAFETY"
      [] OTHER -> "STOP"

(* max_messages falls to the default.                                      *)
UnmapFinishReason(s) ==
    CASE s \in Incomplete -> "MAX_TOKENS"
      [] s = "refusal" -> "SAFETY"
      [] OTHER -> "STOP"

(* A function call is collected and sent whole when its block ends.        *)
NewStreamEncoder ==
    [pendingTool |-> EmptyMap, finished |-> FALSE, failed |-> FALSE, noted |-> {}, out |-> <<>>]

Skipped == {"upload", "redacted", "opaque", "server", "hosted", "result"}

StartBlock(e, i, b) ==
    CASE b.kind = "tool" ->
           LET e1 == [e EXCEPT !.pendingTool = Put(@, i, b)]
           IN IF b.custom THEN Note(e1, "custom") ELSE e1
      [] b.kind = "image" -> Emit(e, Opened(Unset, b))
      [] b.kind = "media" -> Note(e, "attachment")
      [] b.kind \in Skipped -> Note(e, LossName(b.kind))
      [] OTHER -> e

CallOf(b) == Call(b.id, IF b.said = <<>> THEN <<Empty>> ELSE b.said)

Encode(e0, ev) ==
    LET e == Quiet(e0)
    IN CASE ev.ev = "block_start" -> StartBlock(e, ev.at, ev.block)
         [] ev.ev = "text_delta" -> Emit(e, Piece(Unset, "text", ev.x))
         [] ev.ev = "thinking_delta" -> Emit(e, Piece(Unset, "thinking", ev.x))
         [] ev.ev = "signature_delta" ->
              IF ev.from # "gemini" THEN Note(e, "signature") ELSE Emit(e, Piece(Unset, "signature", Empty))
         [] ev.ev = "input_json_delta" /\ Has(e.pendingTool, ev.at) ->
              [e EXCEPT !.pendingTool[ev.at].said = Append(@, ev.x)]
         [] ev.ev = "block_stop" /\ Has(e.pendingTool, ev.at) ->
              Emit([e EXCEPT !.pendingTool = Drop(@, ev.at)], CallOf(e.pendingTool[ev.at]))
         [] ev.ev = "message_delta" /\ ~e.finished ->
              Emit([e EXCEPT !.finished = TRUE], Finished(UnmapFinishReason(ev.stop), <<>>))
         [] ev.ev = "ping" -> Emit(e, Frame("ping"))
         [] ev.ev = "error" ->
              Emit([e EXCEPT !.finished = TRUE, !.pendingTool = EmptyMap], Frame("error"))
         [] OTHER -> e

EncoderFinish(e0) ==
    LET left == Ascending(DOMAIN e0.pendingTool)
        e == EmitAll([Quiet(e0) EXCEPT !.pendingTool = EmptyMap],
                     [k \in DOMAIN left |-> CallOf(e0.pendingTool[left[k]])])
    IN IF e.finished THEN e
       ELSE Emit([e EXCEPT !.finished = TRUE], Finished(UnmapFinishReason("aborted"), <<>>))

Encodable(b) == b.kind \notin Skipped \cup {"media"}
EncodeResponse(content, stop) == Finished(UnmapFinishReason(stop), SelectSeq(content, Encodable))

----------------------------------------------------------------------------
(* hideThoughtsStreamEncoder: which events reach the encoder.              *)

HideThoughts == [hidden |-> {}, suppressed |-> 0]

(* The reasoning blocks being hidden, before and after an event.           *)
Hides(h, ev) ==
    \/ ev.ev \in {"thinking_delta", "signature_delta"}
    \/ ev.ev = "block_start" /\ ev.block.kind \in {"thinking", "redacted"}
    \/ ev.ev = "block_stop" /\ ev.at \in h.hidden

HideStep(h, ev) ==
    CASE ev.ev = "block_start" /\ Hides(h, ev) ->
           [hidden |-> h.hidden \cup {ev.at}, suppressed |-> h.suppressed + 1]
      [] ev.ev = "block_stop" -> [h EXCEPT !.hidden = @ \ {ev.at}]
      [] OTHER -> h

=============================================================================
