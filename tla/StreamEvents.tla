---------------------------- MODULE StreamEvents ----------------------------
(***************************************************************************)
(* The stream events every protocol is translated to and from             *)
(* (agent/ir/events.go), the frames the encoders write, and the two        *)
(* conversions between an event stream and a whole response: the           *)
(* Aggregator (ir/response.go), used when the client wants one JSON        *)
(* document, and EventsFromResponse (relay/forward.go), used when the      *)
(* upstream answered with one.                                             *)
(*                                                                         *)
(* A fragment of text, reasoning, refusal or of tool arguments is a        *)
(* positive number; Empty stands for the "{}" the encoders write for a     *)
(* tool called with no arguments.                                          *)
(***************************************************************************)
EXTENDS Naturals, Sequences, SequencesExt, FiniteSets, TLC

Empty == 0
Unset == -1

(* Finite maps with keys that come and go (Go's map). *)
Put(f, k, v) == (k :> v) @@ f
Drop(f, k) == Restrict(f, DOMAIN f \ {k})
Has(f, k) == k \in DOMAIN f
EmptyMap == <<>>
Ascending(S) == SetToSortSeq(S, <)

----------------------------------------------------------------------------
(* Blocks and events.                                                      *)

(* A content block: its kind, its identity (tool calls and hosted tool     *)
(* calls have one), whether it is a free-form ("custom") tool call, the    *)
(* protocol an opaque block comes from, what it says, and whether it has   *)
(* the record of its kind (Block.Thinking may be nil).                     *)
Block(kind, id) ==
    [kind |-> kind, id |-> id, custom |-> FALSE, from |-> "", said |-> <<>>, payload |-> TRUE]
CustomCall(id) == [Block("tool", id) EXCEPT !.custom = TRUE]
Opaque(family) == [Block("opaque", Unset) EXCEPT !.from = family]

Attachments == {"image", "media"}

EvMessageStart == [ev |-> "message_start"]
EvBlockStart(i, b) == [ev |-> "block_start", at |-> i, block |-> b]
EvTextDelta(i, x) == [ev |-> "text_delta", at |-> i, x |-> x]
EvThinkingDelta(i, x) == [ev |-> "thinking_delta", at |-> i, x |-> x]
EvSigDelta(i, from) == [ev |-> "signature_delta", at |-> i, from |-> from]
EvToolInput(i, x) == [ev |-> "input_json_delta", at |-> i, x |-> x]
EvBlockStop(i) == [ev |-> "block_stop", at |-> i]
EvMessageDelta(stop) == [ev |-> "message_delta", stop |-> stop]
EvMessageStop == [ev |-> "message_stop"]
EvPing == [ev |-> "ping"]
EvError == [ev |-> "error"]

Contents(events) == [k \in DOMAIN events |-> events[k].block]

(* StopReason.Incomplete: the output must not be taken for a final answer. *)
Incomplete == {"max_tokens", "pause_turn", "aborted", "context_window_exceeded", "steered"}

(* Decoders and encoders are records whose field "out" collects what the   *)
(* current call returns.                                                   *)
Emit(s, e) == [s EXCEPT !.out = Append(@, e)]
EmitAll(s, es) == [s EXCEPT !.out = @ \o es]
Quiet(s) == [s EXCEPT !.out = <<>>]
Note(s, what) == [s EXCEPT !.noted = @ \cup {what}]

----------------------------------------------------------------------------
(* Frames on the wire to the client, in the vocabulary the four protocols  *)
(* share.                                                                  *)

Frame(f) == [f |-> f]
Opened(i, b) == [f |-> "open", at |-> i, kind |-> b.kind, id |-> b.id]
Piece(i, kind, x) == [f |-> "piece", at |-> i, kind |-> kind, x |-> x]
Closed(i) == [f |-> "close", at |-> i]
Call(id, args) == [f |-> "call", id |-> id, args |-> args]
(* The frame with the stop reason; a Responses stream repeats the whole    *)
(* output in it.                                                           *)
Finished(stop, output) == [f |-> "finish", stop |-> stop, output |-> output]

----------------------------------------------------------------------------
(* Aggregator.                                                             *)

Aggregator == [open |-> EmptyMap, content |-> <<>>, stop |-> "", err |-> FALSE]

(* Mutant: only a text block takes text.                                   *)
TakesTextOnly(b, ev) ==
    CASE ev = "text_delta" -> b.kind = "text"
      [] ev \in {"thinking_delta", "signature_delta"} -> b.kind = "thinking" /\ b.payload
      [] ev = "input_json_delta" -> b.kind \in {"tool", "server", "hosted"}
      [] OTHER -> FALSE

(* Only a block of the right kind takes a delta; a refusal carries text,   *)
(* and reasoning needs a place to go.                                      *)
Takes(b, ev) ==
    CASE ev = "text_delta" -> b.kind \in {"text", "refusal"}
      [] ev \in {"thinking_delta", "signature_delta"} -> b.kind = "thinking" /\ b.payload
      [] ev = "input_json_delta" -> b.kind \in {"tool", "server", "hosted"}
      [] OTHER -> FALSE

AggregatorFeed(a, e) ==
    CASE e.ev = "block_start" -> [a EXCEPT !.open = Put(@, e.at, e.block)]
      [] e.ev = "message_delta" -> [a EXCEPT !.stop = e.stop]
      [] e.ev = "error" -> [a EXCEPT !.err = TRUE]
      [] e.ev = "block_stop" /\ Has(a.open, e.at) ->
           [a EXCEPT !.content = Append(@, a.open[e.at]), !.open = Drop(@, e.at)]
      [] e.ev \in {"text_delta", "thinking_delta", "input_json_delta"}
           /\ Has(a.open, e.at) /\ Takes(a.open[e.at], e.ev) ->
           [a EXCEPT !.open[e.at].said = Append(@, e.x)]
      [] e.ev = "signature_delta" /\ Has(a.open, e.at) /\ Takes(a.open[e.at], e.ev) ->
           [a EXCEPT !.open[e.at].from = IF @ = "" THEN e.from ELSE @]
      [] OTHER -> a

(* Blocks still open when the stream ended follow in index order.          *)
AggregatorFinish(a) ==
    LET rest == Ascending(DOMAIN a.open)
    IN [a EXCEPT !.content = @ \o [k \in DOMAIN rest |-> a.open[rest[k]]], !.open = EmptyMap]

----------------------------------------------------------------------------
(* EventsFromResponse: block by block, start, what it says, stop.          *)

DeltaOf(i, kind, x) ==
    CASE kind \in {"text", "refusal"} -> EvTextDelta(i, x)
      [] kind = "thinking" -> EvThinkingDelta(i, x)
      [] kind \in {"tool", "server", "hosted"} -> EvToolInput(i, x)

(* A signature is replayed with its origin.                                *)
EventsOfBlock(i, b) ==
    <<EvBlockStart(i, [b EXCEPT !.said = <<>>])>>
        \o [k \in DOMAIN b.said |-> DeltaOf(i, b.kind, b.said[k])]
        \o (IF b.kind = "thinking" /\ b.from # "" THEN <<EvSigDelta(i, b.from)>> ELSE <<>>)
        \o <<EvBlockStop(i)>>

EventsFromResponse(content, stop) ==
    <<EvMessageStart>>
        \o FlattenSeq([k \in DOMAIN content |-> EventsOfBlock(k - 1, content[k])])
        \o <<EvMessageDelta(stop), EvMessageStop>>

----------------------------------------------------------------------------
(* ScanResponseLosses: what a client of a family will miss of a whole      *)
(* answer, named as the stream encoders name it.                           *)

LossName(kind) ==
    CASE kind \in Attachments -> "attachment"
      [] kind = "hosted" -> "server"
      [] OTHER -> kind

(* A Responses answer shows a search and its result, no other hosted tool; *)
(* only Gemini has a form for an attachment, if it comes with its data.    *)
HasNoForm(content, k, family) ==
    LET b == content[k]
    IN CASE b.kind \in {"redacted", "upload"} -> family # "anthropic"
         [] b.kind = "opaque" -> b.from # family
         [] b.kind = "server" -> family \in {"chat", "gemini"}
         [] b.kind = "hosted" -> family # "anthropic"
         [] b.kind = "result" ->
              \/ family \in {"chat", "gemini"}
              \/ /\ family = "responses"
                 /\ ~\E j \in 1..(k - 1) : content[j].kind = "server" /\ content[j].id = b.id
         [] b.kind = "image" -> family # "gemini"
         [] b.kind = "media" -> TRUE
         [] OTHER -> FALSE

(* A signature is worth something only to the family that made it, and     *)
(* Chat has nowhere to put one.                                            *)
Losses(content, family) ==
    {LossName(content[k].kind) : k \in {j \in DOMAIN content : HasNoForm(content, j, family)}}
        \cup {"signature" : b \in {x \in ToSet(content) : x.kind = "thinking" /\ x.from \notin {"", family}}}
        \cup {"custom" : b \in {x \in ToSet(content) : x.custom /\ family # "responses"}}

=============================================================================
