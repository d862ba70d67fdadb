----------------------------- MODULE StreamRelay -----------------------------
(***************************************************************************)
(* One upstream answer on its way to a streaming client                    *)
(* (relay/forward.go, streamUpstreamToClient): frames are decoded to       *)
(* events, the events encoded in the client's protocol.  The upstream may  *)
(* leave out every frame its protocol lets it leave out, interleave what   *)
(* its protocol lets it interleave, and break off anywhere; a frame may    *)
(* arrive malformed.  The same events go to the aggregator, which is what  *)
(* a client asking for one JSON document gets.                             *)
(***************************************************************************)
EXTENDS UpstreamAnswers

CONSTANTS Clients,      \* protocols the client may speak
          Upstreams,    \* protocols the upstream may speak
          MaxUnits,     \* units in an answer
          MaxSkipped,   \* frames that arrive malformed
          MaxDamaged    \* ... in answers of at most so many units

Anthropic == INSTANCE AnthropicStream
Gemini == INSTANCE GeminiStream

VARIABLES client,       \* the client's protocol
          hide,         \* the client does not want thoughts
          upstream,     \* the upstream's protocol, what it has still to say, how it ended
          dec,          \* the stream decoder
          egress,       \* the encoder, its filter, the frames written
          agg,          \* the aggregator
          pump,         \* "first": no frame read yet; "on"; "done"; "failed": another upstream is tried
          skipped,      \* malformed frames skipped
          sent          \* what the upstream has said: kind, token

vars == <<client, hide, upstream, dec, egress, agg, pump, skipped, sent>>

(* Lanes are said in any interleaving, except that the first Responses     *)
(* lane, response.created, comes first.                                    *)
Ready(lane) ==
    /\ upstream.lanes[lane] # <<>>
    /\ upstream.proto = "responses" => lane = 1 \/ upstream.lanes[1] = <<>>
Exhausted == \A lane \in DOMAIN upstream.lanes : upstream.lanes[lane] = <<>>

----------------------------------------------------------------------------
(* The relay.                                                              *)

NewDecoder(proto) ==
    CASE proto = "anthropic" -> Anthropic!NewStreamDecoder
      [] proto = "chat" -> Chat!NewStreamDecoder
      [] proto = "responses" -> Responses!NewStreamDecoder
      [] proto = "json" -> [out |-> <<>>, noted |-> {}]
Feed(proto, d, frame) ==
    CASE proto = "anthropic" -> Anthropic!Feed(d, frame)
      [] proto = "chat" -> Chat!Feed(d, frame)
      [] proto = "responses" -> Responses!Feed(d, frame)
DecoderFinish(proto, d) ==
    CASE proto = "anthropic" -> Anthropic!DecoderFinish(d)
      [] proto = "chat" -> Chat!DecoderFinish(d)
      [] proto = "responses" -> Responses!DecoderFinish(d)

NewEncoder(c) ==
    CASE c = "anthropic" -> Anthropic!NewStreamEncoder
      [] c = "chat" -> Chat!NewStreamEncoder
      [] c = "gemini" -> Gemini!NewStreamEncoder
      [] c = "responses" -> Responses!NewStreamEncoder
Encode(c, e, ev) ==
    CASE c = "anthropic" -> Anthropic!Encode(e, ev)
      [] c = "chat" -> Chat!Encode(e, ev)
      [] c = "gemini" -> Gemini!Encode(e, ev)
      [] c = "responses" -> Responses!Encode(e, ev)
EncoderFinish(c, e) ==
    CASE c = "anthropic" -> Anthropic!EncoderFinish(e)
      [] c = "chat" -> Chat!EncoderFinish(e)
      [] c = "gemini" -> Gemini!EncoderFinish(e)
      [] c = "responses" -> Responses!EncoderFinish(e)

(* What the client gets when an event cannot be encoded.                   *)
RenderStreamError(c) == IF c = "chat" THEN Chat!RenderStreamError ELSE <<Frame("error")>>

Egress(c) == [enc |-> NewEncoder(c), filter |-> Gemini!HideThoughts, wire |-> <<>>, terminalErr |-> FALSE]

(* emit: one event.  Nothing follows an event that could not be encoded;   *)
(* events of hidden thoughts do not reach the encoder.                     *)
Forward(s, ev) ==
    LET filtered == [s EXCEPT !.filter = IF hide THEN Gemini!HideStep(@, ev) ELSE @]
        enc == Encode(client, s.enc, ev)
    IN IF s.terminalErr THEN s
       ELSE IF hide /\ Gemini!Hides(s.filter, ev) THEN filtered
       ELSE IF enc.failed
       THEN [filtered EXCEPT !.terminalErr = TRUE, !.enc = enc, !.wire = @ \o RenderStreamError(client)]
       ELSE [filtered EXCEPT !.enc = Quiet(enc), !.wire = @ \o enc.out]
Emitted(s, events) == FoldLeft(Forward, s, events)

(* The decoder and the encoder are finished, whatever happened before.     *)
Wrapped(s, events) ==
    LET told == Emitted(s, events)
        enc == EncoderFinish(client, told.enc)
    IN IF told.terminalErr THEN told ELSE [told EXCEPT !.enc = Quiet(enc), !.wire = @ \o enc.out]

Finish(events) ==
    LET d == DecoderFinish(upstream.proto, dec)
    IN /\ dec' = Quiet(d)
       /\ egress' = Wrapped(egress, events \o d.out)
       /\ agg' = AggregatorFinish(FoldLeft(AggregatorFeed, agg, events \o d.out))
       /\ pump' = "done"

Init ==
    /\ client \in Clients
    /\ hide \in IF client = "gemini" THEN BOOLEAN ELSE {FALSE}
    /\ \E proto \in Upstreams : \E n \in 1..MaxUnits : \E units \in [1..n -> Units(proto)] :
          \E answer \in Answers(proto, units) :
             /\ upstream = [proto |-> proto, units |-> n, lanes |-> answer.lanes, odd |-> answer.odd,
                            tail |-> <<>>, ended |-> "", broken |-> FALSE, lostEnd |-> FALSE]
             /\ dec = NewDecoder(proto)
    /\ egress = Egress(client)
    /\ agg = Aggregator
    /\ pump = "first"
    /\ skipped = 0
    /\ sent = {}

(* The first frame must give an event, or another upstream is tried.       *)
Deliver(frame) ==
    LET d == Feed(upstream.proto, dec, frame)
    IN /\ dec' = Quiet(d)
       /\ egress' = Emitted(egress, d.out)
       /\ agg' = FoldLeft(AggregatorFeed, agg, d.out)
       /\ pump' = IF pump = "first" /\ d.out = <<>> THEN "failed" ELSE "on"

Reading == pump \in {"first", "on"} /\ upstream.proto # "json"

Receive(lane) ==
    /\ Reading /\ Ready(lane)
    /\ upstream' = [upstream EXCEPT !.lanes[lane] = Tail(@)]
    /\ sent' = sent \cup Head(upstream.lanes[lane]).says
    /\ Deliver(Head(upstream.lanes[lane]).frame)
    /\ UNCHANGED <<client, hide, skipped>>

(* The answer is complete: the first of the closing frames says how.       *)
End ==
    /\ Reading /\ Exhausted /\ upstream.ended = "" /\ ~upstream.broken /\ ~upstream.lostEnd
    /\ \E e \in Endings(upstream.proto) :
          /\ upstream' = [upstream EXCEPT !.ended = e.stop, !.tail = Tail(e.frames)]
          /\ Deliver(Head(e.frames))
    /\ UNCHANGED <<client, hide, skipped, sent>>

ReceiveTail ==
    /\ Reading /\ upstream.tail # <<>>
    /\ upstream' = [upstream EXCEPT !.tail = Tail(@)]
    /\ Deliver(Head(upstream.tail))
    /\ UNCHANGED <<client, hide, skipped, sent>>

(* The upstream reports an error in the stream and says no more; an        *)
(* upstream may also fail with its first frame.                            *)
UpstreamError ==
    /\ Reading /\ upstream.ended = "" /\ ~upstream.broken
    /\ upstream' = [upstream EXCEPT !.broken = TRUE, !.lanes = [l \in DOMAIN @ |-> <<>>]]
    /\ Deliver([type |-> "error"])
    /\ UNCHANGED <<client, hide, skipped, sent>>

MayBeMalformed == pump = "on" /\ upstream.proto # "json" /\ skipped < MaxSkipped /\ upstream.units <= MaxDamaged

(* A frame that cannot be parsed is skipped and counted, unless it is the  *)
(* first.                                                                  *)
ReceiveMalformed(lane) ==
    /\ MayBeMalformed /\ Ready(lane)
    /\ skipped' = skipped + 1
    /\ upstream' = [upstream EXCEPT !.lanes[lane] = Tail(@)]
    /\ UNCHANGED <<client, hide, dec, egress, agg, pump, sent>>

(* The same for the frame that says how the answer ends.                   *)
EndMalformed ==
    /\ MayBeMalformed
    /\ Exhausted /\ upstream.ended = "" /\ ~upstream.broken /\ ~upstream.lostEnd
    /\ skipped' = skipped + 1
    /\ \E e \in Endings(upstream.proto) :
          upstream' = [upstream EXCEPT !.lostEnd = TRUE, !.tail = Tail(e.frames)]
    /\ UNCHANGED <<client, hide, dec, egress, agg, pump, sent>>

(* The body ends, after the answer or in the middle of it.                 *)
EndOfBody ==
    /\ pump = "on"
    /\ Finish(<<>>)
    /\ UNCHANGED <<client, hide, upstream, skipped, sent>>

(* Reading fails: the client is told, then everything is finished.         *)
ReadFails ==
    /\ pump = "on" /\ upstream.ended = "" /\ ~upstream.broken
    /\ Finish(<<EvError>>)
    /\ upstream' = [upstream EXCEPT !.broken = TRUE]
    /\ UNCHANGED <<client, hide, skipped, sent>>

(* No first frame: nothing has been written, another upstream is tried.    *)
NoFirstFrame ==
    /\ pump = "first" /\ upstream.proto # "json"
    /\ pump' = "failed"
    /\ UNCHANGED <<client, hide, upstream, dec, egress, agg, skipped, sent>>

(* writeResponse: the upstream answered a streaming client with one JSON   *)
(* document, which is replayed as a stream.                                *)
WriteResponse ==
    LET answer == Head(upstream.lanes[1])
        events == EventsFromResponse(answer.frame.content, "end_turn")
    IN /\ pump = "first" /\ upstream.proto = "json"
       /\ egress' = Wrapped(egress, events)
       /\ agg' = [agg EXCEPT !.content = answer.frame.content, !.stop = "end_turn"]
       /\ upstream' = [upstream EXCEPT !.lanes[1] = <<>>, !.ended = "end_turn"]
       /\ sent' = answer.says
       /\ pump' = "done"
       /\ UNCHANGED <<client, hide, dec, skipped>>

Next ==
    \/ \E lane \in DOMAIN upstream.lanes : Receive(lane) \/ ReceiveMalformed(lane)
    \/ End \/ EndMalformed \/ ReceiveTail \/ UpstreamError \/ EndOfBody \/ ReadFails \/ NoFirstFrame \/ WriteResponse

Spec == Init /\ [][Next]_vars

----------------------------------------------------------------------------
(* What the client hears.                                                  *)

wire == egress.wire
Done == pump = "done"

(* The tokens a frame brings to the client, and as what.                   *)
Told(frame) ==
    CASE frame.f = "piece" /\ frame.kind # "signature" -> <<[kind |-> frame.kind, x |-> frame.x]>>
      [] frame.f = "call" -> [k \in DOMAIN frame.args |-> [kind |-> "tool", x |-> frame.args[k]]]
      [] frame.f = "done" /\ frame.item.kind = "server" ->
           [k \in DOMAIN frame.item.said |-> [kind |-> "tool", x |-> frame.item.said[k]]]
      [] OTHER -> <<>>
Heard == SelectSeq(FlattenSeq([k \in DOMAIN wire |-> Told(wire[k])]), LAMBDA t : t.x # Empty)
HeardTokens == {Heard[k].x : k \in DOMAIN Heard}

Notes == egress.enc.noted \cup dec.noted

(* Units the upstream sends in a way the decoder does not recognise.       *)
Odd(how, token) == <<how, UnitOf(token)>> \in upstream.odd

(* Why a token the upstream said may be missing: the client asked for it   *)
(* to be hidden, or a note names its loss.  One loss has no note: a call   *)
(* whose slot goes to another one before it had a name is dropped without  *)
(* being counted (feedToolCall; only Finish counts).                       *)
Excused(token) ==
    \/ hide /\ token.kind = "thinking"
    \/ token.kind \in {"server", "hosted"} /\ "server" \in Notes
    \/ token.kind = "tool" /\ ("lost call" \in Notes \/ Odd("unnamed", token.x))

Frames(f) == {k \in DOMAIN wire : wire[k].f = f}
Stops == {wire[k].stop : k \in Frames("finish")}

(* The stop reasons that tell a client the answer is whole.                *)
LooksWhole == {"end_turn", "tool_use", "stop_sequence", "stop", "tool_calls", "completed", "STOP"}

(* Whatever complete values an upstream repeats, and whatever it leaves    *)
(* out or interleaves, a client never hears a token twice, never one it    *)
(* should not hear, and hears the tokens of a unit in the order they were  *)
(* said; thoughts stay thoughts.  Deltas are new by definition: arguments  *)
(* that came with the announcement of their call and come again as deltas  *)
(* are appended unchecked, and heard as often as they were sent.           *)
NothingTwiceOrOutOfOrder ==
    /\ \A j, k \in DOMAIN Heard :
          j < k /\ UnitOf(Heard[j].x) = UnitOf(Heard[k].x) =>
              Heard[j].x < Heard[k].x \/ Odd("echoed", Heard[j].x)
    /\ \A k \in DOMAIN Heard :
          \E token \in sent : /\ token.x = Heard[k].x
                              /\ token.kind = "thinking" <=> Heard[k].kind = "thinking"
                              /\ ~(hide /\ token.kind = "thinking")

(* When a stream has ended without an error, every token the upstream said *)
(* has reached the client, or a note of the stream names its loss.         *)
NoSilentLoss ==
    Done /\ Frames("error") = {} /\ skipped = 0 =>
        \A token \in sent : token.x \in HeardTokens \/ Excused(token)

(* Arguments reach the call they belong to: every piece of arguments       *)
(* follows the start of its call, under the id the upstream gave it or     *)
(* under a made-up one; no two calls share an id; a call that is not told  *)
(* broken has some arguments in the end, for clients assemble them from    *)
(* pieces.  Only a call without an id, whose slot comes back with one,     *)
(* cannot be told from the next call: its arguments go to that one.        *)
IsMadeUp(id) == id >= 100
CallStarts == {k \in Frames("open") : wire[k].kind = "tool"}
ArgumentsReachTheirCall ==
    /\ \A j, k \in CallStarts : wire[j].id = wire[k].id /\ wire[j].id # Unset => j = k
    /\ \A k \in Frames("piece") : wire[k].kind = "tool" /\ wire[k].x # Empty /\ skipped = 0 =>
          \E j \in Frames("open") :
             /\ j < k /\ wire[j].at = wire[k].at
             /\ \/ wire[j].id = UnitOf(wire[k].x)
                \/ IsMadeUp(wire[j].id) /\ "made-up id" \in dec.noted
                \/ Odd("glued", wire[k].x)
    /\ \A k \in Frames("call") : \A x \in ToSet(wire[k].args) \ {Empty} :
          wire[k].id = UnitOf(x) \/ IsMadeUp(wire[k].id) \/ skipped > 0 \/ Odd("glued", x)
    /\ Done /\ client \in {"anthropic", "chat"} /\ ~egress.terminalErr =>
          \A j \in CallStarts : \E k \in Frames("piece") : j < k /\ wire[k].at = wire[j].at

(* An answer that broke off, or that the upstream itself called            *)
(* incomplete, never looks whole to the client, streamed or not; one that  *)
(* ended well has one stop reason and no error.  (The Responses decoder    *)
(* takes [DONE] for the end even if the frame that says how the answer     *)
(* ended was lost: LostEndNeverLooksWhole.)                                *)
LooksCut ==
    /\ \/ Frames("error") # {}
       \/ /\ Stops # {} \/ upstream.lostEnd
          /\ Stops \cap LooksWhole = {}
    /\ agg.err \/ agg.stop \in Incomplete
EndIsHonest ==
    Done =>
        /\ (upstream.ended = "" \/ upstream.ended \in Incomplete)
             /\ ~(upstream.proto = "responses" /\ upstream.lostEnd) => LooksCut
        /\ upstream.ended # "" /\ skipped = 0 =>
              /\ Cardinality(Frames("finish")) = 1 /\ Frames("error") = {}
              /\ upstream.ended \notin Incomplete \cup {"max_messages"} => Stops \subseteq LooksWhole

(* StopAborted (ir/events.go): a stream that broke off before any sign of  *)
(* completion must not collapse into end_turn.  Here the frame with the    *)
(* sign was malformed and skipped.                                         *)
LostEndNeverLooksWhole == Done /\ upstream.lostEnd => LooksCut

(* A block the client saw open is closed once, and nothing is said in a    *)
(* block that is not open.                                                 *)
BlocksAreWellFormed ==
    client = "anthropic" =>
        /\ \A k \in Frames("piece") \cup Frames("close") :
              \E j \in Frames("open") : /\ j < k /\ wire[j].at = wire[k].at
                                       /\ \A c \in Frames("close") :
                                             wire[c].at = wire[k].at => ~(j < c /\ c < k)
        /\ Done /\ ~egress.terminalErr =>
              \A j \in Frames("open") : \E c \in Frames("close") : j < c /\ wire[c].at = wire[j].at

(* In a Responses stream every output_index points into the final output:  *)
(* the item done at an index is the item the finishing frame has there,    *)
(* and every item of the output was done once.                             *)
IndexesPointIntoTheOutput ==
    client = "responses" =>
        \A k \in Frames("finish") :
            /\ \A j \in Frames("open") \cup Frames("done") \cup Frames("piece") :
                  j < k => wire[j].at + 1 \in DOMAIN wire[k].output
            /\ \A j \in Frames("done") :
                  j < k => wire[j].item = wire[k].output[wire[j].at + 1]
            /\ Done => \A at \in DOMAIN wire[k].output :
                  Cardinality({j \in Frames("done") : wire[j].at + 1 = at}) = 1

(* An event that cannot be encoded ends the stream with an error; only a   *)
(* frame that could not be read leads to one.                              *)
UnencodableOnlyAfterASkip == egress.terminalErr => skipped > 0

(* What the client reads keeps to its protocol, however the upstream        *)
(* interleaves its blocks and wherever it breaks off.                      *)
WellFormedStream == BlocksAreWellFormed /\ IndexesPointIntoTheOutput /\ UnencodableOnlyAfterASkip

(* Streamed or in one document, a client misses the same: the aggregated   *)
(* answer has the tokens that were streamed, and the losses scanned from   *)
(* it are those the encoder counted.  The reasoning of a Chat upstream is  *)
(* streamed only: the Aggregator has no record to put it in, and the       *)
(* document's reasoning is empty.                                          *)
StreamedOnly == {token.x : token \in {t \in sent : t.kind = "thinking" /\ upstream.proto = "chat"}}
Kept(content) == SelectSeq(content, LAMBDA b : ~(hide /\ b.kind \in {"thinking", "redacted"}))
EncodableBlocks(content) ==
    {b \in ToSet(content) :
        CASE client = "anthropic" -> Anthropic!Encodable(b)
          [] client = "chat" -> Chat!Encodable(b)
          [] client = "gemini" -> Gemini!Encodable(b)
          [] client = "responses" -> Responses!Encodable(b)}
SameStreamedOrNot ==
    Done /\ ~agg.err /\ skipped = 0 =>
        /\ HeardTokens \ StreamedOnly = UNION {ToSet(b.said) : b \in EncodableBlocks(Kept(agg.content))}
        /\ egress.enc.noted = Losses(Kept(agg.content), client)

(* The frame that ends a stream is the last one: error frames are final    *)
(* (forward.go), and nothing follows [DONE].                               *)
Ends(frame) ==
    CASE client \in {"anthropic", "chat"} -> frame.f = "end"
      [] OTHER -> frame.f \in {"finish", "error"}
NothingFollowsTheEnd == \A k \in DOMAIN wire : Ends(wire[k]) => k = Len(wire)

=============================================================================
