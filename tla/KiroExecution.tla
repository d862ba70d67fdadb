--------------------------- MODULE KiroExecution ---------------------------
(***************************************************************************)
(* One kiro request executed by Upstream                                   *)
(* (src/upstream/service/kiro_execute.go): the provider's event stream is  *)
(* cut into frames (src/upstream/proto/kiro/eventstream.go), decoded       *)
(* (src/upstream/proto/kiro/decode.go) and written to the caller event by  *)
(* event.  A goroutine reads up to the first event while the handler waits *)
(* for it or for a timer; after that the handler reads on itself, and a    *)
(* second timer closes the body when no Read returns for too long.         *)
(*                                                                         *)
(* A text is the number of the frame that said it first; the arguments of  *)
(* a call are two fragments, which parse together or not at all, and all   *)
(* calls are of one tool.  The braces of a frame match, also of a damaged  *)
(* one: after a frame that is never closed nothing comes out of the        *)
(* parser, as if the provider had stopped inside it.                       *)
(***************************************************************************)
EXTENDS Integers, Sequences, FiniteSets, SequencesExt

CONSTANTS
    MaxFrames,    \* bound: frames the provider sends
    LooksClosed,  \* calls whose first fragment has the braces and quotes of a whole JSON
    Timeouts      \* timers that are configured; whether others are is left open

ASSUME FramesAssumption ==
    MaxFrames \in Nat /\ LooksClosed \subseteq Nat /\ Timeouts \subseteq {"first_event", "read"}

VARIABLES
    provider,  \* frames sent, whether all repeat name and id, and how it ended
    net,       \* frames on the way to the body, by their last bytes
    partial,   \* front: an earlier Read has brought the first bytes of the next frame;
               \* back: the first bytes of one more frame are on the way, after net
    closed,    \* the body was closed, or the context of the call has ended
    adapter,   \* EventStreamToSSE: frames pending, last content, whether the parser
               \* keeps the first bytes of a frame, how reading ended
    decoder,   \* streamDecoder
    reader,    \* the goroutine of awaitKiroFirstEvents: "none", "reading" or "gone"
    channel,   \* its result, once sent
    phase,     \* "asked", "first", "streaming", then "refused" or "done"
    emitted,   \* events written to the caller
    present    \* the caller still reads

vars == <<provider, net, partial, closed, adapter, decoder, reader, channel, phase, emitted, present>>

Over == phase \in {"refused", "done"}

-----------------------------------------------------------------------------
(* frames: kind, call or text number, the fragments of arguments, whether   *)
(* the call is named and complete in it; a text may spell out a call        *)

Frame(kind, n, args, named, stop) ==
    [kind |-> kind, n |-> n, args |-> args, named |-> named, stop |-> stop]
Content(n, calls) == Frame("content", n, calls, FALSE, FALSE)
Thinking(n) == Frame("thinking", n, <<>>, FALSE, FALSE)
Signature == Frame("signature", 0, <<>>, FALSE, FALSE)
Usage == Frame("usage", 0, <<>>, FALSE, FALSE)
Damaged == Frame("damaged", 0, <<>>, FALSE, FALSE)
Garbled == Frame("garbled", 0, <<>>, FALSE, FALSE)   \* a content that does not parse
Start(call) == Frame("tool", call, <<>>, TRUE, FALSE)
Input(call, part, named) == Frame("tool", call, <<<<call, part>>>>, named, FALSE)
Stop(call, named) == Frame("tool", call, <<>>, named, TRUE)
Arguments(call) == <<<<call, 1>>, <<call, 2>>>>
Whole(call) == Frame("tool", call, Arguments(call), TRUE, TRUE)

Parses(args) == Len(args) # 1

(* diagnoseJSONTruncation counts braces, brackets and quotes *)
LooksTruncated(args) == ~Parses(args) /\ args[1][1] \notin LooksClosed

-----------------------------------------------------------------------------
(* what the provider may send next *)

Sent == provider.sent
Calls == {f.n : f \in {g \in ToSet(Sent) : g.kind = "tool" /\ g.named}}
Given(call) ==
    IF Whole(call) \in ToSet(Sent) THEN Arguments(call)
    ELSE FlattenSeq([i \in DOMAIN Sent |->
             IF Sent[i].kind = "tool" /\ Sent[i].n = call THEN Sent[i].args ELSE <<>>])
Stopped(call) == \E f \in ToSet(Sent) : f.kind = "tool" /\ f.n = call /\ f.stop
Half == {call \in Calls : ~Parses(Given(call))}
Unstopped == {call \in Calls : ~Stopped(call)}
LastContent == {i \in DOMAIN Sent : /\ Sent[i].kind = "content"
                                   /\ \A j \in DOMAIN Sent : Sent[j].kind = "content" => j <= i}

Frames ==
    LET n        == Len(Sent) + 1
        newest(c) == \A d \in Calls : d <= c
        more(c)  == ~Stopped(c) /\ Len(Given(c)) < 2 /\ newest(c)
        mayStart == Half = {} /\ (provider.repeats \/ Unstopped = {})
    IN  {Content(n, <<>>), Content(n, Arguments(n)), Thinking(n), Signature, Damaged, Garbled}
        \cup {Sent[i] : i \in LastContent}
        \cup {Content(n, Arguments(c)) : c \in {d \in Calls : Given(d) = Arguments(d)}}
        \cup (IF mayStart THEN {Start(n), Whole(n)} ELSE {})
        \cup (IF Unstopped = {} THEN {f \in ToSet(Sent) : f = Whole(f.n)} ELSE {})
        \cup {Input(c, Len(Given(c)) + 1, provider.repeats) : c \in {d \in Calls : more(d)}}
        \cup {Stop(c, provider.repeats) : c \in Unstopped \ Half}
        \cup (IF Unstopped = {} THEN {Usage} ELSE {})

(* a frame without a name has no id either: it is about the call in progress *)
OnTheWire(f) == IF f.kind = "tool" /\ ~f.named THEN [f EXCEPT !.n = 0] ELSE f

More == /\ phase # "asked" /\ provider.end = "open"
        /\ Len(Sent) < MaxFrames /\ Usage \notin ToSet(Sent)

(* the first bytes of a frame, which a Read may return without the others *)
Begin ==
    /\ More /\ ~partial.back /\ (partial.front => net # <<>>)
    /\ partial' = [partial EXCEPT !.back = TRUE]
    /\ UNCHANGED <<provider, net, closed, adapter, decoder, reader, channel, phase, emitted, present>>

(* a frame, or the rest of it *)
Send(f) ==
    /\ More
    /\ provider' = [provider EXCEPT !.sent = Append(@, f)]
    /\ net' = Append(net, OnTheWire(f)) /\ partial' = [partial EXCEPT !.back = FALSE]
    /\ UNCHANGED <<closed, adapter, decoder, reader, channel, phase, emitted, present>>

(* the answer may end, or the connection break, anywhere *)
End(how) ==
    /\ phase # "asked" /\ provider.end = "open"
    /\ provider' = [provider EXCEPT !.end = how]
    /\ UNCHANGED <<net, partial, closed, adapter, decoder, reader, channel, phase, emitted, present>>

ProviderSteps == Begin \/ (\E f \in Frames : Send(f)) \/ (\E how \in {"closed", "broken"} : End(how))

-----------------------------------------------------------------------------
(* EventStreamToSSE *)

(* p.buf keeps the first bytes of a frame for the Read that brings the rest, *)
(* which without them are of no use                                          *)
Forgotten(buf) == FALSE
LeftOver(buf) == partial.back \/ (net = <<>> /\ buf)
Complete(buf, chunk) == IF partial.front /\ ~buf /\ chunk # <<>> THEN Tail(chunk) ELSE chunk

(* a content equal to the one before, and one that does not parse, is not   *)
(* passed on; other damage is left to the decoder                           *)
classify(parser, f) ==
    IF f = Garbled \/ (f.kind = "content" /\ f.n = parser.last) THEN parser
    ELSE [last |-> IF f.kind = "content" THEN f.n ELSE parser.last,
          out |-> Append(parser.out, f)]

feed(last, chunk) ==
    LET fed[i \in 0 .. Len(chunk)] ==
            IF i = 0 THEN [last |-> last, out |-> <<>>] ELSE classify(fed[i - 1], chunk[i])
    IN  fed[Len(chunk)]

(* the error of a Read that also brought events is not the one the next Read *)
(* returns: that one returns EOF                                             *)
EndOfReading(err, pending) == IF err = "none" \/ pending = <<>> THEN err ELSE "eof"

Reading == (reader = "reading" \/ phase = "streaming") /\ adapter.pending = <<>> /\ adapter.end = "none"

(* the end may be seen with the last frames or by a Read of its own *)
Errors ==
    (IF net # <<>> \/ partial.back THEN {"none"} ELSE {})
    \cup (CASE provider.end = "open" -> {} [] provider.end = "broken" -> {"error"} [] OTHER -> {"eof"})

(* a Read returns what has arrived by then, which may end inside a frame *)
Read ==
    /\ Reading /\ ~closed
    /\ \E err \in Errors :
          LET fed == feed(adapter.last, Complete(adapter.buf, net))
          IN  adapter' = [pending |-> fed.out, last |-> fed.last, buf |-> LeftOver(adapter.buf),
                          end |-> EndOfReading(err, fed.out)]
    /\ net' = <<>> /\ partial' = [front |-> partial.back \/ (net = <<>> /\ partial.front), back |-> FALSE]
    /\ UNCHANGED <<provider, closed, decoder, reader, channel, phase, emitted, present>>

ReadClosed ==
    /\ Reading /\ closed
    /\ adapter' = [adapter EXCEPT !.end = "error"]
    /\ UNCHANGED <<provider, net, partial, closed, decoder, reader, channel, phase, emitted, present>>

-----------------------------------------------------------------------------
(* streamDecoder: events it returns are collected in its field out *)

Event(ev, at, x) == [ev |-> ev, at |-> at, x |-> x]
Emit(d, ev, at, x) == [d EXCEPT !.out = Append(@, Event(ev, at, x))]

NoTool == [id |-> 0, args |-> <<>>]
NoBlock == [open |-> FALSE, at |-> 0, signed |-> FALSE]
NewDecoder ==
    [started |-> FALSE, next |-> 0, thinking |-> NoBlock, text |-> NoBlock, current |-> NoTool,
     tools |-> <<>>, said |-> <<>>, usage |-> FALSE, out |-> <<>>]

ensureStarted(d) ==
    IF d.started THEN d ELSE Emit([d EXCEPT !.started = TRUE], "message_start", 0, <<>>)

ThinkingEnd(block) ==
    IF ~block.open THEN <<>>
    ELSE (IF block.signed THEN <<>> ELSE <<Event("signature", block.at, <<>>)>>)
         \o <<Event("stop", block.at, <<>>)>>

closeThinkingBlock(d) == [d EXCEPT !.out = @ \o ThinkingEnd(d.thinking), !.thinking.open = FALSE]

ensureTextOpen(d) ==
    IF d.text.open THEN d
    ELSE [Emit(d, "text", d.next, <<>>)
             EXCEPT !.text = [NoBlock EXCEPT !.open = TRUE, !.at = d.next], !.next = @ + 1]

onContent(d, f) ==
    LET ready == ensureTextOpen(closeThinkingBlock(d))
    IN  [Emit(ready, "delta", ready.text.at, <<f.n>>) EXCEPT !.said = Append(@, f)]

onThinking(d, f) ==
    LET ready == IF d.thinking.open THEN d
                 ELSE [Emit(d, "thinking", d.next, <<>>)
                          EXCEPT !.thinking = [NoBlock EXCEPT !.open = TRUE, !.at = d.next],
                                 !.next = @ + 1]
    IN  Emit(ready, "delta", ready.thinking.at, <<f.n>>)

finalizeTool(d) ==
    IF d.current = NoTool THEN d
    ELSE [d EXCEPT !.tools = Append(@, d.current), !.current = NoTool]

onToolStart(d, f) ==
    LET opened == [finalizeTool(d) EXCEPT !.current = [id |-> f.n, args |-> f.args]]
    IN  IF f.stop THEN finalizeTool(opened) ELSE opened

onToolByName(d, f) ==
    IF f.named THEN onToolStart(d, f)
    ELSE LET more == [d EXCEPT !.current.args = @ \o f.args]
         IN  IF f.stop THEN finalizeTool(more) ELSE more

(* arguments first, then the end, then a new call; a late frame of a former *)
(* call does not touch the one in progress                                  *)
onTool(d, f) ==
    LET busy == d.current # NoTool
        mine == busy /\ f.n \in {0, d.current.id}
        more == [d EXCEPT !.current.args = @ \o f.args]
    IN  CASE f.args # <<>> /\ mine -> IF f.stop THEN finalizeTool(more) ELSE more
          [] f.args = <<>> /\ f.stop /\ busy -> IF mine THEN finalizeTool(d) ELSE d
          [] OTHER -> IF f.named THEN onToolStart(d, f) ELSE d

DecoderFeed(decoded, f) ==
    LET d == ensureStarted([decoded EXCEPT !.out = <<>>])
    IN  CASE f.kind = "tool" -> onTool(d, f)
          [] f.kind = "content" -> onContent(d, f)
          [] f.kind = "thinking" -> onThinking(d, f)
          [] f.kind = "signature" /\ d.thinking.open /\ ~d.thinking.signed ->
                [Emit(d, "signature", d.thinking.at, <<>>) EXCEPT !.thinking.signed = TRUE]
          [] f.kind = "usage" -> [d EXCEPT !.usage = TRUE]
          [] OTHER -> d

(* of the calls with one id the one with the fuller arguments, and of equal *)
(* calls the first                                                          *)
Better(new, old) ==
    \/ Parses(new.args) /\ ~Parses(old.args)
    \/ Parses(new.args) = Parses(old.args) /\ Len(new.args) > Len(old.args)

SpelledOut(said) ==
    FlattenSeq([i \in DOMAIN said |->
        IF said[i].args = <<>> THEN <<>> ELSE <<[id |-> -i, args |-> said[i].args]>>])

dedupToolCalls(tools) ==
    LET Same(i)  == {j \in DOMAIN tools : tools[j].id = tools[i].id}
        Fullest(i) == CHOOSE j \in Same(i) :
                          \A k \in Same(i) : k # j => IF k < j THEN Better(tools[j], tools[k])
                                                              ELSE ~Better(tools[k], tools[j])
        calls    == [i \in DOMAIN tools |-> tools[Fullest(i)]]
        New(i)   == \A j \in 1..(i - 1) : calls[j].args # calls[i].args
    IN  FlattenSeq([i \in DOMAIN tools |-> IF New(i) THEN <<calls[i]>> ELSE <<>>])

ContentTruncatedAnyway(d) == d.said # <<>> /\ d.tools = <<>>
ContentTruncated(d) == ~d.usage /\ d.said # <<>> /\ d.tools = <<>>
TruncatedTools(d) == {t.id : t \in {u \in ToSet(d.tools) : LooksTruncated(u.args)}}

StopReason(d) ==
    CASE ContentTruncated(d) -> "max_tokens"
      [] d.tools # <<>> -> "tool_use"
      [] OTHER -> "end_turn"

LastTools(d) == dedupToolCalls(finalizeTool(d).tools \o SpelledOut(d.said))

DecoderFinish(decoded) ==
    \E d \in {closeThinkingBlock(ensureStarted([decoded EXCEPT
                     !.out = <<>>, !.tools = LastTools(decoded), !.current = NoTool]))} :
        LET text    == IF d.text.open THEN <<Event("stop", d.text.at, <<>>)>> ELSE <<>>
            Tool(i) == LET at == d.next + i - 1
                       IN  <<Event("tool", at, <<d.tools[i].id>>), Event("input", at, d.tools[i].args),
                             Event("stop", at, <<>>)>>
        IN  decoder' = [d EXCEPT !.out =
                            @ \o text \o FlattenSeq([i \in DOMAIN d.tools |-> Tool(i)])
                              \o <<Event("message_delta", 0, <<StopReason(d)>>)>>]

(* what the last event says of calls and content that were cut *)
Report(d) == Event("message_stop", 0, [calls |-> TruncatedTools(d), content |-> ContentTruncated(d)])

-----------------------------------------------------------------------------
(* ExecuteKiro up to the first event *)

Init ==
    /\ provider \in [sent : {<<>>}, repeats : BOOLEAN, end : {"open"}]
    /\ net = <<>> /\ partial = [front |-> FALSE, back |-> FALSE] /\ closed = FALSE
    /\ adapter = [pending |-> <<>>, last |-> 0, buf |-> FALSE, end |-> "none"]
    /\ decoder = NewDecoder
    /\ reader = "none" /\ channel = <<>>
    /\ phase = "asked" /\ emitted = <<>> /\ present = TRUE

(* the target is unknown or unavailable, the credentials cannot be had, the *)
(* request cannot be encoded, or the provider does not answer 2xx           *)
Refuse ==
    /\ phase = "asked" /\ phase' = "refused"
    /\ UNCHANGED <<provider, net, partial, closed, adapter, decoder, reader, channel, emitted, present>>

Accepted ==
    /\ phase = "asked" /\ phase' = "first" /\ reader' = "reading"
    /\ UNCHANGED <<provider, net, partial, closed, adapter, decoder, channel, emitted, present>>

(* the channel holds one result, so it is sent whoever still waits for it *)
RoomWhileAwaited == phase = "first"
Room == Len(channel) < 1

Result(err, events) == [err |-> err, events |-> events]

ReadFirst ==
    /\ reader = "reading" /\ Room
    /\ \/ /\ adapter.pending # <<>>
          /\ IF Head(adapter.pending) = Damaged
             THEN channel' = <<Result("decode", <<>>)>> /\ UNCHANGED decoder
             ELSE /\ decoder' = DecoderFeed(decoder, Head(adapter.pending))
                  /\ channel' = <<Result("none", decoder'.out)>>
          /\ adapter' = [adapter EXCEPT !.pending = Tail(@)]
       \/ /\ adapter.pending = <<>> /\ adapter.end # "none"
          /\ channel' = <<Result(adapter.end, <<>>)>>
          /\ UNCHANGED <<adapter, decoder>>
    /\ reader' = "gone"
    /\ UNCHANGED <<provider, net, partial, closed, phase, emitted, present>>

(* what is written to a caller that has left is lost, and ends the call *)
Written(events) == IF present THEN emitted \o events ELSE emitted

TakeFirst ==
    /\ phase = "first" /\ channel # <<>>
    /\ IF Head(channel).err # "none"
       THEN phase' = "refused" /\ closed' = TRUE /\ UNCHANGED emitted
       ELSE /\ emitted' = Written(Head(channel).events)
            /\ phase' = IF present THEN "streaming" ELSE "done"
            /\ closed' = (closed \/ ~present)
    /\ channel' = <<>>
    /\ UNCHANGED <<provider, net, partial, adapter, decoder, reader, present>>

(* the timer may win even when the result is there *)
FirstTimeout ==
    /\ phase = "first" /\ phase' = "refused" /\ closed' = TRUE
    /\ UNCHANGED <<provider, net, partial, adapter, decoder, reader, channel, emitted, present>>

-----------------------------------------------------------------------------
(* KiroExecution.Continue *)

Done(events) ==
    /\ emitted' = Written(events)
    /\ phase' = "done" /\ closed' = TRUE
    /\ UNCHANGED <<provider, net, partial, reader, channel, present>>

EvError == <<Event("error", 0, <<>>)>>

Continue ==
    /\ phase = "streaming" /\ adapter.pending # <<>>
    /\ adapter' = [adapter EXCEPT !.pending = Tail(@)]
    /\ IF Head(adapter.pending) = Damaged THEN Done(EvError) /\ UNCHANGED decoder
       ELSE /\ decoder' = DecoderFeed(decoder, Head(adapter.pending))
            /\ IF ~present /\ decoder'.out # <<>> THEN Done(<<>>)
               ELSE /\ emitted' = Written(decoder'.out)
                    /\ UNCHANGED <<provider, net, partial, closed, reader, channel, phase, present>>

(* a read error is told while the context lives; the decoder is finished    *)
(* otherwise                                                                *)
StreamEnds ==
    /\ phase = "streaming" /\ adapter.pending = <<>> /\ adapter.end # "none"
    /\ IF adapter.end = "error" /\ present THEN Done(EvError) /\ UNCHANGED decoder
       ELSE /\ DecoderFinish(decoder)
            /\ Done(Append(decoder'.out, Report(decoder')))
    /\ UNCHANGED adapter

(* the timer of readTimeoutBody is set anew by each Read that returns, so it *)
(* runs also while events are decoded and written                            *)
ReadTimeout ==
    /\ phase \in {"first", "streaming"} /\ ~closed
    /\ closed' = TRUE
    /\ UNCHANGED <<provider, net, partial, adapter, decoder, reader, channel, phase, emitted, present>>

(* the context of the call ends with the caller's connection *)
CallerLeaves ==
    /\ ~Over /\ present
    /\ present' = FALSE /\ closed' = TRUE
    /\ UNCHANGED <<provider, net, partial, adapter, decoder, reader, channel, phase, emitted>>

-----------------------------------------------------------------------------

Reads == ReadClosed \/ Read
Handler == Refuse \/ Accepted \/ TakeFirst \/ FirstTimeout \/ Continue \/ StreamEnds

Service == Reads \/ ReadFirst \/ Handler \/ ReadTimeout

Next == Service \/ ProviderSteps \/ CallerLeaves

Spec == Init /\ [][Next]_vars

(* No timer runs before the provider has answered, and the one of Read is off *)
(* unless it is configured: a provider that falls silent then holds the call  *)
(* until the caller leaves.  Everything else goes on.                         *)
LeftToTheProvider ==
    /\ ~closed
    /\ \/ phase = "asked"
       \/ /\ Reading /\ Errors = {} /\ "read" \notin Timeouts
          /\ phase = "streaming" \/ "first_event" \notin Timeouts

FairSpec == Spec /\ WF_vars(~LeftToTheProvider /\ Service)

-----------------------------------------------------------------------------
(* Properties *)

Kinds == {"content", "thinking", "signature", "usage", "damaged", "garbled", "tool"}
Pieces == Seq(Nat \X Nat)
FrameType == [kind : Kinds, n : Nat, args : Pieces, named : BOOLEAN, stop : BOOLEAN]
StopReasons == {"max_tokens", "tool_use", "end_turn"}
Reports == [calls : SUBSET Int, content : BOOLEAN]
EventType ==
    [ev : {"message_start", "text", "thinking", "delta", "signature", "stop", "tool", "error"},
     at : Nat, x : Seq(Int)]
    \cup [ev : {"input"}, at : Nat, x : Pieces]
    \cup [ev : {"message_delta"}, at : Nat, x : Seq(StopReasons)]
    \cup [ev : {"message_stop"}, at : Nat, x : Reports]
CallType == [id : Int, args : Pieces]
BlockType == [open : BOOLEAN, at : Nat, signed : BOOLEAN]
DecoderType ==
    [started : BOOLEAN, next : Nat, thinking : BlockType, text : BlockType, current : CallType,
     tools : Seq(CallType), said : Seq(FrameType), usage : BOOLEAN, out : Seq(EventType)]
Results == [err : {"none", "decode", "eof", "error"}, events : Seq(EventType)]

(* Every variable holds what the code may put there, and the channel at most *)
(* the one result its capacity allows (kiro_execute.go:305).                 *)
TypeOK ==
    /\ provider \in [sent : Seq(FrameType), repeats : BOOLEAN, end : {"open", "closed", "broken"}]
    /\ net \in Seq(FrameType) /\ closed \in BOOLEAN /\ present \in BOOLEAN
    /\ partial \in [front : BOOLEAN, back : BOOLEAN]
    /\ adapter \in [pending : Seq(FrameType), last : Nat, buf : BOOLEAN, end : {"none", "eof", "error"}]
    /\ decoder \in DecoderType
    /\ reader \in {"none", "reading", "gone"}
    /\ Len(channel) <= 1 /\ channel \in Seq(Results)
    /\ phase \in {"asked", "first", "streaming", "refused", "done"}
    /\ emitted \in Seq(EventType)

Finished == emitted # <<>> /\ Last(emitted).ev = "message_stop"
Stopping == emitted[Len(emitted) - 1].x[1]
Reported == Last(emitted).x

Places(ev) == {i \in DOMAIN emitted : emitted[i].ev = ev}
OpenedAs(kind, at) == \E i \in Places(kind) : emitted[i].at = at
Deltas(kind) == {i \in Places("delta") : OpenedAs(kind, emitted[i].at)}
Heard(kind) == {emitted[i].x[1] : i \in Deltas(kind)}

(* the provider's texts of a kind: their numbers rise, and one that is sent *)
(* again at once keeps its number                                           *)
Told(kind) == {Sent[i].n : i \in {j \in DOMAIN Sent : Sent[j].kind = kind}}

(* What the caller has been sent is a beginning of what the provider said, a  *)
(* text it repeats at once being said once, though a Read may end inside a    *)
(* frame, and all of it when the answer ends by itself: but for contents that *)
(* do not parse, of which nobody is told, and a frame the provider has not    *)
(* finished (eventstream.go:39, eventstream.go:81, kiro_execute.go:276).      *)
NothingRepeatedOrLost ==
    \A pair \in {<<"text", "content">>, <<"thinking", "thinking">>} :
        LET heard == Heard(pair[1])
            told  == Told(pair[2])
        IN  /\ \A i, j \in Deltas(pair[1]) : i < j => emitted[i].x[1] < emitted[j].x[1]
            /\ heard \subseteq told
            /\ \A m \in heard, n \in told : n < m => n \in heard
            /\ Finished => heard = told

(* The calls of a finished answer are those the provider made, each once and  *)
(* with its own arguments, though every frame may repeat the call's name and  *)
(* an end may come late.  Of those whose arguments were cut, which arrive as  *)
(* they are, the ones are reported that also look it (decode.go:253,          *)
(* decode.go:131, decode.go:223).                                             *)
CallsArriveWholeOrReported ==
    LET made      == {i \in Places("tool") : TRUE}
        arguments == {emitted[i + 1].x : i \in made}
        spelled   == {f.args : f \in {g \in ToSet(Sent) : g.kind = "content"}} \ {<<>>}
    IN  Finished =>
            /\ arguments = spelled \cup {Given(c) : c \in Calls}
            /\ Cardinality(arguments) = Cardinality(made)
            /\ \A i \in made : emitted[i].x[1] \in Calls => emitted[i + 1].x = Given(emitted[i].x[1])
            /\ Reported.calls = Half \ LooksClosed

(* An answer with text and no call ends as cut off, and says so to the        *)
(* service, exactly if the provider ended it without its closing frame; an    *)
(* error is told only after a damaged frame or a Read that failed             *)
(* (decode.go:234, kiro_execute.go:255).                                      *)
CutAnswersSaySo ==
    /\ Finished =>
          LET cut == /\ Usage \notin ToSet(Sent) /\ Calls = {}
                     /\ Deltas("text") # {} /\ \A f \in ToSet(Sent) : f.args = <<>>
          IN  (Stopping = "max_tokens") = cut /\ Reported.content = cut
    /\ Places("error") # {} =>
          adapter.end = "error" \/ Damaged \in ToSet(Sent)

(* The call ends, its body is closed, and the goroutine that read the first   *)
(* event is gone, though nobody may be waiting for its result any more:       *)
(* unless the provider falls silent for good where no timer runs              *)
(* (kiro_execute.go:171, kiro_execute.go:306, kiro_execute.go:383).           *)
EndsAndLeavesNobodyBehind ==
    \/ <>[](Over /\ reader # "reading" /\ (reader = "gone" => closed))
    \/ <>[]LeftToTheProvider
=============================================================================
