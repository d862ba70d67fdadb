------------------------- MODULE RequestRelayProofs -------------------------
(***************************************************************************)
(* Proofs about RequestRelay, for histories of any length from any client  *)
(* protocol: the choice of tools that an attempt sends is the client's, or *)
(* a note says it is not, and the tools it names are there.                *)
(***************************************************************************)
EXTENDS RequestRelay, FiniteSetTheorems, WellFoundedInduction, TLAPS

(* Induction: a set of numbers that holds 0, and with each number the next,  *)
(* holds them all.                                                           *)

Less == {p \in Nat \X Nat : p[1] < p[2]}

LEMMA LessIsWellFounded == IsWellFoundedOn(Less, Nat)
  BY NatLessThanWellFounded, Zenon DEF OpToRel, Less

LEMMA Induction ==
  ASSUME NEW n \in Nat, NEW T, 0 \in T, \A i \in 0 .. n - 1 : i \in T => i + 1 \in T
  PROVE  \A i \in 0 .. n : i \in T
<1> DEFINE Outside == {i \in 0 .. n : i \notin T}
<1> SUFFICES ASSUME Outside # {}
             PROVE  FALSE
  OBVIOUS
<1>1. Outside \subseteq Nat
  OBVIOUS
<1>2. PICK least \in Outside : \A i \in Outside : ~(<<i, least>> \in Less)
  <2> HIDE DEF Outside
  <2> QED
    BY <1>1, LessIsWellFounded, WFMin
<1>3. least \in 1 .. n /\ least - 1 \in 0 .. n - 1
  OBVIOUS
<1>4. least - 1 \in Outside
  BY <1>3
<1>5. <<least - 1, least>> \in Less
  BY <1>3 DEF Less
<1> QED
  BY <1>2, <1>4, <1>5

(* A recursion over 0 .. n has a solution.                                   *)
Solutions(n, A, base, step) ==
    {f \in [0 .. n -> A] : f[0] = base /\ \A i \in 1 .. n : f[i] = step[<<f[i - 1], i>>]}

LEMMA RecursionSolved ==
  ASSUME NEW n \in Nat, NEW A, NEW base \in A, NEW step \in [A \X (1 .. n) -> A]
  PROVE  Solutions(n, A, base, step) # {}
<1> DEFINE Solved(m) == \E f \in [0 .. m -> A] :
               f[0] = base /\ \A i \in 1 .. m : f[i] = step[<<f[i - 1], i>>]
           T == {m \in 0 .. n : Solved(m)}
<1>1. 0 \in T
  <2> DEFINE f == [i \in 0 .. 0 |-> base]
  <2>1. f \in [0 .. 0 -> A] /\ f[0] = base
    OBVIOUS
  <2>2. Solved(0)
    <3> HIDE DEF f
    <3>1. \A i \in 1 .. 0 : f[i] = step[<<f[i - 1], i>>]
      OBVIOUS
    <3> QED
      BY <2>1, <3>1
  <2> QED
    BY <2>2
<1>2. ASSUME NEW m \in 0 .. n - 1, m \in T
      PROVE  m + 1 \in T
  <2>1. PICK f \in [0 .. m -> A] :
             f[0] = base /\ \A i \in 1 .. m : f[i] = step[<<f[i - 1], i>>]
    BY <1>2
  <2> DEFINE g == [i \in 0 .. m + 1 |-> IF i = m + 1 THEN step[<<f[m], m + 1>>] ELSE f[i]]
  <2>2. f[m] \in A /\ <<f[m], m + 1>> \in A \X (1 .. n)
    BY <1>2
  <2>3. step[<<f[m], m + 1>>] \in A
    BY <2>2
  <2>4. g \in [0 .. m + 1 -> A]
    BY <2>3
  <2>5. g[0] = base
    BY <2>1
  <2>6. ASSUME NEW i \in 1 .. m + 1
        PROVE  g[i] = step[<<g[i - 1], i>>]
    <3>1. CASE i = m + 1
      <4>1. g[m + 1] = step[<<f[m], m + 1>>]
        OBVIOUS
      <4>2. m \in 0 .. m + 1 /\ m # m + 1
        OBVIOUS
      <4>3. g[m] = f[m]
        BY <4>2
      <4>4. i - 1 = m
        BY <3>1
      <4> HIDE DEF g
      <4> QED
        BY <3>1, <4>1, <4>3, <4>4
    <3>2. CASE i \in 1 .. m
      <4>1. g[i] = f[i] /\ g[i - 1] = f[i - 1]
        BY <3>2
      <4> QED
        BY <3>2, <2>1, <4>1
    <3> QED
      BY <3>1, <3>2
  <2>7. Solved(m + 1)
    <3> HIDE DEF g
    <3> QED
      BY <2>4, <2>5, <2>6
  <2> QED
    BY <2>7
<1>3. n \in T
  <2> HIDE DEF T
  <2> QED
    BY <1>1, <1>2, Induction
<1> QED
  BY <1>3 DEF Solutions

-----------------------------------------------------------------------------
(* What FlattenSeq returns holds what the sequences hold.                    *)
LEMMA Flattened ==
  ASSUME NEW S, NEW seqs \in Seq(Seq(S))
  PROVE  /\ FlattenSeq(seqs) \in Seq(S)
         /\ ToSet(FlattenSeq(seqs)) = UNION {ToSet(seqs[i]) : i \in DOMAIN seqs}
<1> DEFINE n == Len(seqs)
<1>1. CASE n = 0
  <2>1. seqs = <<>>
    BY <1>1
  <2> QED
    BY <2>1 DEF FlattenSeq, ToSet
<1>2. CASE n # 0
  <2> DEFINE Body(f) == [i \in 1 .. n |-> IF i = 1 THEN seqs[i] ELSE f[i - 1] \o seqs[i]]
             flatten == CHOOSE f : f = Body(f)
             step == [p \in Seq(S) \X (1 .. n) |-> p[1] \o seqs[p[2]]]
  <2>0. n \in Nat /\ n >= 1 /\ DOMAIN seqs = 1 .. n /\ \A i \in 1 .. n : seqs[i] \in Seq(S)
    BY <1>2
  <2>1. step \in [Seq(S) \X (1 .. n) -> Seq(S)]
    BY <2>0
  <2>2. PICK f : /\ f \in [0 .. n -> Seq(S)]
                 /\ f[0] = <<>> /\ \A i \in 1 .. n : f[i] = step[<<f[i - 1], i>>]
    <3> DEFINE A == Seq(S)
               base == <<>>
    <3>1. base \in A /\ step \in [A \X (1 .. n) -> A] /\ n \in Nat
      BY <2>0, <2>1
    <3> HIDE DEF step, n, A, base
    <3>2. Solutions(n, A, base, step) # {}
      BY <3>1, RecursionSolved
    <3> QED
      BY <3>2 DEF A, base, Solutions
  <2>3. ASSUME NEW i \in 1 .. n
        PROVE  f[i] = f[i - 1] \o seqs[i]
    <3>1. i - 1 \in 0 .. n
      BY <2>0
    <3>2. <<f[i - 1], i>> \in Seq(S) \X (1 .. n)
      BY <2>2, <3>1
    <3>3. step[<<f[i - 1], i>>] = f[i - 1] \o seqs[i]
      BY <3>2
    <3> QED
      BY <2>2, <3>3
  <2>4. f[1] = seqs[1]
    <3>1. 1 \in 1 .. n /\ 1 - 1 = 0
      BY <2>0
    <3>2. f[1] = f[0] \o seqs[1] /\ seqs[1] \in Seq(S)
      <4> HIDE DEF n
      <4> QED
        BY <2>0, <2>3, <3>1
    <3> QED
      BY <2>2, <3>2
  <2> DEFINE h == [i \in 1 .. n |-> f[i]]
  <2>5. h = Body(h)
    <3>1. ASSUME NEW i \in 1 .. n
          PROVE  h[i] = IF i = 1 THEN seqs[i] ELSE h[i - 1] \o seqs[i]
      <4>1. CASE i = 1
        BY <4>1, <2>4
      <4>2. CASE i # 1
        <5>1. i - 1 \in 1 .. n
          BY <4>2, <2>0
        <5>2. h[i - 1] = f[i - 1] /\ h[i] = f[i]
          BY <5>1
        <5> HIDE DEF h
        <5> QED
          BY <4>2, <5>2, <2>3
      <4> QED
        BY <4>1, <4>2
    <3> HIDE DEF n
    <3>2. h = [i \in 1 .. n |-> h[i]]
      OBVIOUS
    <3> HIDE DEF h
    <3> QED
      BY <3>1, <3>2
  <2>6. flatten = Body(flatten)
    <3> HIDE DEF Body
    <3> QED
      BY <2>5
  <2>7. FlattenSeq(seqs) = flatten[n]
    BY <1>2 DEF FlattenSeq
  <2> HIDE DEF flatten
  <2>8. flatten[1] = seqs[1] /\ \A i \in 2 .. n : flatten[i] = flatten[i - 1] \o seqs[i]
    <3> HIDE DEF n
    <3>1. \A i \in 1 .. n : flatten[i] = IF i = 1 THEN seqs[i] ELSE flatten[i - 1] \o seqs[i]
      BY <2>6
    <3>2. 1 \in 1 .. n /\ \A i \in 2 .. n : i \in 1 .. n /\ i # 1
      BY <2>0
    <3> QED
      BY <3>1, <3>2
  <2> DEFINE Union(i) == UNION {ToSet(seqs[j]) : j \in 1 .. i}
             Good(i) == flatten[i] \in Seq(S) /\ ToSet(flatten[i]) = Union(i)
             T == {i \in 0 .. n : i = 0 \/ Good(i)}
  <2>9. ASSUME NEW i \in 0 .. n - 1, i \in T
        PROVE  i + 1 \in T
    <3>1. CASE i = 0
      BY <3>1, <2>0, <2>8
    <3>2. CASE i # 0
      <4>1. flatten[i] \in Seq(S) /\ ToSet(flatten[i]) = Union(i)
        BY <2>9, <3>2
      <4>2. flatten[i + 1] = flatten[i] \o seqs[i + 1] /\ seqs[i + 1] \in Seq(S)
        <5>1. i + 1 \in 2 .. n /\ (i + 1) - 1 = i /\ i + 1 \in 1 .. n
          BY <3>2, <2>0
        <5> HIDE DEF n
        <5> QED
          BY <5>1, <2>0, <2>8
      <4>3. flatten[i + 1] \in Seq(S)
        BY <4>1, <4>2
      <4>4. ToSet(flatten[i + 1]) = ToSet(flatten[i]) \cup ToSet(seqs[i + 1])
        <5> HIDE DEF Union
        <5>1. ASSUME NEW a \in Seq(S), NEW b \in Seq(S)
              PROVE  ToSet(a \o b) = ToSet(a) \cup ToSet(b)
          <6>1. ToSet(a \o b) \subseteq ToSet(a) \cup ToSet(b)
            BY DEF ToSet
          <6>2. \A j \in DOMAIN a : j \in DOMAIN (a \o b) /\ (a \o b)[j] = a[j]
            OBVIOUS
          <6>3. \A j \in DOMAIN b : Len(a) + j \in DOMAIN (a \o b) /\ (a \o b)[Len(a) + j] = b[j]
            OBVIOUS
          <6>4. ToSet(a) \subseteq ToSet(a \o b)
            BY <6>2 DEF ToSet
          <6>5. ToSet(b) \subseteq ToSet(a \o b)
            BY <6>3 DEF ToSet
          <6> QED
            BY <6>1, <6>4, <6>5
        <5> QED
          BY <4>1, <4>2, <5>1
      <4>5. Union(i + 1) = Union(i) \cup ToSet(seqs[i + 1])
        <5>1. 1 .. i + 1 = (1 .. i) \cup {i + 1}
          BY <3>2
        <5> QED
          BY <5>1, Zenon
      <4>6. Good(i + 1) /\ i + 1 \in 0 .. n
        <5> HIDE DEF Union
        <5> QED
          BY <4>1, <4>3, <4>4, <4>5, <2>0
      <4> QED
        BY <4>6
    <3> QED
      BY <3>1, <3>2
  <2>10. n \in T
    <3>1. 0 \in T
      BY <2>0
    <3> HIDE DEF T, n
    <3>2. \A i \in 0 .. n : i \in T
      BY <2>0, <2>9, <3>1, Induction
    <3> QED
      BY <2>0, <3>2
  <2> QED
    BY <1>2, <2>0, <2>7, <2>10
<1> QED
  BY <1>1, <1>2


-----------------------------------------------------------------------------
(* What the wire and the attempts hold.                                    *)

FunctionNames == {"f", "g"}
HostedNames == {"web_search", "text_editor", "file_search", "google_search", "url_context"}

WireOK ==
  /\ wire = [client |-> wire.client, sent |-> wire.sent, tools |-> wire.tools,
             choice |-> wire.choice, thinking |-> wire.thinking]
  /\ wire.client \in Clients
  /\ wire.tools \in ToolLists(wire.client)
  /\ wire.choice \in Wishes(wire.client)

TheAttempt(target, forced) ==
  [body |-> EncodeRequest(Overridden(request, forced), target),
   notes |-> Diagnose(request, target), forced |-> forced]

(* An attempt is one at the request as it was decoded, whatever came before. *)
Carried ==
  /\ WireOK
  /\ request # NoRequest => request = DecodeRequest(wire)
  /\ attempt # NoAttempt =>
       /\ request # NoRequest
       /\ \E target \in Targets, forced \in BOOLEAN : attempt = TheAttempt(target, forced)

LEMMA NoWishIsAWish ==
  ASSUME NEW client \in Clients
  PROVE  NoWishOf(client) \in Wishes(client) /\ Functions \in ToolLists(client)
  BY DEF NoWishOf, Wishes, Clients, AnthropicName, ChatName, ResponsesName, GeminiName,
         ToolLists

(* A request on its way is what its client wrote, decoded, and the last      *)
(* attempt is its encoding, as long as it goes on.                           *)
THEOREM CarriedAlways == Spec => []Carried
<1>1. Init => Carried
  <2> SUFFICES ASSUME Init PROVE Carried
    OBVIOUS
  <2>1. PICK c \in Clients : wire = [client |-> c, sent |-> <<>>, tools |-> Functions,
                                       choice |-> NoWishOf(c), thinking |-> FALSE]
    BY DEF Init
  <2>2. WireOK
    BY <2>1, NoWishIsAWish DEF WireOK
  <2> QED
    BY <2>2 DEF Init, Carried
<1>2. Carried /\ [Next]_vars => Carried'
  <2> SUFFICES ASSUME Carried, [Next]_vars PROVE Carried'
    OBVIOUS
  <2>1. CASE Continue
    <3>1. PICK turn : wire' = [wire EXCEPT !.sent = Append(@, turn)]
      BY <2>1 DEF Continue
    <3>2. WireOK'
      BY <3>1 DEF WireOK, Carried
    <3> QED
      BY <2>1, <3>2 DEF Continue, Carried
  <2>2. CASE Send
    <3>1. PICK tools \in ToolLists(wire.client), choice \in Wishes(wire.client), thinking \in BOOLEAN :
             /\ wire' = [wire EXCEPT !.tools = tools, !.choice = choice, !.thinking = thinking]
             /\ request' = DecodeRequest(wire')
      BY <2>2 DEF Send
    <3>2. WireOK'
      BY <3>1 DEF WireOK, Carried
    <3>3. request = NoRequest /\ attempt' = attempt
      BY <2>2 DEF Send
    <3> QED
      BY <3>1, <3>2, <3>3 DEF Carried
  <2>3. CASE Attempt
    <3>1. PICK target \in Targets, forced \in BOOLEAN : AttemptOn(target, forced)
      BY <2>3 DEF Attempt
    <3>2. attempt' = TheAttempt(target, forced) /\ wire' = wire /\ request' = request /\ request # NoRequest
      BY <3>1 DEF AttemptOn, TheAttempt
    <3>3. attempt' = TheAttempt(target, forced)'
      BY <3>2 DEF TheAttempt
    <3>4. WireOK'
      BY <3>2 DEF WireOK, Carried
    <3> QED
      BY <3>2, <3>3, <3>4 DEF Carried
  <2>4. CASE UNCHANGED vars
    BY <2>4 DEF vars, Carried, WireOK, TheAttempt
  <2> QED
    BY <2>1, <2>2, <2>3, <2>4 DEF Next
<1> QED
  BY <1>1, <1>2, PTL DEF Spec

-----------------------------------------------------------------------------
(* The choice of a decoded request.                                        *)

Modes == {"auto", "any", "none", "tool", "absent"}
Nameable == {"f", "g", "h"}

(* A choice has a mode, or is kept raw; one that forces a tool names one.    *)
ChoiceOK(c) ==
  /\ c = [mode |-> c.mode, name |-> c.name, allowed |-> c.allowed, raw |-> c.raw]
  /\ c.raw = "" => c.mode \in Modes
  /\ c.raw # "" => c.mode = ""
  /\ c.mode = "tool" => c.name \in Nameable

LEMMA NamedChoice ==
  ASSUME NEW mode \in Modes, NEW name, mode = "tool" => name \in Nameable, NEW allowed
  PROVE  ChoiceOK(Choice(mode, name, allowed))
  BY DEF ChoiceOK, Choice

LEMMA RawChoiceOK ==
  ASSUME NEW type, type # ""
  PROVE  ChoiceOK(RawChoice(type))
<1>1. ASSUME NEW none, NEW c, c = Choice("", "", none)
      PROVE  /\ [c EXCEPT !.raw = type].mode = "" /\ [c EXCEPT !.raw = type].name = ""
             /\ [c EXCEPT !.raw = type].raw = type /\ [c EXCEPT !.raw = type].allowed = none
             /\ DOMAIN [c EXCEPT !.raw = type] = {"mode", "name", "allowed", "raw"}
  BY <1>1 DEF Choice
<1>2. PICK none : none = {}
  OBVIOUS
<1> DEFINE c == Choice("", "", none)
           d == [c EXCEPT !.raw = type]
<1>3. /\ d.mode = "" /\ d.name = "" /\ d.raw = type /\ d.allowed = none
      /\ DOMAIN d = {"mode", "name", "allowed", "raw"}
  BY <1>1
<1>4. d = [x \in DOMAIN d |-> d[x]]
  OBVIOUS
<1>5. RawChoice(type) = d
  BY <1>2, Zenon DEF RawChoice
<1> HIDE DEF d
<1>6. d = [mode |-> d.mode, name |-> d.name, allowed |-> d.allowed, raw |-> d.raw]
  BY <1>3, <1>4
<1>7. ChoiceOK(d)
  BY <1>3, <1>6 DEF ChoiceOK
<1> QED
  BY <1>5, <1>7

(* What clients may ask for, protocol by protocol.                         *)
LEMMA WishesOfAnthropic ==
  ASSUME NEW wish \in Wishes("anthropic")
  PROVE  \E mode \in Modes : \E name :
             wish = Choice(mode, name, {}) /\ (mode = "tool" => name \in Nameable)
<1>1. wish \in {Choice("absent", "", {}), Choice("auto", "", {}), Choice("any", "", {}),
                Choice("none", "", {}), Choice("tool", "f", {}), Choice("tool", "h", {})}
  BY DEF Wishes, NoChoice
<1>2. \/ \E name \in {"f", "h"} : wish = Choice("tool", name, {})
      \/ \E mode \in Modes \ {"tool"} : wish = Choice(mode, "", {})
  BY <1>1 DEF Modes
<1> QED
  BY <1>2 DEF Modes, Nameable

LEMMA WishesOfGemini ==
  ASSUME NEW wish \in Wishes("gemini")
  PROVE  wish.names \subseteq Nameable
<1>1. wish \in {Wish("absent", "", {}), Wish("auto", "", {}), Wish("auto", "", {"f"}),
                Wish("any", "", {"f"}), Wish("any", "", {"f", "h"}), Wish("any", "", {"h"}),
                Wish("none", "", {})}
  BY DEF Wishes, NoWish
<1>2. \E form : \E names \in {{}, {"f"}, {"h"}, {"f", "h"}} : wish = Wish(form, "", names)
  BY <1>1
<1>3. PICK form, names : names \in {{}, {"f"}, {"h"}, {"f", "h"}} /\ wish = Wish(form, "", names)
  BY <1>2
<1>4. wish.names = names
  BY <1>3 DEF Wish
<1>5. names \subseteq Nameable
  BY <1>3 DEF Nameable
<1> QED
  BY <1>4, <1>5

LEMMA WishesOfOpenAI ==
  ASSUME NEW client \in {"openai-chat", "openai-responses"}, NEW wish \in Wishes(client)
  PROVE  /\ wish.form = "named" => wish.name \in Nameable
         /\ wish.form = "typed" => wish.name # ""
<1>1. wish \in {Wish("absent", "", {}), Wish("auto", "", {}), Wish("none", "", {}),
                Wish("required", "", {}), Wish("allowed", "", {"f", "h"}),
                Wish("allowed_required", "", {"h"}), Wish("named", "g", {}),
                Wish("named", "h", {}), Wish("typed", "mcp", {})}
  BY DEF Wishes, NoWish
<1>2. \E names : \/ \E form \in {"absent", "auto", "none", "required", "allowed", "allowed_required"} :
                       wish = Wish(form, "", names)
                 \/ \E name \in {"g", "h"} : wish = Wish("named", name, names)
                 \/ wish = Wish("typed", "mcp", names)
  BY <1>1
<1>3. PICK names : \/ \E form \in {"absent", "auto", "none", "required", "allowed", "allowed_required"} :
                          wish = Wish(form, "", names)
                   \/ \E name \in {"g", "h"} : wish = Wish("named", name, names)
                   \/ wish = Wish("typed", "mcp", names)
  BY <1>2
<1>4. CASE \E form \in {"absent", "auto", "none", "required", "allowed", "allowed_required"} :
              wish = Wish(form, "", names)
  <2>1. PICK form \in {"absent", "auto", "none", "required", "allowed", "allowed_required"} :
            wish = Wish(form, "", names)
    BY <1>4
  <2>2. wish.form = form
    BY <2>1 DEF Wish
  <2> QED
    BY <2>2
<1>5. CASE \E name \in {"g", "h"} : wish = Wish("named", name, names)
  <2>1. PICK name \in {"g", "h"} : wish = Wish("named", name, names)
    BY <1>5
  <2>2. wish.form = "named" /\ wish.name = name
    BY <2>1 DEF Wish
  <2> QED
    BY <2>2 DEF Nameable
<1>6. CASE wish = Wish("typed", "mcp", names)
  <2>1. wish.form = "typed" /\ wish.name = "mcp"
    BY <1>6 DEF Wish
  <2> QED
    BY <2>1
<1> QED
  BY <1>3, <1>4, <1>5, <1>6

(* The modes of the protocols are those of the intermediate form.          *)
LEMMA WishesAreChoices ==
  ASSUME NEW client \in Clients, NEW wish \in Wishes(client), NEW w,
         w.client = client, w.choice = wish
  PROVE  ChoiceOK(DecodeRequest(w).choice)
<1> USE DEF AnthropicName, ChatName, ResponsesName, GeminiName, DecodeRequest
<1>0. \A mode \in Modes \ {"tool"} : \A allowed : ChoiceOK(Choice(mode, "", allowed))
  BY NamedChoice
<1>5. \A name \in Nameable : \A allowed : ChoiceOK(Choice("tool", name, allowed))
  BY NamedChoice DEF Modes
<1>1. CASE client = AnthropicName
  <2>1. DecodeRequest(w).choice = wish
    BY <1>1 DEF AnthropicDecodeRequest
  <2>2. ChoiceOK(wish)
    <3>1. PICK mode \in Modes : \E name :
             wish = Choice(mode, name, {}) /\ (mode = "tool" => name \in Nameable)
      BY <1>1, WishesOfAnthropic
    <3>2. PICK name : wish = Choice(mode, name, {}) /\ (mode = "tool" => name \in Nameable)
      BY <3>1
    <3> QED
      BY <3>2, NamedChoice
  <2> QED
    BY <2>1, <2>2
<1>2. CASE client = ChatName
  <2>1. DecodeRequest(w).choice = ChatDecodeChoice(wish)
    BY <1>2 DEF ChatDecodeRequest
  <2>2. wish.form = "named" => wish.name \in Nameable
    BY <1>2, WishesOfOpenAI
  <2>3. ChoiceOK(ChatDecodeChoice(wish))
    BY <2>2, <1>0, <1>5 DEF ChatDecodeChoice, Modes, NoChoice
  <2> QED
    BY <2>1, <2>3
<1>3. CASE client = ResponsesName
  <2>1. DecodeRequest(w).choice = ResponsesDecodeChoice(wish)
    BY <1>3 DEF ResponsesDecodeRequest
  <2>2. /\ wish.form = "named" => wish.name \in Nameable
        /\ wish.form = "typed" => wish.name # ""
    BY <1>3, WishesOfOpenAI
  <2>3. ChoiceOK(ResponsesDecodeChoice(wish))
    BY <2>2, <1>0, <1>5, RawChoiceOK DEF ResponsesDecodeChoice, Modes, NoChoice
  <2> QED
    BY <2>1, <2>3
<1>4. CASE client = GeminiName
  <2>1. DecodeRequest(w).choice = GeminiDecodeChoice(wish)
    BY <1>4 DEF GeminiDecodeRequest
  <2>2. wish.names \subseteq Nameable
    BY <1>4, WishesOfGemini
  <2> DEFINE name == CHOOSE n \in wish.names : TRUE
  <2>3. Cardinality(wish.names) = 1 => name \in Nameable
    <3>1. wish.names = {} => Cardinality(wish.names) # 1
      BY FS_EmptySet
    <3> QED
      BY <2>2, <3>1
  <2>4. GeminiDecodeChoice(wish) =
          CASE wish.form = "absent" -> NoChoice
            [] wish.form = "any" /\ Cardinality(wish.names) = 1 -> Choice("tool", name, wish.names)
            [] wish.form = "any" /\ Cardinality(wish.names) # 1 -> Choice("any", "", wish.names)
            [] wish.form = "none" -> Choice("none", "", wish.names)
            [] OTHER -> Choice("auto", "", wish.names)
    BY DEF GeminiDecodeChoice
  <2> HIDE DEF name
  <2>5. ChoiceOK(GeminiDecodeChoice(wish))
    <3>1. CASE wish.form = "absent"
      BY <3>1, <2>4, <1>0 DEF NoChoice, Modes
    <3>2. CASE wish.form = "any"
      BY <3>2, <2>3, <2>4, <1>0, <1>5 DEF Modes
    <3>3. CASE wish.form \notin {"any", "absent"}
      BY <3>3, <2>4, <1>0 DEF Modes
    <3> QED
      BY <3>1, <3>2, <3>3
  <2> QED
    BY <2>1, <2>5
<1> QED
  BY <1>1, <1>2, <1>3, <1>4 DEF Clients
-----------------------------------------------------------------------------
(* The tools of a decoded request.                                         *)

Families == {"anthropic", "openai-responses", "gemini"}
ToolType == [name : FunctionNames \cup HostedNames \cup {""}, hosted : HostedNames \cup {""},
             family : Families \cup {""}]

(* What a tool of the wire becomes: a function keeps its name, and a hosted  *)
(* tool cannot be taken for one.                                             *)
Becomes(t, u) ==
  /\ u \in ToolType
  /\ \/ t.type = "" /\ t.name \in FunctionNames /\ u.hosted = "" /\ u.family = "" /\ u.name = t.name
     \/ t.type # "" /\ u.hosted \in HostedNames /\ u.name \in HostedNames \cup {""} /\ u.family # ""

LEMMA ListsOver ==
  ASSUME NEW H, NEW f, NEW g, NEW list,
         list \in {<<>>, <<f, g>>} \cup {<<h>> : h \in H} \cup {<<h>> \o <<f, g>> : h \in H}
  PROVE  list \in Seq({f, g} \cup H)
<1> DEFINE T == {f, g} \cup H
<1>1. f \in T /\ g \in T /\ \A h \in H : h \in T
  OBVIOUS
<1> HIDE DEF T
<1>2. <<f, g>> \in Seq(T) /\ \A h \in H : <<h>> \in Seq(T)
  BY <1>1
<1>3. \A h \in H : <<h>> \o <<f, g>> \in Seq(T)
  BY <1>2
<1>4. <<>> \in Seq(T)
  OBVIOUS
<1>5. list \in Seq(T)
  <2> DEFINE Two == <<f, g>>
  <2> HIDE DEF Two
  <2>1. list \in {<<>>, Two} \cup {<<h>> : h \in H} \cup {<<h>> \o Two : h \in H}
    BY DEF Two
  <2>2. Two \in Seq(T) /\ \A h \in H : <<h>> \o Two \in Seq(T)
    BY <1>2, <1>3 DEF Two
  <2> QED
    BY <2>1, <2>2, <1>2, <1>4
<1> QED
  BY <1>5 DEF T

LEMMA ListsOfTools ==
  ASSUME NEW client \in Clients, NEW list \in ToolLists(client)
  PROVE  /\ DOMAIN list = 1 .. Len(list) /\ Len(list) \in Nat
         /\ \A i \in DOMAIN list :
              \/ \E name \in FunctionNames : list[i] = Tool(name, "")
              \/ \E type \in HostedTypes(client), name \in HostedNames \cup {""} :
                    list[i] = Tool(name, type)
<1> DEFINE H == {Tool(IF client = "anthropic" THEN type ELSE "", type) : type \in HostedTypes(client)}
           T == {Tool("f", ""), Tool("g", "")} \cup H
<1>1. list \in {<<>>, Functions} \cup {<<h>> : h \in H} \cup {<<h>> \o Functions : h \in H}
  BY DEF ToolLists
<1>2. list \in Seq(T)
  <2> HIDE DEF H
  <2> QED
    BY <1>1, ListsOver DEF Functions
<1>3. DOMAIN list = 1 .. Len(list) /\ Len(list) \in Nat /\ \A i \in DOMAIN list : list[i] \in T
  <2> HIDE DEF T
  <2> QED
    BY <1>2
<1>4. ASSUME NEW h \in H
      PROVE  \E type \in HostedTypes(client), name \in HostedNames \cup {""} : h = Tool(name, type)
  <2>1. PICK type \in HostedTypes(client) :
            h = Tool(IF client = "anthropic" THEN type ELSE "", type)
    OBVIOUS
  <2> DEFINE name == IF client = "anthropic" THEN type ELSE ""
  <2>2. name \in HostedNames \cup {""}
    BY DEF HostedTypes, HostedNames
  <2> HIDE DEF name
  <2> QED
    BY <2>1, <2>2 DEF name
<1>5. \A t \in {Tool("f", ""), Tool("g", "")} : \E name \in FunctionNames : t = Tool(name, "")
  BY DEF FunctionNames
<1> HIDE DEF H
<1> QED
  BY <1>3, <1>4, <1>5

LEMMA ToolFields ==
  ASSUME NEW t, NEW name, NEW type, t = Tool(name, type)
  PROVE  t.type = type /\ t.name = name
  BY DEF Tool

LEMMA FunctionBecomes ==
  ASSUME NEW t, NEW u, \E name \in FunctionNames : t = Tool(name, ""),
         u = [name |-> t.name, hosted |-> "", family |-> ""]
  PROVE  t.type = "" /\ Becomes(t, u)
<1>1. PICK name \in FunctionNames : t = Tool(name, "")
  OBVIOUS
<1>2. t.type = "" /\ t.name = name
  BY <1>1 DEF Tool
<1>3. u \in ToolType
  BY <1>2 DEF ToolType
<1> QED
  BY <1>2, <1>3 DEF Becomes

LEMMA HostedBecomes ==
  ASSUME NEW t, NEW u, t.type # "", NEW name \in HostedNames \cup {""}, NEW hosted \in HostedNames,
         NEW family \in Families, u = [name |-> name, hosted |-> hosted, family |-> family]
  PROVE  Becomes(t, u)
<1>1. u \in ToolType
  BY DEF ToolType
<1> QED
  BY <1>1 DEF Becomes, Families

LEMMA AListOf ==
  ASSUME NEW S, NEW n \in Nat, NEW f, f = [i \in 1 .. n |-> f[i]], \A i \in 1 .. n : f[i] \in S
  PROVE  f \in Seq(S)
  OBVIOUS

LEMMA ToolsBecomeTools ==
  ASSUME NEW client \in Clients, NEW list \in ToolLists(client), NEW w,
         w.client = client, w.tools = list
  PROVE  /\ DecodeRequest(w).tools \in Seq(ToolType)
         /\ DOMAIN DecodeRequest(w).tools = DOMAIN list
         /\ \A i \in DOMAIN list : Becomes(list[i], DecodeRequest(w).tools[i])
<1> DEFINE tools == DecodeRequest(w).tools
<1> SUFFICES /\ DOMAIN tools = DOMAIN list
             /\ \A i \in DOMAIN list : Becomes(list[i], tools[i])
             /\ tools = [i \in DOMAIN list |-> tools[i]]
  <2>1. DOMAIN list = 1 .. Len(list) /\ Len(list) \in Nat
    BY ListsOfTools
  <2>2. (\A i \in DOMAIN list : Becomes(list[i], tools[i])) => \A i \in DOMAIN list : tools[i] \in ToolType
    BY DEF Becomes
  <2>3. tools \in Seq(ToolType)
    <3> HIDE DEF tools
    <3> QED
      BY <2>1, <2>2, AListOf
  <2> QED
    BY <2>3
<1>1. \A i \in DOMAIN list :
          \/ \E name \in FunctionNames : list[i] = Tool(name, "")
          \/ \E type \in HostedTypes(client), name \in HostedNames \cup {""} : list[i] = Tool(name, type)
  BY ListsOfTools
<1> USE DEF AnthropicName, ChatName, ResponsesName, GeminiName
<1>2. CASE client = AnthropicName
  <2>1. tools = [i \in DOMAIN list |-> AnthropicDecodeTool(list[i])]
    BY <1>2 DEF DecodeRequest, AnthropicDecodeRequest
  <2>2. ASSUME NEW i \in DOMAIN list
        PROVE  Becomes(list[i], AnthropicDecodeTool(list[i]))
    <3>1. CASE \E name \in FunctionNames : list[i] = Tool(name, "")
      <4>1. list[i].type = ""
        BY <3>1, FunctionBecomes
      <4>2. AnthropicDecodeTool(list[i]) = [name |-> list[i].name, hosted |-> "", family |-> ""]
        BY <4>1 DEF AnthropicDecodeTool
      <4> QED
        BY <3>1, <4>2, FunctionBecomes
    <3>2. CASE \E type \in HostedTypes(client), name \in HostedNames \cup {""} : list[i] = Tool(name, type)
      <4>1. PICK type \in {"web_search", "text_editor"}, name \in HostedNames \cup {""} : list[i] = Tool(name, type)
        BY <3>2, <1>2 DEF HostedTypes
      <4>2. list[i].type = type /\ list[i].name = name
        BY <4>1, ToolFields
      <4>3. AnthropicDecodeTool(list[i]) =
              [name |-> name, hosted |-> type, family |-> "anthropic"]
        BY <4>2 DEF AnthropicDecodeTool
      <4> QED
        BY <4>2, <4>3, HostedBecomes DEF HostedNames, Families
    <3> QED
      BY <1>1, <3>1, <3>2
  <2> HIDE DEF tools
  <2> QED
    BY <2>1, <2>2
<1>3. CASE client = ChatName
  <2>1. tools = [i \in DOMAIN list |-> [name |-> list[i].name, hosted |-> "", family |-> ""]]
    BY <1>3 DEF DecodeRequest, ChatDecodeRequest
  <2>2. ASSUME NEW i \in DOMAIN list
        PROVE  Becomes(list[i], [name |-> list[i].name, hosted |-> "", family |-> ""])
    <3>1. CASE \E name \in FunctionNames : list[i] = Tool(name, "")
      BY <3>1, FunctionBecomes
    <3>2. CASE \E type \in HostedTypes(client), name \in HostedNames \cup {""} : list[i] = Tool(name, type)
      BY <3>2, <1>3 DEF HostedTypes
    <3> QED
      BY <1>1, <3>1, <3>2
  <2> HIDE DEF tools
  <2> QED
    BY <2>1, <2>2
<1>4. CASE client = ResponsesName
  <2>1. tools = [i \in DOMAIN list |-> ResponsesDecodeTool(list[i])]
    BY <1>4 DEF DecodeRequest, ResponsesDecodeRequest
  <2>2. ASSUME NEW i \in DOMAIN list
        PROVE  Becomes(list[i], ResponsesDecodeTool(list[i]))
    <3>1. CASE \E name \in FunctionNames : list[i] = Tool(name, "")
      <4>1. list[i].type = ""
        BY <3>1, FunctionBecomes
      <4>2. ResponsesDecodeTool(list[i]) = [name |-> list[i].name, hosted |-> "", family |-> ""]
        BY <4>1 DEF ResponsesDecodeTool
      <4> QED
        BY <3>1, <4>2, FunctionBecomes
    <3>2. CASE \E type \in HostedTypes(client), name \in HostedNames \cup {""} : list[i] = Tool(name, type)
      <4>1. PICK type \in {"web_search", "file_search"}, name \in HostedNames \cup {""} : list[i] = Tool(name, type)
        BY <3>2, <1>4 DEF HostedTypes
      <4>2. list[i].type = type /\ list[i].name = name
        BY <4>1, ToolFields
      <4>3. ResponsesDecodeTool(list[i]) =
              [name |-> "", hosted |-> type, family |-> "openai-responses"]
        BY <4>2 DEF ResponsesDecodeTool
      <4> QED
        BY <4>2, <4>3, HostedBecomes DEF HostedNames, Families
    <3> QED
      BY <1>1, <3>1, <3>2
  <2> HIDE DEF tools
  <2> QED
    BY <2>1, <2>2
<1>5. CASE client = GeminiName
  <2>1. tools = [i \in DOMAIN list |-> GeminiDecodeTool(list[i])]
    BY <1>5 DEF DecodeRequest, GeminiDecodeRequest
  <2>2. ASSUME NEW i \in DOMAIN list
        PROVE  Becomes(list[i], GeminiDecodeTool(list[i]))
    <3>1. CASE \E name \in FunctionNames : list[i] = Tool(name, "")
      <4>1. list[i].type = ""
        BY <3>1, FunctionBecomes
      <4>2. GeminiDecodeTool(list[i]) = [name |-> list[i].name, hosted |-> "", family |-> ""]
        BY <4>1 DEF GeminiDecodeTool
      <4> QED
        BY <3>1, <4>2, FunctionBecomes
    <3>2. CASE \E type \in HostedTypes(client), name \in HostedNames \cup {""} : list[i] = Tool(name, type)
      <4>1. PICK type \in {"google_search", "url_context"}, name \in HostedNames \cup {""} : list[i] = Tool(name, type)
        BY <3>2, <1>5 DEF HostedTypes
      <4>2. list[i].type = type /\ list[i].name = name
        BY <4>1, ToolFields
      <4>3. GeminiDecodeTool(list[i]) =
              [name |-> type, hosted |-> IF type = "google_search" THEN "web_search" ELSE type,
               family |-> "gemini"]
        BY <4>2 DEF GeminiDecodeTool
      <4> QED
        BY <4>2, <4>3, HostedBecomes DEF HostedNames, Families
    <3> QED
      BY <1>1, <3>1, <3>2
  <2> HIDE DEF tools
  <2> QED
    BY <2>1, <2>2
<1> QED
  BY <1>2, <1>3, <1>4, <1>5 DEF Clients
-----------------------------------------------------------------------------
(* What the passes leave of the choice and the tools of a request.         *)

RequestOK(r) ==
  /\ r = [system |-> r.system, refs |-> r.refs, thinking |-> r.thinking, choice |-> r.choice,
          tools |-> r.tools, messages |-> r.messages]
  /\ ChoiceOK(r.choice)
  /\ r.tools \in Seq(ToolType)

(* An allowlist that applies and matches keeps the functions it names and    *)
(* every hosted tool; it never leaves nothing, nor hosted tools alone.       *)
LEMMA Narrowed ==
  ASSUME NEW r, r.tools \in Seq(ToolType)
  PROVE  /\ AllowlistNarrow(r).tools \in Seq(ToolType)
         /\ ToSet(AllowlistNarrow(r).tools) \subseteq ToSet(r.tools)
         /\ AllowlistNarrow(r).tools = <<>> <=> r.tools = <<>>
         /\ r.choice.mode = "tool" => AllowlistNarrow(r).tools = r.tools
         /\ AllowlistNarrow(r).ok =>
              \A t \in ToSet(AllowlistNarrow(r).tools) : t.hosted # "" \/ t.name \in r.choice.allowed
         /\ (\E t \in ToSet(r.tools) : t.hosted = "") =>
              \E t \in ToSet(AllowlistNarrow(r).tools) : t.hosted = ""
<1> DEFINE kept == [i \in DOMAIN r.tools |->
                       IF r.tools[i].hosted # "" \/ r.tools[i].name \in r.choice.allowed
                       THEN <<r.tools[i]>> ELSE <<>>]
           admitted == FlattenSeq(kept)
           matched == \E i \in DOMAIN r.tools :
                         r.tools[i].hosted = "" /\ r.tools[i].name \in r.choice.allowed
           ok == AllowlistApplies(r.choice) /\ matched
<1>1. AllowlistNarrow(r) = [tools |-> IF ok THEN admitted ELSE r.tools, ok |-> ok]
  BY DEF AllowlistNarrow, Those, Each
<1>2. DOMAIN kept = DOMAIN r.tools /\ \A i \in DOMAIN r.tools : r.tools[i] \in ToolType
  OBVIOUS
<1>3. kept \in Seq(Seq(ToolType))
  <2>1. \A i \in DOMAIN r.tools : <<r.tools[i]>> \in Seq(ToolType) /\ <<>> \in Seq(ToolType)
    BY <1>2
  <2>2. \A i \in DOMAIN r.tools : kept[i] \in Seq(ToolType)
    BY <2>1
  <2>3. DOMAIN r.tools = 1 .. Len(r.tools) /\ Len(r.tools) \in Nat
    OBVIOUS
  <2>4. kept = [i \in 1 .. Len(r.tools) |-> kept[i]]
    BY <2>3
  <2> HIDE DEF kept
  <2> QED
    BY <2>2, <2>3, <2>4, AListOf
<1>4. admitted \in Seq(ToolType) /\ ToSet(admitted) = UNION {ToSet(kept[i]) : i \in DOMAIN kept}
  <2> HIDE DEF kept
  <2> QED
    BY <1>3, Flattened
<1>5. \A i \in DOMAIN r.tools :
        ToSet(kept[i]) = IF r.tools[i].hosted # "" \/ r.tools[i].name \in r.choice.allowed
                           THEN {r.tools[i]} ELSE {}
  <2>1. ToSet(<<>>) = {} /\ \A t : ToSet(<<t>>) = {t}
    BY DEF ToSet
  <2> QED
    BY <2>1
<1>6. \A t \in ToSet(admitted) : /\ t \in ToSet(r.tools)
                                 /\ t.hosted # "" \/ t.name \in r.choice.allowed
  <2>1. SUFFICES ASSUME NEW t \in ToSet(admitted)
                 PROVE  t \in ToSet(r.tools) /\ (t.hosted # "" \/ t.name \in r.choice.allowed)
    OBVIOUS
  <2>2. PICK i \in DOMAIN r.tools : t \in ToSet(kept[i])
    <3> HIDE DEF kept, admitted
    <3> QED
      BY <1>2, <1>4
  <2>3. t = r.tools[i] /\ (r.tools[i].hosted # "" \/ r.tools[i].name \in r.choice.allowed)
    <3> HIDE DEF kept
    <3> QED
      BY <1>5, <2>2
  <2> QED
    BY <2>3 DEF ToSet
<1>7. matched => admitted # <<>> /\ \E t \in ToSet(admitted) : t.hosted = ""
  <2>1. SUFFICES ASSUME matched
                 PROVE  admitted # <<>> /\ \E t \in ToSet(admitted) : t.hosted = ""
    OBVIOUS
  <2>2. PICK i \in DOMAIN r.tools : r.tools[i].hosted = "" /\ r.tools[i].name \in r.choice.allowed
    BY <2>1
  <2>3. r.tools[i] \in ToSet(kept[i])
    <3> HIDE DEF kept
    <3> QED
      BY <1>5, <2>2
  <2>4. r.tools[i] \in ToSet(admitted)
    <3> HIDE DEF kept, admitted
    <3> QED
      BY <1>2, <1>4, <2>3
  <2>5. ToSet(<<>>) = {}
    BY DEF ToSet
  <2> HIDE DEF admitted
  <2> QED
    BY <2>2, <2>4, <2>5
<1>8. matched => r.tools # <<>>
  <2>1. r.tools = <<>> => DOMAIN r.tools = {}
    OBVIOUS
  <2> QED
    BY <2>1
<1>9. ok \in BOOLEAN /\ (ok => r.choice.mode # "tool")
  BY DEF AllowlistApplies
<1> HIDE DEF admitted, ok
<1>10. ok => matched
  BY DEF ok
<1> HIDE DEF matched
<1>11. CASE ok
  <2>1. AllowlistNarrow(r).tools = admitted
    BY <1>1, <1>11
  <2> QED
    BY <1>4, <1>6, <1>7, <1>8, <1>9, <1>11, <1>10, <2>1
<1>12. CASE ~ok
  <2>1. AllowlistNarrow(r).tools = r.tools /\ ~AllowlistNarrow(r).ok
    BY <1>1, <1>9, <1>12
  <2> QED
    BY <2>1
<1> QED
  BY <1>9, <1>11, <1>12

(* A forced tool that is not declared becomes a free choice, and a forced    *)
(* choice with no tool at all is dropped; no pass touches another.           *)
LEMMA NormalizedChoice ==
  ASSUME NEW r, RequestOK(r), NEW strict
  PROVE  /\ Normalized(r, strict).tools = AllowlistNarrow(r).tools
         /\ Normalized(r, strict).thinking = r.thinking
         /\ IF ToolChoiceWithoutTools(r) THEN Normalized(r, strict).choice = NoChoice
            ELSE IF ForcedToolUndeclared(r)
            THEN /\ Normalized(r, strict).choice.mode = "auto"
                 /\ Normalized(r, strict).choice.name = ""
                 /\ Normalized(r, strict).choice.raw = r.choice.raw
            ELSE Normalized(r, strict).choice = r.choice
<1> DEFINE n == AllowlistNarrow(r).tools
           e == EnforceToolAllowlist(r)
           f == RelaxUndeclaredForcedTool(e)
           d == DropToolChoiceWithoutTools(f)
           q == Normalized(r, strict)
<1>1. e = [r EXCEPT !.tools = n]
  BY DEF EnforceToolAllowlist
<1>2. /\ e.choice = r.choice /\ e.tools = n /\ e.thinking = r.thinking
      /\ e = [system |-> e.system, refs |-> e.refs, thinking |-> e.thinking, choice |-> e.choice,
              tools |-> e.tools, messages |-> e.messages]
  <2> HIDE DEF e, n
  <2> QED
    BY <1>1 DEF RequestOK
<1>3. /\ n = <<>> <=> r.tools = <<>>
      /\ r.choice.mode = "tool" => n = r.tools
  BY Narrowed DEF RequestOK
<1>4. /\ ToolChoiceWithoutTools(e) <=> ToolChoiceWithoutTools(r)
      /\ ForcedToolUndeclared(e) <=> ForcedToolUndeclared(r)
  <2> HIDE DEF e, n
  <2> QED
    BY <1>2, <1>3 DEF ToolChoiceWithoutTools, ForcedToolUndeclared
<1> HIDE DEF e
<1>5. f = IF ForcedToolUndeclared(r) THEN [e EXCEPT !.choice.mode = "auto", !.choice.name = ""] ELSE e
  BY <1>4 DEF RelaxUndeclaredForcedTool
<1> HIDE DEF f
<1>6. /\ f.tools = n /\ f.thinking = r.thinking
      /\ f = [system |-> f.system, refs |-> f.refs, thinking |-> f.thinking, choice |-> f.choice,
              tools |-> f.tools, messages |-> f.messages]
      /\ IF ForcedToolUndeclared(r)
         THEN f.choice.mode = "auto" /\ f.choice.name = "" /\ f.choice.raw = r.choice.raw
         ELSE f.choice = r.choice
  <2> HIDE DEF n
  <2>1. CASE ForcedToolUndeclared(r)
    <3> DEFINE c == [[r.choice EXCEPT !.mode = "auto"] EXCEPT !.name = ""]
    <3>1. f = [e EXCEPT !.choice = c]
      BY <2>1, <1>2, <1>5
    <3>2. c.mode = "auto" /\ c.name = "" /\ c.raw = r.choice.raw
      BY DEF RequestOK, ChoiceOK
    <3> HIDE DEF c
    <3> QED
      BY <2>1, <1>2, <3>1, <3>2
  <2>2. CASE ~ForcedToolUndeclared(r)
    BY <2>2, <1>2, <1>5
  <2> QED
    BY <2>1, <2>2
<1>7. /\ ToolChoiceWithoutTools(r) => ~ForcedToolUndeclared(r)
      /\ ToolChoiceWithoutTools(f) <=> ToolChoiceWithoutTools(r)
  <2> HIDE DEF n
  <2> QED
    BY <1>3, <1>6 DEF ToolChoiceWithoutTools, ForcedToolUndeclared
<1>8. d = IF ToolChoiceWithoutTools(r) THEN [f EXCEPT !.choice = NoChoice] ELSE f
  BY <1>7 DEF DropToolChoiceWithoutTools
<1> HIDE DEF d
<1>9. /\ d.tools = n /\ d.thinking = r.thinking
      /\ d = [system |-> d.system, refs |-> d.refs, thinking |-> d.thinking, choice |-> d.choice,
              tools |-> d.tools, messages |-> d.messages]
      /\ d.choice = IF ToolChoiceWithoutTools(r) THEN NoChoice ELSE f.choice
  <2> HIDE DEF n
  <2> QED
    BY <1>6, <1>8
<1>10. \E messages : q = [d EXCEPT !.messages = messages]
  BY DEF Normalized, d, f, e
<1>11. q.tools = n /\ q.thinking = r.thinking /\ q.choice = d.choice
  <2> HIDE DEF n, q
  <2> QED
    BY <1>9, <1>10
<1> HIDE DEF n, q
<1>12. IF ToolChoiceWithoutTools(r) THEN q.choice = NoChoice
       ELSE IF ForcedToolUndeclared(r)
       THEN q.choice.mode = "auto" /\ q.choice.name = "" /\ q.choice.raw = r.choice.raw
       ELSE q.choice = r.choice
  BY <1>6, <1>9, <1>11
<1> QED
  BY <1>11, <1>12 DEF n, q
-----------------------------------------------------------------------------
(* What is asked of the upstream, and what the notes say of it.            *)

LEMMA OverriddenOK ==
  ASSUME NEW r, RequestOK(r), NEW forced \in BOOLEAN
  PROVE  /\ RequestOK(Overridden(r, forced))
         /\ Overridden(r, forced).choice = r.choice /\ Overridden(r, forced).tools = r.tools
         /\ ~forced => Overridden(r, forced) = r
<1>1. CASE forced
  <2> DEFINE o == [r EXCEPT !.thinking = TRUE]
  <2>1. Overridden(r, forced) = o /\ o = [r EXCEPT !.thinking = TRUE]
    BY <1>1 DEF Overridden
  <2> HIDE DEF o
  <2>2. /\ o.choice = r.choice /\ o.tools = r.tools
        /\ o = [system |-> o.system, refs |-> o.refs, thinking |-> o.thinking, choice |-> o.choice,
                tools |-> o.tools, messages |-> o.messages]
    BY <2>1 DEF RequestOK
  <2> QED
    BY <1>1, <2>1, <2>2 DEF RequestOK
<1>2. CASE ~forced
  BY <1>2 DEF Overridden
<1> QED
  BY <1>1, <1>2

LEMMA NoChoiceFields ==
  NoChoice.mode = "absent" /\ NoChoice.name = "" /\ NoChoice.raw = ""
<1>1. ASSUME NEW none
      PROVE  LET c == Choice("absent", "", none)
             IN  c.mode = "absent" /\ c.name = "" /\ c.raw = ""
  BY DEF Choice
<1> QED
  BY <1>1 DEF NoChoice

LEMMA NotesOfTheChoice ==
  ASSUME NEW r, RequestOK(r), NEW target \in Targets
  PROVE  ChoiceNotes(r, target) \cap {"dropped", "relaxed"} = {} <=>
           /\ ~ToolChoiceWithoutTools(r) /\ ~ForcedToolUndeclared(r)
           /\ r.choice.raw # "" => target = ResponsesName
           /\ ~(r.thinking /\ r.choice.mode \in {"any", "tool"} /\ target = ChatName)
<1>1. CASE ToolChoiceWithoutTools(r)
  BY <1>1 DEF ChoiceNotes
<1>2. CASE ~ToolChoiceWithoutTools(r)
  <2> DEFINE raw == r.choice.raw # "" /\ target # ResponsesName
             all == AllowlistApplies(r.choice) /\ ~AllowlistNarrow(r).ok
             relaxed == \/ ForcedToolUndeclared(r)
                        \/ r.thinking /\ r.choice.mode \in {"any", "tool"} /\ target = ChatName
  <2>1. ChoiceNotes(r, target) =
          (IF raw THEN {"dropped"} ELSE {}) \cup (IF all THEN {"allowlist"} ELSE {})
            \cup (IF relaxed THEN {"relaxed"} ELSE {})
    BY <1>2 DEF ChoiceNotes
  <2>2. ChoiceNotes(r, target) \cap {"dropped", "relaxed"} = {} <=> ~raw /\ ~relaxed
    <3> HIDE DEF raw, all, relaxed
    <3> QED
      BY <2>1
  <2> QED
    BY <1>2, <2>2
<1> QED
  BY <1>1, <1>2

LEMMA PairsEqual ==
  \A a, b, c, d : [mode |-> a, name |-> b] = [mode |-> c, name |-> d] <=> a = c /\ b = d
<1>1. ASSUME NEW a, NEW b, NEW c, NEW d, [mode |-> a, name |-> b] = [mode |-> c, name |-> d]
      PROVE  a = c /\ b = d
  <2>1. [mode |-> a, name |-> b].mode = [mode |-> c, name |-> d].mode
    BY <1>1
  <2>2. [mode |-> a, name |-> b].name = [mode |-> c, name |-> d].name
    BY <1>1
  <2> QED
    BY <2>1, <2>2
<1> QED
  BY <1>1

LEMMA ChoiceAskedFor ==
  ASSUME NEW r, RequestOK(r), NEW target \in Targets
  PROVE  LET c == Normalized(r, target = AnthropicName).choice
         IN  EncodeRequest(r, target).choice =
               IF target = ResponsesName /\ c.raw # "" THEN [mode |-> "typed", name |-> c.raw]
               ELSE IF target = ChatName /\ r.thinking /\ c.mode \in {"any", "tool"}
               THEN [mode |-> "auto", name |-> ""]
               ELSE IF target # AnthropicName /\ c.mode = "" THEN [mode |-> "absent", name |-> ""]
               ELSE [mode |-> c.mode, name |-> c.name]
<1> USE DEF AnthropicName, ChatName, ResponsesName
<1>1. \A strict : Normalized(r, strict).thinking = r.thinking
  BY NormalizedChoice
<1>2. CASE target = AnthropicName
  BY <1>2 DEF EncodeRequest, AnthropicEncodeRequest, AnthropicEncodeChoice
<1>3. CASE target = ChatName
  <2>1. EncodeRequest(r, target).choice = ChatEncodeChoice(Normalized(r, FALSE))
    BY <1>3 DEF EncodeRequest, ChatEncodeRequest
  <2> QED
    BY <1>1, <1>3, <2>1 DEF ChatEncodeChoice
<1>4. CASE target = ResponsesName
  <2>1. EncodeRequest(r, target).choice = ResponsesEncodeChoice(Normalized(r, FALSE))
    BY <1>4 DEF EncodeRequest, ResponsesEncodeRequest
  <2> QED
    BY <1>4, <2>1 DEF ResponsesEncodeChoice
<1> QED
  BY <1>2, <1>3, <1>4 DEF Targets

LEMMA HonouredUnlessNoted ==
  ASSUME NEW r, RequestOK(r), NEW target \in Targets, NEW forced \in BOOLEAN,
         ~(forced /\ target = ChatName)
  PROVE  ChoiceNotes(r, target) \cap {"dropped", "relaxed"} = {} <=>
           EncodeRequest(Overridden(r, forced), target).choice =
             IF r.choice.raw # "" THEN [mode |-> "typed", name |-> r.choice.raw]
             ELSE [mode |-> r.choice.mode, name |-> r.choice.name]
<1> DEFINE o == Overridden(r, forced)
           c == Normalized(o, target = AnthropicName).choice
           asked == EncodeRequest(o, target).choice
           wanted == IF r.choice.raw # "" THEN [mode |-> "typed", name |-> r.choice.raw]
                     ELSE [mode |-> r.choice.mode, name |-> r.choice.name]
           honoured == /\ ~ToolChoiceWithoutTools(r) /\ ~ForcedToolUndeclared(r)
                       /\ r.choice.raw # "" => target = ResponsesName
                       /\ ~(r.thinking /\ r.choice.mode \in {"any", "tool"} /\ target = ChatName)
<1> SUFFICES honoured <=> asked = wanted
  BY NotesOfTheChoice
<1>1. RequestOK(o) /\ o.choice = r.choice /\ o.tools = r.tools /\ (target = ChatName => o = r)
  BY OverriddenOK
<1>2. /\ ToolChoiceWithoutTools(o) <=> ToolChoiceWithoutTools(r)
      /\ ForcedToolUndeclared(o) <=> ForcedToolUndeclared(r)
  <2> HIDE DEF o
  <2> QED
    BY <1>1 DEF ToolChoiceWithoutTools, ForcedToolUndeclared
<1>3. IF ToolChoiceWithoutTools(r) THEN c = NoChoice
      ELSE IF ForcedToolUndeclared(r)
      THEN c.mode = "auto" /\ c.name = "" /\ c.raw = r.choice.raw
      ELSE c = r.choice
  <2>1. \A strict :
          IF ToolChoiceWithoutTools(o) THEN Normalized(o, strict).choice = NoChoice
          ELSE IF ForcedToolUndeclared(o)
          THEN /\ Normalized(o, strict).choice.mode = "auto"
               /\ Normalized(o, strict).choice.name = ""
               /\ Normalized(o, strict).choice.raw = o.choice.raw
          ELSE Normalized(o, strict).choice = o.choice
    <3> HIDE DEF o
    <3> QED
      BY <1>1, NormalizedChoice
  <2> HIDE DEF o
  <2> QED
    BY <1>1, <1>2, <2>1
<1>4. asked = IF target = ResponsesName /\ c.raw # "" THEN [mode |-> "typed", name |-> c.raw]
              ELSE IF target = ChatName /\ o.thinking /\ c.mode \in {"any", "tool"}
              THEN [mode |-> "auto", name |-> ""]
              ELSE IF target # AnthropicName /\ c.mode = "" THEN [mode |-> "absent", name |-> ""]
              ELSE [mode |-> c.mode, name |-> c.name]
  <2> HIDE DEF o
  <2> QED
    BY <1>1, ChoiceAskedFor
<1>5. /\ r.choice.raw = "" => r.choice.mode \in Modes
      /\ r.choice.raw # "" => r.choice.mode = ""
  BY DEF RequestOK, ChoiceOK
<1>6. target \in {AnthropicName, ChatName, ResponsesName}
  BY DEF Targets
<1> HIDE DEF o, c, asked
<1> USE DEF AnthropicName, ChatName, ResponsesName
<1>7. CASE ToolChoiceWithoutTools(r)
  <2>1. r.choice.mode \in {"any", "tool"} /\ r.choice.raw = ""
    BY <1>5, <1>7 DEF ToolChoiceWithoutTools
  <2>2. c.mode = "absent" /\ c.raw = "" /\ c.name = ""
    BY <1>3, <1>7, NoChoiceFields
  <2>3. asked = [mode |-> "absent", name |-> ""]
    BY <1>4, <2>2
  <2>4. asked # wanted
    BY <2>1, <2>3, PairsEqual
  <2> QED
    BY <1>7, <2>4, <2>1
<1>8. CASE ~ToolChoiceWithoutTools(r) /\ ForcedToolUndeclared(r)
  <2>1. r.choice.mode = "tool" /\ r.choice.raw = ""
    BY <1>5, <1>8 DEF ForcedToolUndeclared
  <2>2. c.mode = "auto" /\ c.raw = "" /\ c.name = ""
    BY <1>3, <1>8, <2>1
  <2>3. asked = [mode |-> "auto", name |-> ""]
    BY <1>4, <2>2
  <2>4. asked # wanted
    BY <2>1, <2>3, PairsEqual
  <2> QED
    BY <1>8, <2>4
<1>9. CASE ~ToolChoiceWithoutTools(r) /\ ~ForcedToolUndeclared(r)
  <2>1. c = r.choice
    BY <1>3, <1>9
  <2>2. CASE r.choice.raw # ""
    <3>1. asked = IF target = ResponsesName THEN [mode |-> "typed", name |-> r.choice.raw]
                  ELSE IF target = ChatName THEN [mode |-> "absent", name |-> ""]
                  ELSE [mode |-> "", name |-> r.choice.name]
      BY <1>4, <1>5, <2>1, <2>2, <1>6
    <3>2. asked = wanted <=> target = ResponsesName
      BY <2>2, <3>1, PairsEqual
    <3> QED
      BY <1>5, <1>9, <2>2, <3>2
  <2>3. CASE r.choice.raw = ""
    <3>1. r.choice.mode # "" /\ wanted = [mode |-> r.choice.mode, name |-> r.choice.name]
      BY <1>5, <2>3 DEF Modes
    <3>2. CASE target = ChatName /\ r.thinking /\ r.choice.mode \in {"any", "tool"}
      <4>1. asked = [mode |-> "auto", name |-> ""]
        BY <1>1, <1>4, <2>1, <2>3, <3>2
      <4>2. asked # wanted
        BY <3>1, <3>2, <4>1, PairsEqual
      <4> QED
        BY <3>2, <4>2
    <3>3. CASE ~(target = ChatName /\ r.thinking /\ r.choice.mode \in {"any", "tool"})
      <4>1. asked = wanted
        BY <1>1, <1>4, <2>1, <2>3, <3>1, <3>3
      <4> QED
        BY <1>9, <2>3, <3>3, <4>1
    <3> QED
      BY <3>2, <3>3
  <2> QED
    BY <2>2, <2>3
<1> QED
  BY <1>7, <1>8, <1>9
-----------------------------------------------------------------------------
(* The tools an upstream is shown.                                         *)

Names == FunctionNames \cup HostedNames \cup {""}

EncodeTool(target, t) ==
  IF target = AnthropicName THEN AnthropicEncodeTool(t)
  ELSE IF target = ChatName THEN ChatEncodeTool(t) ELSE ResponsesEncodeTool(t)

(* A function is written under its name, a hosted tool never as a function,  *)
(* and what is not written is what the notes count.                          *)
LEMMA ToolWritten ==
  ASSUME NEW t, NEW u, Becomes(t, u), NEW target \in Targets
  PROVE  /\ EncodeTool(target, u) \in Seq(Names)
         /\ u.hosted = "" => ToSet(EncodeTool(target, u)) = {u.name}
         /\ u.hosted # "" => ToSet(EncodeTool(target, u)) \cap FunctionNames = {}
         /\ ToSet(EncodeTool(target, u)) = {} =>
              u.hosted # "" /\ (target = ChatName \/ (u.hosted # "web_search" /\ u.family # target))
<1> USE DEF AnthropicName, ChatName, ResponsesName
<1>1. /\ u.name \in Names /\ u.hosted \in Names /\ "web_search" \in Names
      /\ u.hosted # "" => /\ u.name \notin FunctionNames /\ u.hosted \notin FunctionNames
                          /\ u.family # ""
  BY DEF Becomes, ToolType, Names, HostedNames, FunctionNames
<1>2. \/ EncodeTool(target, u) = <<u.name>> /\ (u.hosted = "" \/ target = "anthropic")
      \/ EncodeTool(target, u) = <<u.hosted>> /\ u.hosted # ""
      \/ EncodeTool(target, u) = <<"web_search">> /\ u.hosted # ""
      \/ /\ EncodeTool(target, u) = <<>>
         /\ u.hosted # "" /\ (target = ChatName \/ (u.hosted # "web_search" /\ u.family # target))
  <2>1. CASE target = AnthropicName
    <3>1. EncodeTool(target, u) = AnthropicEncodeTool(u)
      BY <2>1 DEF EncodeTool
    <3>2. CASE u.hosted = "" \/ u.family = AnthropicName
      BY <2>1, <3>1, <3>2 DEF AnthropicEncodeTool
    <3>3. CASE u.hosted # "" /\ u.family # AnthropicName
      <4>1. CASE u.hosted = "web_search"
        BY <2>1, <3>1, <3>3, <4>1 DEF AnthropicEncodeTool
      <4>2. CASE u.hosted # "web_search"
        BY <2>1, <3>1, <3>3, <4>2 DEF AnthropicEncodeTool
      <4> QED
        BY <4>1, <4>2
    <3> QED
      BY <3>2, <3>3
  <2>2. CASE target = ChatName
    <3>1. EncodeTool(target, u) = ChatEncodeTool(u)
      BY <2>2 DEF EncodeTool
    <3>2. CASE u.hosted = ""
      BY <3>1, <3>2 DEF ChatEncodeTool
    <3>3. CASE u.hosted # ""
      <4>1. EncodeTool(target, u) = <<>>
        BY <3>1, <3>3 DEF ChatEncodeTool
      <4> QED
        BY <2>2, <3>3, <4>1, Zenon
    <3> QED
      BY <3>2, <3>3
  <2>3. CASE target = ResponsesName
    <3>1. EncodeTool(target, u) = ResponsesEncodeTool(u)
      BY <2>3 DEF EncodeTool
    <3>2. CASE u.hosted = ""
      <4>1. EncodeTool(target, u) = <<u.name>>
        <5>1. u.family = ""
          BY <3>2 DEF Becomes, HostedNames
        <5> QED
          BY <3>1, <3>2, <5>1 DEF ResponsesEncodeTool
      <4> QED
        BY <3>2, <4>1
    <3>3. CASE u.hosted # "" /\ u.family = ResponsesName
      BY <3>1, <3>3 DEF ResponsesEncodeTool
    <3>4. CASE u.hosted # "" /\ u.family # ResponsesName
      <4>1. CASE u.hosted = "web_search"
        BY <1>1, <3>1, <3>4, <4>1 DEF ResponsesEncodeTool
      <4>2. CASE u.hosted # "web_search"
        BY <2>3, <3>1, <3>4, <4>2 DEF ResponsesEncodeTool
      <4> QED
        BY <4>1, <4>2
    <3> QED
      BY <3>2, <3>3, <3>4
  <2> QED
    BY <2>1, <2>2, <2>3 DEF Targets
<1>3. ToSet(<<>>) = {} /\ \A n : ToSet(<<n>>) = {n}
  BY DEF ToSet
<1>4. "web_search" \notin FunctionNames
  BY DEF FunctionNames
<1>5. <<>> \in Seq(Names) /\ \A n \in Names : <<n>> \in Seq(Names)
  OBVIOUS
<1>7. CASE EncodeTool(target, u) = <<u.name>> /\ (u.hosted = "" \/ target = "anthropic")
  BY <1>1, <1>3, <1>5, <1>7
<1>8. CASE EncodeTool(target, u) = <<u.hosted>> /\ u.hosted # ""
  BY <1>1, <1>3, <1>5, <1>8
<1>9. CASE EncodeTool(target, u) = <<"web_search">> /\ u.hosted # ""
  BY <1>1, <1>3, <1>4, <1>5, <1>9
<1>10. CASE /\ EncodeTool(target, u) = <<>>
            /\ u.hosted # "" /\ (target = ChatName \/ (u.hosted # "web_search" /\ u.family # target))
  BY <1>3, <1>5, <1>10
<1> QED
  BY <1>2, <1>7, <1>8, <1>9, <1>10

(* The list shown is the narrowed list, tool by tool.                        *)
LEMMA ToolsWritten ==
  ASSUME NEW r, RequestOK(r), NEW target \in Targets,
         \A u \in ToSet(r.tools) : \E t : Becomes(t, u)
  PROVE  ToSet(EncodeRequest(r, target).tools) =
           UNION {ToSet(EncodeTool(target, u)) : u \in ToSet(AllowlistNarrow(r).tools)}
<1> DEFINE n == AllowlistNarrow(r).tools
           written == [i \in DOMAIN n |-> EncodeTool(target, n[i])]
<1>1. n \in Seq(ToolType) /\ ToSet(n) \subseteq ToSet(r.tools)
  BY Narrowed DEF RequestOK
<1>2. \A strict : Normalized(r, strict).tools = n
  BY NormalizedChoice
<1>3. EncodeRequest(r, target).tools = FlattenSeq(written)
  <2> USE DEF AnthropicName, ChatName, ResponsesName
  <2> HIDE DEF n
  <2>1. CASE target = AnthropicName
    <3>1. EncodeRequest(r, target).tools = Each(AnthropicEncodeTool, n)
      BY <1>2, <2>1 DEF EncodeRequest, AnthropicEncodeRequest
    <3>2. Each(AnthropicEncodeTool, n) = FlattenSeq([i \in DOMAIN n |-> AnthropicEncodeTool(n[i])])
      BY DEF Each
    <3>3. \A u : EncodeTool(target, u) = AnthropicEncodeTool(u)
      BY <2>1 DEF EncodeTool
    <3> QED
      BY <3>1, <3>2, <3>3
  <2>2. CASE target = ChatName
    <3>1. EncodeRequest(r, target).tools = Each(ChatEncodeTool, n)
      BY <1>2, <2>2 DEF EncodeRequest, ChatEncodeRequest
    <3>2. Each(ChatEncodeTool, n) = FlattenSeq([i \in DOMAIN n |-> ChatEncodeTool(n[i])])
      BY DEF Each
    <3>3. \A u : EncodeTool(target, u) = ChatEncodeTool(u)
      BY <2>2 DEF EncodeTool
    <3> QED
      BY <3>1, <3>2, <3>3
  <2>3. CASE target = ResponsesName
    <3>1. EncodeRequest(r, target).tools = Each(ResponsesEncodeTool, n)
      BY <1>2, <2>3 DEF EncodeRequest, ResponsesEncodeRequest
    <3>2. Each(ResponsesEncodeTool, n) = FlattenSeq([i \in DOMAIN n |-> ResponsesEncodeTool(n[i])])
      BY DEF Each
    <3>3. \A u : EncodeTool(target, u) = ResponsesEncodeTool(u)
      BY <2>3 DEF EncodeTool
    <3> QED
      BY <3>1, <3>2, <3>3
  <2> QED
    BY <2>1, <2>2, <2>3 DEF Targets
<1>4. DOMAIN n = 1 .. Len(n) /\ Len(n) \in Nat
  <2> HIDE DEF n
  <2> QED
    BY <1>1
<1>5. \A i \in DOMAIN n : n[i] \in ToSet(n)
  BY DEF ToSet
<1>6. \A i \in DOMAIN n : written[i] \in Seq(Names)
  <2>1. SUFFICES ASSUME NEW i \in DOMAIN n
                 PROVE  EncodeTool(target, n[i]) \in Seq(Names)
    OBVIOUS
  <2> HIDE DEF n
  <2>2. PICK t : Becomes(t, n[i])
    BY <1>1, <1>5
  <2> QED
    BY <2>2, ToolWritten
<1>7. written \in Seq(Seq(Names)) /\ DOMAIN written = DOMAIN n
  <2>1. written = [i \in 1 .. Len(n) |-> written[i]] /\ DOMAIN written = DOMAIN n
    BY <1>4
  <2> HIDE DEF n, written
  <2> QED
    BY <1>4, <1>6, <2>1, AListOf
<1>8. ToSet(FlattenSeq(written)) = UNION {ToSet(written[i]) : i \in DOMAIN written}
  <2> HIDE DEF written
  <2> QED
    BY <1>7, Flattened
<1>9. UNION {ToSet(written[i]) : i \in DOMAIN n} = UNION {ToSet(EncodeTool(target, u)) : u \in ToSet(n)}
  <2>1. {ToSet(written[i]) : i \in DOMAIN n} = {ToSet(EncodeTool(target, u)) : u \in ToSet(n)}
    <3>1. \A i \in DOMAIN n : written[i] = EncodeTool(target, n[i])
      OBVIOUS
    <3>2. \A u \in ToSet(n) : \E i \in DOMAIN n : u = n[i]
      BY DEF ToSet
    <3> HIDE DEF n, written
    <3> QED
      BY <1>5, <3>1, <3>2
  <2> QED
    BY <2>1
<1> HIDE DEF written
<1> QED
  BY <1>3, <1>7, <1>8, <1>9

(* The decoded request of a wire.                                          *)
LEMMA DecodedOK ==
  ASSUME WireOK
  PROVE  /\ RequestOK(DecodeRequest(wire))
         /\ DOMAIN DecodeRequest(wire).tools = DOMAIN wire.tools
         /\ \A i \in DOMAIN wire.tools : Becomes(wire.tools[i], DecodeRequest(wire).tools[i])
<1> DEFINE r == DecodeRequest(wire)
<1>1. r = [system |-> r.system, refs |-> r.refs, thinking |-> r.thinking, choice |-> r.choice,
           tools |-> r.tools, messages |-> r.messages]
  <2> DEFINE atools == [i \in DOMAIN wire.tools |-> AnthropicDecodeTool(wire.tools[i])]
             amessages == [i \in DOMAIN wire.sent |-> Message(wire.sent[i].role,
                              AnthropicDecodeContent(wire.sent[i].content))]
             ctools == [i \in DOMAIN wire.tools |->
                           [name |-> wire.tools[i].name, hosted |-> "", family |-> ""]]
  <2>1. CASE wire.client = AnthropicName
    <3>0. r = AnthropicDecodeRequest(wire)
      BY <2>1 DEF DecodeRequest, AnthropicName, ChatName, ResponsesName, GeminiName
    <3>1. r = [system |-> <<>>, refs |-> 0, thinking |-> wire.thinking, choice |-> wire.choice,
               tools |-> atools, messages |-> amessages]
      BY <3>0, Zenon DEF AnthropicDecodeRequest
    <3> HIDE DEF r, atools, amessages
    <3> QED
      BY <3>1
  <2>2. CASE wire.client = ChatName
    <3>0. r = ChatDecodeRequest(wire)
      BY <2>2 DEF DecodeRequest, AnthropicName, ChatName, ResponsesName, GeminiName
    <3>1. r = [system |-> Each(ChatSystem, wire.sent), refs |-> 0, thinking |-> wire.thinking,
               choice |-> ChatDecodeChoice(wire.choice), tools |-> ctools,
               messages |-> Each(ChatDecodeMessage, wire.sent)]
      BY <3>0, Zenon DEF ChatDecodeRequest
    <3> HIDE DEF r, ctools
    <3> QED
      BY <3>1
  <2>3. CASE wire.client = ResponsesName
    BY <2>3 DEF DecodeRequest, ResponsesDecodeRequest, AnthropicName, ChatName, ResponsesName
  <2>4. CASE wire.client = GeminiName
    BY <2>4 DEF DecodeRequest, GeminiDecodeRequest, AnthropicName, ChatName, ResponsesName,
                GeminiName
  <2> QED
    BY <2>1, <2>2, <2>3, <2>4 DEF WireOK, Clients
<1>2. ChoiceOK(r.choice)
  BY WishesAreChoices DEF WireOK
<1>3. /\ r.tools \in Seq(ToolType) /\ DOMAIN r.tools = DOMAIN wire.tools
      /\ \A i \in DOMAIN wire.tools : Becomes(wire.tools[i], r.tools[i])
  BY ToolsBecomeTools DEF WireOK
<1> QED
  BY <1>1, <1>2, <1>3 DEF RequestOK
-----------------------------------------------------------------------------
(* An attempt's body and notes, told from the request that was decoded.    *)
LEMMA AttemptOf ==
  ASSUME Carried, Tried
  PROVE  \E target \in Targets, forced \in BOOLEAN :
           /\ Target = target /\ attempt.forced = forced
           /\ attempt.body = EncodeRequest(Overridden(DecodeRequest(wire), forced), target)
           /\ attempt.notes.choice = ChoiceNotes(DecodeRequest(wire), target)
           /\ attempt.notes.tools = Cardinality(DroppedTools(DecodeRequest(wire), target))
<1>1. request = DecodeRequest(wire)
  BY DEF Carried, Tried
<1>2. PICK target \in Targets, forced \in BOOLEAN : attempt = TheAttempt(target, forced)
  BY DEF Carried, Tried
<1>3. /\ attempt.body = EncodeRequest(Overridden(request, forced), target)
      /\ attempt.notes = Diagnose(request, target) /\ attempt.forced = forced
  BY <1>2 DEF TheAttempt
<1>4. /\ Diagnose(request, target).choice = ChoiceNotes(request, target)
      /\ Diagnose(request, target).tools = Cardinality(DroppedTools(request, target))
  BY DEF Diagnose, CountOf, Those, Each
<1>5. \A r : EncodeRequest(r, target).family = target
  <2> USE DEF AnthropicName, ChatName, ResponsesName
  <2>1. CASE target = AnthropicName
    BY <2>1 DEF EncodeRequest, AnthropicEncodeRequest
  <2>2. CASE target = ChatName
    BY <2>2 DEF EncodeRequest, ChatEncodeRequest
  <2>3. CASE target = ResponsesName
    BY <2>3 DEF EncodeRequest, ResponsesEncodeRequest
  <2> QED
    BY <2>1, <2>2, <2>3 DEF Targets
<1> QED
  BY <1>1, <1>3, <1>4, <1>5 DEF Target

(* RequestRelay!ChoiceHonouredOrNoted.  The upstream is asked for the choice *)
(* of tools the client made, among the tools it allows, or a note says it is *)
(* not: the passes change a choice exactly where the notes look              *)
(* (normalize.go:172, types.go:574, types.go:612, diagnose.go:376).          *)
THEOREM ChoiceIsHonoured == Spec => []ChoiceHonouredOrNoted
<1>1. ASSUME Carried
      PROVE  ChoiceHonouredOrNoted
  <2> DEFINE r == DecodeRequest(wire)
  <2>1. SUFFICES ASSUME Tried, ~(attempt.forced /\ Target = ChatName)
        PROVE  /\ attempt.notes.choice \cap {"dropped", "relaxed"} = {} <=>
                    attempt.body.choice =
                      IF r.choice.raw # "" THEN [mode |-> "typed", name |-> r.choice.raw]
                      ELSE [mode |-> r.choice.mode, name |-> r.choice.name]
               /\ AllowlistApplies(r.choice) /\ "allowlist" \notin attempt.notes.choice =>
                    \A t \in ToSet(wire.tools) :
                        t.name \in ToSet(attempt.body.tools) /\ t.type = "" =>
                          t.name \in r.choice.allowed
    BY Zenon DEF ChoiceHonouredOrNoted
  <2>2. PICK target \in Targets, forced \in BOOLEAN :
           /\ Target = target /\ attempt.forced = forced
           /\ attempt.body = EncodeRequest(Overridden(r, forced), target)
           /\ attempt.notes.choice = ChoiceNotes(r, target)
    BY <1>1, <2>1, AttemptOf
  <2>3. /\ RequestOK(r) /\ DOMAIN r.tools = DOMAIN wire.tools
        /\ \A i \in DOMAIN wire.tools : Becomes(wire.tools[i], r.tools[i])
    BY <1>1, DecodedOK DEF Carried
  <2> DEFINE o == Overridden(r, forced)
             n == AllowlistNarrow(o).tools
  <2>4. RequestOK(o) /\ o.choice = r.choice /\ o.tools = r.tools
    <3> HIDE DEF r
    <3> QED
      BY <2>3, OverriddenOK
  <2> HIDE DEF r
  <2>5. attempt.notes.choice \cap {"dropped", "relaxed"} = {} <=>
          attempt.body.choice =
            IF r.choice.raw # "" THEN [mode |-> "typed", name |-> r.choice.raw]
            ELSE [mode |-> r.choice.mode, name |-> r.choice.name]
    <3>1. ~(forced /\ target = ChatName)
      BY <2>1, <2>2
    <3>2. ChoiceNotes(r, target) \cap {"dropped", "relaxed"} = {} <=>
            EncodeRequest(Overridden(r, forced), target).choice =
              IF r.choice.raw # "" THEN [mode |-> "typed", name |-> r.choice.raw]
              ELSE [mode |-> r.choice.mode, name |-> r.choice.name]
      BY <2>3, <3>1, HonouredUnlessNoted
    <3> QED
      BY <2>2, <3>2, Zenon
  <2>6. ASSUME AllowlistApplies(r.choice), "allowlist" \notin attempt.notes.choice,
               NEW t \in ToSet(wire.tools), t.name \in ToSet(attempt.body.tools), t.type = ""
        PROVE  t.name \in r.choice.allowed
    <3>1. PICK i \in DOMAIN wire.tools : t = wire.tools[i]
      BY DEF ToSet
    <3>2. t.name \in FunctionNames
      BY <2>3, <2>6, <3>1 DEF Becomes
    <3>3. AllowlistNarrow(r).ok
      <4>1. r.tools # <<>>
        <5>1. r.tools = <<>> => DOMAIN r.tools = {}
          OBVIOUS
        <5> QED
          BY <2>3, <3>1, <5>1
      <4>2. ~ToolChoiceWithoutTools(r)
        BY <4>1 DEF ToolChoiceWithoutTools
      <4> QED
        BY <2>2, <2>6, <4>2 DEF ChoiceNotes
    <3>4. \A u \in ToSet(n) : u \in ToSet(r.tools) /\ (u.hosted # "" \/ u.name \in r.choice.allowed)
      <4>1. AllowlistNarrow(o).ok
        <5> HIDE DEF o
        <5> QED
          BY <2>4, <3>3 DEF AllowlistNarrow
      <4> HIDE DEF o
      <4>2. o.tools \in Seq(ToolType)
        BY <2>4 DEF RequestOK
      <4>3. /\ ToSet(AllowlistNarrow(o).tools) \subseteq ToSet(o.tools)
            /\ AllowlistNarrow(o).ok =>
                  \A u \in ToSet(AllowlistNarrow(o).tools) : u.hosted # "" \/ u.name \in o.choice.allowed
        BY <4>2, Narrowed
      <4> QED
        BY <2>4, <4>1, <4>3
    <3>5. \A u \in ToSet(r.tools) : \E j \in DOMAIN wire.tools : Becomes(wire.tools[j], u)
      BY <2>3 DEF ToSet
    <3>6. PICK u \in ToSet(n) : t.name \in ToSet(EncodeTool(target, u))
      <4>1. ToSet(attempt.body.tools) = UNION {ToSet(EncodeTool(target, u)) : u \in ToSet(n)}
        <5> HIDE DEF o
        <5> QED
          BY <2>2, <2>4, <3>5, ToolsWritten DEF o
      <4> QED
        BY <2>6, <4>1
    <3>7. PICK j \in DOMAIN wire.tools : Becomes(wire.tools[j], u)
      BY <3>4, <3>5, <3>6
    <3>8. u.hosted = "" /\ t.name = u.name
      BY <3>2, <3>6, <3>7, ToolWritten
    <3> QED
      BY <3>4, <3>6, <3>8
  <2> QED
    BY <2>5, <2>6
<1> QED
  BY <1>1, CarriedAlways, PTL

(* RequestRelay!ChoiceCanBeMet, a part of AcceptableToTheTarget.  A body     *)
(* that makes the model use a tool has one, or the client declared nothing   *)
(* but hosted tools this upstream has no form for; one that names a tool has *)
(* that tool; and only a typed choice on its way to Anthropic loses its mode *)
(* (types.go:612, types.go:641, anthropic/codec.go:595).                     *)
THEOREM ForcedToolsAreThere == Spec => []ChoiceCanBeMet
<1>1. ASSUME Carried
      PROVE  ChoiceCanBeMet
  <2> DEFINE r == DecodeRequest(wire)
             choice == attempt.body.choice
             tools == ToSet(attempt.body.tools)
  <2>1. SUFFICES ASSUME Tried
                 PROVE  /\ choice.mode = "any" => tools # {} \/ OnlyHostedOnesLeftOut
                        /\ choice.mode = "tool" => choice.name \in tools
                        /\ choice.mode = "" => EmptiedChoice
    BY Zenon DEF ChoiceCanBeMet
  <2>2. PICK target \in Targets, forced \in BOOLEAN :
           /\ Target = target
           /\ attempt.body = EncodeRequest(Overridden(r, forced), target)
           /\ attempt.notes.tools = Cardinality(DroppedTools(r, target))
    BY <1>1, <2>1, AttemptOf
  <2>3. /\ RequestOK(r) /\ DOMAIN r.tools = DOMAIN wire.tools
        /\ \A i \in DOMAIN wire.tools : Becomes(wire.tools[i], r.tools[i])
    BY <1>1, DecodedOK DEF Carried
  <2> DEFINE o == Overridden(r, forced)
             c == Normalized(o, target = AnthropicName).choice
             n == AllowlistNarrow(o).tools
  <2>4. RequestOK(o) /\ o.choice = r.choice /\ o.tools = r.tools
    <3> HIDE DEF r
    <3> QED
      BY <2>3, OverriddenOK
  <2> HIDE DEF r
  <2>5. attempt.body = EncodeRequest(o, target)
    BY <2>2
  <2> HIDE DEF o
  <2>6. \A u \in ToSet(r.tools) : \E t : Becomes(t, u)
    BY <2>3 DEF ToSet
  <2>7. tools = UNION {ToSet(EncodeTool(target, u)) : u \in ToSet(n)}
    BY <2>4, <2>5, <2>6, ToolsWritten
  <2>8. ToSet(n) \subseteq ToSet(r.tools) /\ (n = <<>> <=> r.tools = <<>>) /\ n \in Seq(ToolType)
        /\ (r.choice.mode = "tool" => n = r.tools)
    BY <2>4, Narrowed DEF RequestOK
  <2>8a. (\E u \in ToSet(r.tools) : u.hosted = "") => \E u \in ToSet(n) : u.hosted = ""
    <3>1. /\ o.tools \in Seq(ToolType)
          /\ (\E u \in ToSet(o.tools) : u.hosted = "") =>
                \E u \in ToSet(AllowlistNarrow(o).tools) : u.hosted = ""
      BY <2>4, Narrowed DEF RequestOK
    <3> QED
      BY <2>4, <3>1
  <2>9. ASSUME NEW u \in ToSet(n), ToSet(EncodeTool(target, u)) = {}
        PROVE  u.hosted # "" /\ \E i \in DOMAIN r.tools : i \in DroppedTools(r, target)
    <3>1. PICK i \in DOMAIN r.tools : u = r.tools[i]
      BY <2>8 DEF ToSet
    <3>2. u.hosted # "" /\ (target = ChatName \/ (u.hosted # "web_search" /\ u.family # target))
      BY <2>3, <2>9, <3>1, ToolWritten
    <3> QED
      BY <3>1, <3>2 DEF DroppedTools
  <2>10. /\ choice.mode = "any" => c.mode = "any"
         /\ choice.mode = "tool" => c.mode = "tool" /\ choice.name = c.name
         /\ choice.mode = "" => c.mode = "" /\ target = AnthropicName
    <3>1. choice = IF target = ResponsesName /\ c.raw # "" THEN [mode |-> "typed", name |-> c.raw]
                   ELSE IF target = ChatName /\ o.thinking /\ c.mode \in {"any", "tool"}
                   THEN [mode |-> "auto", name |-> ""]
                   ELSE IF target # AnthropicName /\ c.mode = "" THEN [mode |-> "absent", name |-> ""]
                   ELSE [mode |-> c.mode, name |-> c.name]
      <4> DEFINE asked == EncodeRequest(o, target).choice
      <4>1. asked = IF target = ResponsesName /\ c.raw # "" THEN [mode |-> "typed", name |-> c.raw]
                    ELSE IF target = ChatName /\ o.thinking /\ c.mode \in {"any", "tool"}
                    THEN [mode |-> "auto", name |-> ""]
                    ELSE IF target # AnthropicName /\ c.mode = "" THEN [mode |-> "absent", name |-> ""]
                    ELSE [mode |-> c.mode, name |-> c.name]
        BY <2>4, ChoiceAskedFor
      <4>2. choice = asked
        BY <2>5
      <4> HIDE DEF asked, c, choice
      <4> QED
        BY <4>1, <4>2
    <3> HIDE DEF c, choice
    <3> QED
      BY <3>1
  <2>11. IF ToolChoiceWithoutTools(o) THEN c = NoChoice
         ELSE IF ForcedToolUndeclared(o)
         THEN c.mode = "auto" /\ c.name = ""
         ELSE c = r.choice
    <3>1. \A strict :
            IF ToolChoiceWithoutTools(o) THEN Normalized(o, strict).choice = NoChoice
            ELSE IF ForcedToolUndeclared(o)
            THEN /\ Normalized(o, strict).choice.mode = "auto"
                 /\ Normalized(o, strict).choice.name = ""
            ELSE Normalized(o, strict).choice = o.choice
      BY <2>4, NormalizedChoice
    <3> QED
      BY <2>4, <3>1
  <2> HIDE DEF c, choice, tools, n
  <2>12. c.mode \in {"any", "tool"} =>
           /\ c = r.choice /\ r.tools # <<>>
           /\ c.mode = "tool" => \E i \in DOMAIN r.tools : r.tools[i].name = c.name
    <3>1. SUFFICES ASSUME c.mode \in {"any", "tool"}
                   PROVE  /\ c = r.choice /\ r.tools # <<>>
                          /\ c.mode = "tool" => \E i \in DOMAIN r.tools : r.tools[i].name = c.name
      OBVIOUS
    <3>2. ~ToolChoiceWithoutTools(o) /\ ~ForcedToolUndeclared(o) /\ c = r.choice
      BY <2>11, <3>1, NoChoiceFields
    <3>3. r.tools # <<>>
      BY <2>4, <3>1, <3>2 DEF ToolChoiceWithoutTools
    <3>4. c.mode = "tool" => c.name # ""
      BY <2>3, <3>2 DEF RequestOK, ChoiceOK, Nameable
    <3> QED
      BY <2>4, <3>2, <3>3, <3>4 DEF ForcedToolUndeclared
  <2>13. ASSUME choice.mode = "any", tools = {}
         PROVE  OnlyHostedOnesLeftOut
    <3>1. \A u \in ToSet(n) : ToSet(EncodeTool(target, u)) = {}
      BY <2>7, <2>13
    <3>2. n # <<>>
      BY <2>8, <2>10, <2>12, <2>13
    <3>3. 1 \in DOMAIN n
      BY <2>8, <3>2
    <3>4. n[1] \in ToSet(n)
      BY <3>3 DEF ToSet
    <3>5. DroppedTools(r, target) # {}
      BY <2>9, <3>1, <3>4
    <3>6. IsFiniteSet(DOMAIN r.tools)
      <4>1. DOMAIN r.tools = 1 .. Len(r.tools) /\ Len(r.tools) \in Nat
        BY <2>3 DEF RequestOK
      <4> QED
        BY <4>1, FS_Interval
    <3>7. IsFiniteSet(DroppedTools(r, target))
      BY <3>6, FS_Subset DEF DroppedTools
    <3>8. attempt.notes.tools \in Nat /\ attempt.notes.tools # 0
      BY <2>2, <3>5, <3>7, FS_EmptySet, FS_CardinalityType
    <3>9. \A u \in ToSet(r.tools) : u.hosted # ""
      BY <2>8a, <2>9, <3>1
    <3>10. \A i \in DOMAIN wire.tools : wire.tools[i].type # ""
      BY <2>3, <3>9 DEF Becomes, ToSet
    <3>11. \A t \in ToSet(wire.tools) : t.type # ""
      BY <3>10 DEF ToSet
    <3>12. attempt.notes.tools > 0
      BY <3>8
    <3> QED
      BY <3>11, <3>12, Zenon DEF OnlyHostedOnesLeftOut
  <2>14. ASSUME choice.mode = "tool"
         PROVE  choice.name \in tools
    <3>1. c = r.choice /\ c.mode = "tool" /\ choice.name = c.name
      BY <2>10, <2>12, <2>14
    <3>2. PICK i \in DOMAIN r.tools : r.tools[i].name = c.name
      BY <2>12, <3>1
    <3>3. c.name \in Nameable
      BY <2>3, <3>1 DEF RequestOK, ChoiceOK
    <3>4. Becomes(wire.tools[i], r.tools[i])
      BY <2>3
    <3>5. r.tools[i].hosted = ""
      BY <3>2, <3>3, <3>4 DEF Becomes, Nameable, HostedNames
    <3>6. r.tools[i] \in ToSet(n)
      BY <2>8, <3>1 DEF ToSet
    <3>7. ToSet(EncodeTool(target, r.tools[i])) = {c.name}
      BY <3>2, <3>4, <3>5, ToolWritten
    <3> QED
      BY <2>7, <3>1, <3>6, <3>7
  <2>15. ASSUME choice.mode = ""
         PROVE  EmptiedChoice
    <3>1. c.mode = "" /\ target = AnthropicName
      BY <2>10, <2>15
    <3>2. c = r.choice
      BY <2>11, <3>1, NoChoiceFields
    <3>3. r.choice.raw # ""
      BY <2>3, <3>1, <3>2 DEF RequestOK, ChoiceOK, Modes
    <3> QED
      BY <2>2, <3>1, <3>3 DEF EmptiedChoice, r
  <2> QED
    BY <2>13, <2>14, <2>15
<1> QED
  BY <1>1, CarriedAlways, PTL
=============================================================================
