-------------------------------- MODULE Reply --------------------------------
(***************************************************************************)
(* From the model's text to what the client is sent: the reasoning         *)
(* splitter of quantlab/reasoning.py fed fragment by fragment, and the     *)
(* tool-call parser of quantlab/tool_calls.py run on the whole text, as    *)
(* Engine.generate (serve_exl3.py) uses them.                              *)
(*                                                                         *)
(* A text is a sequence of atoms.  A think marker is several atoms, since  *)
(* a fragment may end inside it; a tool marker, a fence line, a word and   *)
(* the body of a call are one atom each.                                   *)
(***************************************************************************)
EXTENDS Naturals, FiniteSets, SequencesExt

CONSTANTS Fragments,      \* what one step of the generator can add to a text
          ToolFragments   \* the same where the request has tools

ASSUME ReplyAssumption == Fragments \subseteq Seq(STRING) /\ ToolFragments \subseteq Seq(STRING)

VARIABLES job,     \* the prepared request the engine runs
          raw,     \* the text so far
          tokens,  \* steps taken, against the job's limit
          split,   \* the splitter
          sent,    \* what went to the client, by channel
          final    \* "none", "stop", "length", "tool_calls" or "invalid"

reply == <<job, raw, tokens, split, sent, final>>

Open == <<"<", "think>">>
Close == <<"<", "/", "think>">>
Fences == {"backticks", "tildes"}
Blank == {"\n"}

NoPolicy == [is |-> "none"]
Splitter(open) == [buffer |-> <<>>, inside |-> open, finished |-> FALSE]
NothingSent == [reasoning |-> <<>>, visible |-> <<>>, calls |-> <<>>]

(***************************************************************************)
(* reasoning.ReasoningSplitter.                                            *)
(***************************************************************************)
Find(mark, text) ==
    LET at == {i \in 1..(Len(text) + 1 - Len(mark)) : SubSeq(text, i, i + Len(mark) - 1) = mark}
    IN IF at = {} THEN 0 ELSE CHOOSE i \in at : \A j \in at : i <= j

From(text, i) == SubSeq(text, i, Len(text))

\* The tail that may be the start of a marker stays in the buffer.
HeldMut(mark, text) == 0
Held(mark, text) == IF Len(text) < Len(mark) THEN Len(text) ELSE Len(mark) - 1

\* One turn of feed's loop looks for one marker: what precedes it, or all but the
\* held tail, goes to the channel the splitter is in.
Seek(s, mark) ==
    LET i == Find(mark, s.buffer)
        cut == IF i = 0 THEN Len(s.buffer) - Held(mark, s.buffer) ELSE i - 1
        next == IF i = 0 THEN cut + 1 ELSE i + Len(mark)
    IN [out |-> SubSeq(s.buffer, 1, cut), found |-> i # 0, rest |-> From(s.buffer, next)]

Outside(s) ==
    IF s.inside \/ s.finished THEN s
    ELSE LET t == Seek(s, Open)
         IN [s EXCEPT !.visible = @ \o t.out, !.buffer = t.rest, !.inside = t.found]

Inside(s) ==
    IF ~s.inside THEN s
    ELSE LET t == Seek(s, Close)
         IN [s EXCEPT !.reasoning = @ \o t.out, !.buffer = t.rest, !.inside = ~t.found,
                      !.finished = t.found]

After(s) ==
    IF s.finished THEN [s EXCEPT !.visible = @ \o s.buffer, !.buffer = <<>>] ELSE s

WithOutput(s) == [buffer |-> s.buffer, inside |-> s.inside, finished |-> s.finished,
                  reasoning |-> <<>>, visible |-> <<>>]

feed(s, text) == After(Inside(Outside(WithOutput([s EXCEPT !.buffer = @ \o text]))))

flush(s) == IF s.inside THEN [reasoning |-> s.buffer, visible |-> <<>>]
                        ELSE [reasoning |-> <<>>, visible |-> s.buffer]

split_complete(text, open) ==
    LET s == feed(Splitter(open), text)
        tail == flush(s)
    IN [reasoning |-> s.reasoning \o tail.reasoning, visible |-> s.visible \o tail.visible]

(***************************************************************************)
(* tool_calls.py.  The tools: f takes a string p and an optional integer   *)
(* q, g takes nothing.  A body atom stands for a block with these raw      *)
(* parameters, in order; any other text between the markers is malformed.  *)
(***************************************************************************)
Schema == [f |-> [p |-> "string", q |-> "integer"], g |-> <<>>]
Required == [f |-> {"p"}, g |-> {}]
Written == ("f(p=12)" :> [name |-> "f", given |-> << <<"p", "12">> >>])
        @@ ("f(p=ab,q=ab)" :> [name |-> "f", given |-> << <<"p", "ab">>, <<"q", "ab">> >>])
        @@ ("f(q=12)" :> [name |-> "f", given |-> << <<"q", "12">> >>])
        @@ ("f(p=ab,p=12)" :> [name |-> "f", given |-> << <<"p", "ab">>, <<"p", "12">> >>])
        @@ ("g()" :> [name |-> "g", given |-> <<>>])

\* Where a string is allowed the raw text is the value; elsewhere it must be JSON
\* (_parameter).  In the JSON protocol the value already has its type.
Parameter(raw_, expected) == IF expected = "string" THEN "string"
                             ELSE IF raw_ = "12" THEN "integer" ELSE "not JSON"
TypeOf(raw_, expected, protocol) ==
    IF protocol = "hermes_json" THEN (IF raw_ = "12" THEN "integer" ELSE "string")
                                ELSE Parameter(raw_, expected)

Keys(b) == {b.given[i][1] : i \in DOMAIN b.given}
Repeated(b) == Cardinality(Keys(b)) # Len(b.given)
ValueOf(b, key) == b.given[CHOOSE i \in DOMAIN b.given : b.given[i][1] = key][2]
Arguments(b, protocol) ==
    [key \in Keys(b) |-> TypeOf(ValueOf(b, key), Schema[b.name][key], protocol)]

\* _validate: required arguments there, each of its declared type.
Valid(name, args) ==
    /\ Required[name] \subseteq DOMAIN args
    /\ \A key \in DOMAIN args : args[key] = Schema[name][key]

Malformed == [is |-> "malformed"]
parse_call(body, policy) ==
    IF Len(body) # 1 \/ body[1] \notin DOMAIN Written THEN Malformed
    ELSE LET b == Written[body[1]] IN
         IF b.name \in policy.tools /\ ~Repeated(b) /\ Valid(b.name, Arguments(b, policy.protocol))
         THEN [is |-> "call", name |-> b.name, args |-> Arguments(b, policy.protocol)]
         ELSE Malformed

IsBlank(text) == \A i \in DOMAIN text : text[i] \in Blank

\* The first closing marker after i, with no opening marker before it; 0 if none.
EndOfCall(text, i) ==
    LET ends == {j \in (i + 1)..Len(text) : text[j] = "</tool_call>"}
        j == CHOOSE k \in ends : \A l \in ends : k <= l
    IN IF ends = {} THEN 0
       ELSE IF \E k \in (i + 1)..j : text[k] = "<tool_call>" THEN 0 ELSE j

FencedMut(scan, atom) == scan
Fenced(scan, atom) == [scan EXCEPT !.fence = IF @ = "none" THEN atom ELSE IF @ = atom THEN "none" ELSE @]

\* One marker met by the loop of _parse_response.
Unread == [ok |-> TRUE, pos |-> 1, fence |-> "none", calls |-> <<>>, content |-> <<>>]
Met(scan, between, call, end) ==
    [ok |-> TRUE, pos |-> end + 1, fence |-> "none", calls |-> Append(scan.calls, call),
     content |-> scan.content \o between]
Marker(text, policy, scan, i) ==
    LET atom == text[i]
        between == SubSeq(text, scan.pos, i - 1)
        end == EndOfCall(text, i)
        call == parse_call(SubSeq(text, i + 1, end - 1), policy)
    IN IF i < scan.pos \/ ~scan.ok THEN scan
       ELSE IF atom \in Fences THEN Fenced(scan, atom)
       ELSE IF scan.fence # "none" \/ atom \notin {"<tool_call>", "</tool_call>"} THEN scan
       ELSE IF atom = "</tool_call>" \/ end = 0 \/ (scan.calls # <<>> /\ ~IsBlank(between))
                \/ call = Malformed
       THEN [scan EXCEPT !.ok = FALSE]
       ELSE Met(scan, between, call, end)

Scan(text, policy) ==
    LET after[i \in 0..Len(text)] == IF i = 0 THEN Unread ELSE Marker(text, policy, after[i - 1], i)
    IN after[Len(text)]

\* What the policy asks of the calls, once the text is read.
Allowed(calls, policy, finish) ==
    /\ calls # <<>> => finish # "length" /\ policy.choice # "none"
    /\ policy.choice \notin {"auto", "none"} => calls # <<>>
    /\ policy.parallel \/ Len(calls) <= 1
    /\ policy.choice \in DOMAIN Schema => \A i \in DOMAIN calls : calls[i].name = policy.choice

Trimmed(text) ==
    SubSeq(text, 1, Cardinality({i \in DOMAIN text : ~IsBlank(From(text, i))}))

Unusable == [is |-> "ToolCallError"]
parse_response(text, policy, finish) ==
    LET scan == Scan(text, policy)
        tail == From(text, scan.pos)
        unfinished == scan.fence = "none" /\ text # <<>> /\ text[Len(text)] = "<tool"
    IN IF \/ ~scan.ok \/ ~Allowed(scan.calls, policy, finish)
          \/ IF scan.calls = <<>> THEN unfinished ELSE ~IsBlank(tail)
       THEN Unusable
       ELSE IF scan.calls = <<>> THEN [is |-> "reply", visible |-> text, calls |-> <<>>]
       ELSE [is |-> "reply", visible |-> Trimmed(scan.content), calls |-> scan.calls]

(***************************************************************************)
(* The text path of Engine.generate.  With a tool policy nothing is        *)
(* yielded before the whole text is parsed.                                *)
(***************************************************************************)
ReplyInit ==
    /\ job = [policy |-> NoPolicy, split |-> FALSE] /\ raw = <<>> /\ tokens = 0
    /\ split = Splitter(FALSE) /\ sent = NothingSent /\ final = "none"

Start(j) ==
    /\ job' = j /\ raw' = <<>> /\ tokens' = 0 /\ split' = Splitter(j.open)
    /\ sent' = NothingSent /\ final' = "none"

\* A piece sent on both channels.
More(out, piece) == [reasoning |-> out.reasoning \o piece.reasoning,
                     visible |-> out.visible \o piece.visible, calls |-> out.calls]

Emit(f) ==
    /\ final = "none" /\ tokens < job.limit
    /\ raw' = raw \o f /\ tokens' = tokens + 1
    /\ IF job.policy # NoPolicy THEN UNCHANGED <<split, sent>>
       ELSE IF job.split
       THEN LET s == feed(split, f) IN
            /\ split' = [buffer |-> s.buffer, inside |-> s.inside, finished |-> s.finished]
            /\ sent' = More(sent, s)
       ELSE sent' = More(sent, [reasoning |-> <<>>, visible |-> f]) /\ UNCHANGED split
    /\ UNCHANGED <<job, final>>

\* The generator's EOS event: a stop token, or the token limit.
EndText(finish) ==
    LET tail == flush(split) IN
    /\ job.policy = NoPolicy
    /\ sent' = IF job.split THEN More(sent, tail) ELSE sent
    /\ split' = Splitter(FALSE) /\ final' = finish

\* Calls are looked for in the visible part only, whether or not the reasoning is
\* shown apart; shown in line, it stands before it in its markers.
EndTools(finish) ==
    LET s == IF job.recognise THEN split_complete(raw, job.open)
             ELSE [reasoning |-> <<>>, visible |-> raw]
        parsed == parse_response(s.visible, job.policy, finish)
        inline == s.reasoning # <<>> /\ ~job.split
    IN
    /\ job.policy # NoPolicy
    /\ IF parsed = Unusable THEN final' = "invalid" /\ UNCHANGED sent
       ELSE /\ sent' = [reasoning |-> IF inline THEN <<>> ELSE s.reasoning,
                        visible |-> (IF inline THEN Open \o s.reasoning \o Close ELSE <<>>)
                                    \o parsed.visible,
                        calls |-> parsed.calls]
            /\ final' = IF parsed.calls = <<>> THEN finish ELSE "tool_calls"
    /\ UNCHANGED split

End ==
    /\ final = "none"
    /\ \E finish \in {"stop"} \cup (IF tokens = job.limit THEN {"length"} ELSE {}) :
          EndText(finish) \/ EndTools(finish)
    /\ UNCHANGED <<job, raw, tokens>>

(***************************************************************************)
(* Properties.                                                             *)
(***************************************************************************)
\* What the text means, read at once: the first think block, wherever it is.
Reasoned(text, open) ==
    LET o == IF open THEN 0 ELSE Find(Open, text)
        head == IF o = 0 THEN <<>> ELSE SubSeq(text, 1, o - 1)
        body == IF open THEN text ELSE From(text, o + Len(Open))
        c == Find(Close, body)
    IN IF ~open /\ o = 0 THEN [reasoning |-> <<>>, visible |-> text]
       ELSE IF c = 0 THEN [reasoning |-> body, visible |-> head]
       ELSE [reasoning |-> SubSeq(body, 1, c - 1), visible |-> head \o From(body, c + Len(Close))]

\* However the text was cut into fragments, the pieces streamed so far are the start
\* of what reading the whole text at once gives, channel by channel, and at the end
\* they are all of it: a marker cut in two is neither leaked nor lost
\* (ReasoningSplitter.feed, flush).
SplitExact ==
    (job.policy = NoPolicy /\ job.split) =>
        LET whole == Reasoned(raw, job.open) IN
        /\ IsPrefix(sent.reasoning, whole.reasoning) /\ IsPrefix(sent.visible, whole.visible)
        /\ final # "none" => /\ sent.reasoning = whole.reasoning /\ sent.visible = whole.visible
                             /\ sent.calls = <<>>

\* Position i is in the first code fence of the text: opened before any call, not
\* closed before i.
InFence(text, i) ==
    \E a \in 1..(i - 1) :
        /\ text[a] \in Fences
        /\ \A b \in 1..(a - 1) : text[b] \notin Fences \cup {"<tool_call>"}
        /\ \A b \in (a + 1)..(i - 1) : text[b] # text[a]

\* A call reaches the client only whole: written out between its markers after the
\* reasoning and outside any code fence, of a tool the request offered, with every
\* required argument of its declared type, in a reply that ended by itself and that
\* the request's tool_choice and parallel_tool_calls allow; and until it is known to
\* be, nothing of the reply is sent at all (module docstring of tool_calls.py).
OnlyWholeCalls ==
    job.policy # NoPolicy =>
        LET text == (IF job.recognise THEN Reasoned(raw, job.open).visible ELSE raw)
            Is(k, i) == /\ i + 2 <= Len(text) /\ text[i] = "<tool_call>" /\ text[i + 2] = "</tool_call>"
                        /\ text[i + 1] \in DOMAIN Written /\ Written[text[i + 1]].name = sent.calls[k].name
                        /\ ~InFence(text, i)
        IN
        /\ final \in {"none", "invalid"} => sent = NothingSent
        /\ sent.calls # <<>> => /\ final = "tool_calls" /\ job.policy.choice # "none"
                                /\ job.policy.parallel \/ Len(sent.calls) = 1
        /\ \A k \in DOMAIN sent.calls :
              LET call == sent.calls[k] IN
              /\ call.name \in job.policy.tools
              /\ job.policy.choice \in {"auto", "required", call.name}
              /\ Required[call.name] \subseteq DOMAIN call.args
              /\ \A key \in DOMAIN call.args : call.args[key] = Schema[call.name][key]
              /\ \E i \in DOMAIN text : Is(k, i)
=============================================================================
