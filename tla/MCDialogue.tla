------------------------------ MODULE MCDialogue ------------------------------
EXTENDS Dialogue

Pieces == {<<"<">>, <<"/">>, <<"think>">>, <<"word">>, <<"<", "think>", "word">>, <<"/", "think>", "word">>}

Call(body) == <<"<tool_call>", body, "</tool_call>">>
ToolPieces ==
    {Open, Close, <<"word">>, <<"\n">>, <<"backticks">>, <<"<tool">>, <<"<tool_call>">>, <<"</tool_call>">>,
     <<"f(p=12)">>, Call("f(p=12)"), Call("g()"), Call("f(p=12)") \o Call("g()")}
    \cup {Call(b) : b \in {"f(p=ab,q=ab)", "f(q=12)", "f(p=ab,p=12)"}}

Started == [reasoning |-> "auto", reasoning_format |-> "auto", template |-> "think", protocol |-> "qwen_xml",
            vision |-> FALSE, batch_greedy |-> FALSE, temperature |-> 0, top_k |-> 0, penalty |-> 0]
Started3 ==
    {Started,
     [Started EXCEPT !.reasoning_format = "none", !.protocol = "hermes_json", !.vision = TRUE,
                     !.temperature = 1, !.penalty = 1],
     [Started EXCEPT !.reasoning = "off", !.template = "plain", !.reasoning_format = "deepseek",
                     !.protocol = "none", !.batch_greedy = TRUE]}

Body == [temperature |-> absent, top_k |-> absent, penalty |-> absent, max_tokens |-> absent,
         max_completion_tokens |-> absent, enable_thinking |-> "absent", tools |-> {"absent"},
         tool_choice |-> "absent", parallel |-> "absent", kind |-> "chat", envelope |-> "local", json |-> "object",
         store |-> "absent", model |-> "absent", stream |-> "absent", prompt |-> absent]
Both == [Body EXCEPT !.tools = {"f", "g"}]

\* A plain body and those one or two fields away, at the edges of their ranges; and
\* what a request can say of tools.
Requests ==
    {[Body EXCEPT !.temperature = t, !.penalty = p] : t \in {absent, 0, 1, 3}, p \in {absent, 0, 1}}
    \cup {[Body EXCEPT !.temperature = 1, !.top_k = k] : k \in {1, 1001}}
    \cup {[Body EXCEPT !.max_tokens = m, !.max_completion_tokens = n] : m \in {absent, 0, 1, 9}, n \in {absent, 1}}
    \cup {[Body EXCEPT !.enable_thinking = t] : t \in {"on", "off", "bad"}}
    \cup {[Body EXCEPT !.envelope = e] : e \in {"host", "origin", "type"}}
    \cup {[Body EXCEPT !.json = "other"], [Body EXCEPT !.store = "true"], [Body EXCEPT !.model = "other"],
          [Body EXCEPT !.stream = "bad"], [Body EXCEPT !.parallel = "bad"]}
    \cup {[Body EXCEPT !.tool_choice = c] : c \in {"none", "required"}}
    \cup {[Both EXCEPT !.tool_choice = c] : c \in {"absent", "none", "required", "f", "h"}}
    \cup {[Both EXCEPT !.parallel = "no"], [Body EXCEPT !.tools = {"f"}], [Body EXCEPT !.tools = {"h"}]}

Raw == [Body EXCEPT !.kind = "completion", !.prompt = 1]
Completions ==
    {[Raw EXCEPT !.prompt = p] : p \in {absent, 0, 1}} \cup {[Raw EXCEPT !.max_tokens = m] : m \in {1, 9}}
    \cup {[Raw EXCEPT !.temperature = 1], [Raw EXCEPT !.penalty = 1], [Raw EXCEPT !.enable_thinking = "on"]}

\* Bounds: a completion, and a message whose only fault is inside it, come first; later
\* turns have a plain request, with or without tools, and a text of one
\* piece.
MCNext ==
    \/ \E m \in MadeUp :
         (m.content \in {"undecodable", "url", "arguments"} => conv = <<>>) /\ Write(m)
    \/ \E b \in (CASE conv = <<>> -> {Body} \cup Completions
                   [] Len(conv) = 1 -> Bodies [] OTHER -> {Body, Both}) : Post(b)
    \/ Generate \/ Conclude \/ Keep
MCSpec == Init /\ [][MCNext]_chat
Turns == tokens <= IF Len(conv) > 1 THEN 1 ELSE IF job.policy = NoPolicy THEN 4 ELSE 3
=============================================================================
