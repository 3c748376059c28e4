------------------------------- MODULE Dialogue -------------------------------
(***************************************************************************)
(* A client's conversation with the server: what it sends, what            *)
(* quantlab/server.py lets through to the engine, what Engine.prepare      *)
(* (serve_exl3.py) makes of it, and the reply it may send back in the next *)
(* request.  The client may also make up any history.                      *)
(***************************************************************************)
EXTENDS Reply

CONSTANTS Servers,      \* how the server may have been started
          Bodies,       \* the fields of a request other than its messages
          MaxMessages,  \* bound: length of a conversation
          MaxImages,    \* images.MAX_IMAGES
          Context, Reserve  \* the context, and what prepare keeps free in it

\* The fields of a body that are numbers where they are given.
Numbers == {"max_tokens", "max_completion_tokens", "prompt"}
ASSUME DialogueAssumption ==
    /\ MaxImages \in Nat /\ Context \in Int /\ Reserve \in Int
    /\ \A b \in Bodies : b.kind \in {"chat", "completion"} /\ \A c \in Numbers : b[c] \in Int

VARIABLES server,   \* the options of this server
          conv,     \* the client's conversation
          honest,   \* ghost: every message is the client's own or a reply, results in place
          verdict,  \* what became of the last request
          asked,    \* ghost: the body being answered, until the first token
          prompt    \* the messages the template renders

dialogue == <<server, conv, honest, verdict, asked, prompt>>
chat == <<reply, dialogue>>

absent == -1            \* a numeric field that is not in the body
NoBody == [is |-> "none"]
Idle == verdict # "accepted"

(***************************************************************************)
(* Messages.  A call is <<id, name>>.  Content: "text", "null", "image" (a *)
(* data URL), "undecodable" (one whose bytes are no image), "url" (another *)
(* URL), "arguments" (none, and a call's arguments are no JSON object), or *)
(* "malformed": any field of a wrong type, an unknown key.                 *)
(***************************************************************************)
Message(role, content, calls, id, name) ==
    [role |-> role, content |-> content, calls |-> calls, id |-> id, name |-> name]
User(content) == Message("user", content, <<>>, 0, "none")
Assistant(content, calls) == Message("assistant", content, calls, 0, "none")
Result(id, name) == Message("tool", "text", <<>>, id, name)

IdsOf(m) == {m.calls[k][1] : k \in DOMAIN m.calls}
HasCalls(m) == m.role = "assistant" /\ m.calls # <<>>

\* image_url_bytes looks at the URL; the bytes are decoded later, by prepare.
ImageUrlOk(m) == m.content \in {"image", "undecodable"}
\* _normalize_content
ContentOkMut(m) == m.content = "text" \/ (ImageUrlOk(m) /\ m.role = "user" /\ server.vision)
ContentOk(m) ==
    \/ m.content = "text"          \* a string, or text parts joined
    \/ m.content = "null" /\ HasCalls(m)
    \/ ImageUrlOk(m) /\ m.role = "user" /\ server.vision
\* _parse_tool_arguments
ArgumentsOk(m) == m.content # "arguments"
MessageOk(m) == ContentOk(m) /\ ArgumentsOk(m) /\ Cardinality(IdsOf(m)) = Len(m.calls)

\* The protocol across turns, message by message: the calls awaiting a result, and
\* the ids used.
Awaited(m) == {m.calls[k] : k \in DOMAIN m.calls}
Answering(s, m) == {c \in s.pending : c[1] = m.id}
Turn(s, m) ==
    IF HasCalls(m)
    THEN [ok |-> s.ok /\ s.pending = {} /\ IdsOf(m) \cap s.seen = {},
          pending |-> Awaited(m), seen |-> s.seen \cup IdsOf(m)]
    ELSE IF m.role = "tool"
    THEN [ok |-> s.ok /\ Answering(s, m) # {} /\ \A c \in Answering(s, m) : m.name \in {"none", c[2]},
          pending |-> s.pending \ Answering(s, m), seen |-> s.seen]
    ELSE [ok |-> s.ok /\ s.pending = {}, pending |-> s.pending, seen |-> s.seen]
Unspoken == [ok |-> TRUE, pending |-> {}, seen |-> {}]
Protocol ==
    LET turn[i \in 0..Len(conv)] == IF i = 0 THEN Unspoken ELSE Turn(turn[i - 1], conv[i])
    IN turn[Len(conv)]

Images == Cardinality({i \in DOMAIN conv : ImageUrlOk(conv[i])})

MessagesOk ==
    /\ conv # <<>> /\ \A i \in DOMAIN conv : MessageOk(conv[i])
    /\ Images <= MaxImages
    /\ Protocol.ok /\ Protocol.pending = {}

\* Each group of results goes in the order of the calls before it: the template does
\* not write the ids.
Caller(i) == CHOOSE j \in 1..i : HasCalls(conv[j]) /\ \A k \in (j + 1)..i : conv[k].role = "tool"
Rank(i) ==
    IF conv[i].role # "tool" THEN i
    ELSE Caller(i) + (CHOOSE k \in DOMAIN conv[Caller(i)].calls : conv[Caller(i)].calls[k][1] = conv[i].id)
OrderedMut == conv
Ordered == [i \in DOMAIN conv |-> conv[CHOOSE j \in DOMAIN conv : Rank(j) = i]]

(***************************************************************************)
(* The request around them and the other fields, each as its function      *)
(* takes it.  A completion has a prompt in place of messages.              *)
(***************************************************************************)
\* _LocalRequestsOnly, before the body is read: a local Host, no other Origin, JSON.
Local(b) == b.envelope = "local"

\* _parse, _reject_unknown, store; a completion takes no field of tools or thinking.
ChatOnly(b) ==
    \/ b.max_completion_tokens # absent \/ b.tools # {"absent"} \/ b.tool_choice # "absent"
    \/ b.parallel # "absent" \/ b.enable_thinking # "absent" \/ b.store # "absent"
KeysOk(b) ==
    /\ b.json = "object" /\ b.store \in {"absent", "false"}
    /\ b.kind = "completion" => ~ChatOnly(b)

ModelOk(b) == b.model \in {"absent", "served"}
StreamOk(b) == b.stream \in {"absent", "on"}        \* stream_options included
TemplateOk(b) == b.enable_thinking \in {"absent", "on", "off"}
ParallelOk(b) == b.parallel \in {"absent", "yes", "no"}
PromptOk(b) == b.kind = "completion" => b.prompt # absent

\* check_sampling's ranges: of temperature [0, 2], top_k [0, 1000], and a penalty
\* (here 0 is off) [-2, 2].
SamplingOk(b) == b.temperature \in {absent, 0, 1, 2} /\ b.top_k \in -1..1000 /\ b.penalty \in {absent, 0, 1, 2}

MaxTokensOk(b) ==
    /\ b.max_tokens # 0 /\ b.max_completion_tokens # 0
    /\ b.max_tokens # absent /\ b.max_completion_tokens # absent => b.max_tokens = b.max_completion_tokens
MaxTokens(b) == IF b.max_tokens # absent THEN b.max_tokens ELSE b.max_completion_tokens

ToolsGiven(b) == b.tools # {"absent"}
Tools(b) == IF ToolsGiven(b) THEN b.tools ELSE {}
ToolsOk(b) == Tools(b) \subseteq {"f", "g"}    \* well-formed, each name once

ToolChoiceOk(b) ==
    \/ b.tool_choice \in {"absent", "auto", "none"}
    \/ b.tool_choice = "required" /\ Tools(b) # {}
    \/ b.tool_choice \in Tools(b)
ToolChoice(b) ==
    IF b.tool_choice # "absent" THEN b.tool_choice ELSE IF Tools(b) # {} THEN "auto" ELSE "none"

BodyOk(b) ==
    /\ KeysOk(b) /\ SamplingOk(b) /\ ModelOk(b) /\ MaxTokensOk(b) /\ StreamOk(b) /\ TemplateOk(b)
    /\ ToolsOk(b) /\ ToolChoiceOk(b) /\ ParallelOk(b) /\ PromptOk(b)

(***************************************************************************)
(* Engine.prepare.                                                         *)
(***************************************************************************)
Controls == {"temperature", "top_k", "penalty"}
Params(b) == [c \in Controls |-> IF b[c] # absent THEN b[c] ELSE server[c]]
is_greedy(params) == params.temperature = 0 \/ params.top_k = 1
is_plain_greedyMut(params) == is_greedy(params)
is_plain_greedy(params) == is_greedy(params) /\ params.penalty = 0

Thinking(b) ==
    IF b.enable_thinking # "absent" THEN b.enable_thinking
    ELSE IF server.reasoning = "auto" THEN "default" ELSE server.reasoning
Recognised == server.template = "think" \/ server.reasoning_format = "deepseek"
Split(b) == server.reasoning_format # "none" /\ Thinking(b) # "off" /\ Recognised

\* A saved template may leave a think block open at the end of the prompt; only one
\* that has the markers can.
MayOpen == IF server.template = "think" THEN BOOLEAN ELSE {FALSE}

UsesTools(b) == b.kind = "chat" /\
    \/ ToolsGiven(b) \/ b.tool_choice # "absent" \/ b.parallel # "absent"
    \/ \E i \in DOMAIN conv : conv[i].role = "tool" \/ HasCalls(conv[i])
Policy(b) ==
    IF UsesTools(b)
    THEN [is |-> "policy", tools |-> Tools(b), choice |-> ToolChoice(b),
          parallel |-> b.parallel # "no", protocol |-> server.protocol]
    ELSE NoPolicy

\* A message is one token; a raw prompt may be empty.
PromptTokens(b) == IF b.kind = "chat" THEN Len(conv) ELSE b.prompt
Available(b) == Context - PromptTokens(b) - Reserve
\* decode_image: the declared type, size and frames, after the waiting is over.
Decodable(b) == b.kind = "chat" => \A i \in DOMAIN conv : conv[i].content # "undecodable"

Preparable(b) ==
    /\ server.batch_greedy => is_plain_greedy(Params(b))
    /\ Tools(b) # {} => server.protocol # "none"
    /\ Decodable(b) /\ PromptTokens(b) >= 1
    /\ Available(b) >= 1 /\ MaxTokens(b) <= Available(b)

\* A raw completion is not split.
Job(b, open) ==
    [policy |-> Policy(b), split |-> b.kind = "chat" /\ Split(b),
     recognise |-> b.kind = "chat" /\ Recognised, open |-> b.kind = "chat" /\ open,
     raw |-> b.kind = "completion",
     limit |-> IF MaxTokens(b) = absent THEN Available(b) ELSE MaxTokens(b),
     sampler |-> IF is_plain_greedy(Params(b)) THEN "argmax" ELSE "combo"]

(***************************************************************************)
(* Steps.                                                                  *)
(***************************************************************************)
Init ==
    /\ server \in Servers /\ conv = <<>> /\ honest = TRUE /\ verdict = "none"
    /\ asked = NoBody /\ prompt = <<>> /\ ReplyInit

\* What a careful client does: one result for each call, naming no other tool, and
\* no turn of its own while a call awaits one.
Fitting(m) ==
    IF m.role = "tool" THEN \E c \in Protocol.pending : c[1] = m.id /\ m.name \in {"none", c[2]}
    ELSE m.role = "user" /\ Protocol.pending = {} /\ m.content = "text"

Answered == verdict = "accepted" /\ final # "none"

Write(m) ==
    /\ Idle /\ Len(conv) < MaxMessages
    /\ conv' = Append(conv, m) /\ honest' = (honest /\ Fitting(m)) /\ verdict' = "none"
    /\ UNCHANGED <<reply, server, asked, prompt>>

Refuse(why) == verdict' = why /\ UNCHANGED <<reply, server, conv, honest, asked, prompt>>

\* POST /v1/chat/completions or /v1/completions up to the engine (_run).
Post(b) ==
    /\ Idle
    /\ IF ~Local(b) THEN Refuse("not local")
       ELSE IF ~BodyOk(b) THEN Refuse("bad body")
       ELSE IF b.kind = "chat" /\ ~MessagesOk THEN Refuse("bad messages")
       ELSE IF ~Preparable(b) THEN Refuse("rejected by engine")
       ELSE /\ \E open \in MayOpen : Start(Job(b, open))
            /\ verdict' = "accepted" /\ asked' = b
            /\ prompt' = IF b.kind = "chat" THEN Ordered ELSE <<>>
            /\ UNCHANGED <<server, conv, honest>>

Generate ==
    /\ verdict = "accepted"
    /\ \E f \in (IF job.policy = NoPolicy THEN Fragments ELSE ToolFragments) : Emit(f)
    /\ asked' = NoBody /\ UNCHANGED <<server, conv, honest, verdict, prompt>>

Conclude == verdict = "accepted" /\ End /\ UNCHANGED dialogue

\* The reply as a message: JSON and the joined chunks of a stream agree.  The ids of
\* its calls are new (uuid4).
Seen == UNION {IdsOf(conv[i]) : i \in DOMAIN conv}
Fresh == IF Seen = {} THEN 0 ELSE CHOOSE n \in Seen : \A k \in Seen : k <= n
Replied ==
    Assistant(IF sent.calls # <<>> /\ sent.visible = <<>> THEN "null" ELSE "text",
              [k \in DOMAIN sent.calls |-> <<Fresh + k, sent.calls[k].name>>])

\* The client keeps the reply, or (after an error) goes on without one.
Keep ==
    /\ Answered /\ verdict' = "none" /\ prompt' = <<>> /\ asked' = NoBody
    /\ IF final # "invalid" /\ ~job.raw /\ Len(conv) < MaxMessages
       THEN conv' = Append(conv, Replied) ELSE UNCHANGED conv
    /\ Start([policy |-> NoPolicy, split |-> FALSE, open |-> FALSE])
    /\ UNCHANGED <<server, honest>>

\* Messages a client may make up, from the ids it has seen or not.
MadeUp ==
    {User(c) : c \in {"text", "image", "undecodable", "url", "malformed"}}
    \cup {Assistant("text", <<>>), Assistant("null", <<>>), Assistant("arguments", <<<<1, "f">>>>)}
    \cup {Assistant("null", calls) : calls \in {<<<<1, "f">>>>, <<<<2, "g">>, <<1, "f">>>>, <<<<1, "f">>, <<1, "g">>>>}}
    \cup {Result(id, name) : id \in 1..2, name \in {"none", "f"}} \cup {Result(3, "none")}

Next == (\E m \in MadeUp : Write(m)) \/ (\E b \in Bodies : Post(b)) \/ Generate \/ Conclude \/ Keep
Spec == Init /\ [][Next]_chat

(***************************************************************************)
(* Properties.                                                             *)
(***************************************************************************)
\* A conversation kept honestly, not empty, of the client's turns and the server's own replies
\* with one result for each call in any order, is never refused for its messages once
\* every call has a result: what the server sends, it takes back (_check_messages).
EchoAccepted == ~(conv # <<>> /\ honest /\ Protocol.pending = {} /\ verdict = "bad messages")

\* Where the template renders calls, their results follow at once, one for each, in
\* the order of the calls, and no result stands anywhere else; nothing the client
\* sent is lost (_check_messages: the template does not encode ids).
PairedResults ==
    verdict = "accepted" /\ ~job.raw =>
        /\ \A i \in DOMAIN prompt : HasCalls(prompt[i]) =>
              /\ i + Len(prompt[i].calls) <= Len(prompt)
              /\ \A k \in DOMAIN prompt[i].calls :
                    prompt[i + k].role = "tool" /\ prompt[i + k].id = prompt[i].calls[k][1]
        /\ \A i \in DOMAIN prompt : prompt[i].role = "tool" =>
              \E j \in 1..(i - 1) : HasCalls(prompt[j]) /\ i - j <= Len(prompt[j].calls)
        /\ Len(prompt) = Len(conv) /\ {prompt[i] : i \in DOMAIN prompt} = {conv[i] : i \in DOMAIN conv}

\* What the request set is what the sampler applies, and what it left out comes from
\* the server's options: the argmax path is taken only where no control it ignores is
\* on, and the reply never outgrows the request's limit or the context
\* (sampling.is_plain_greedy, prepare).
ControlsHonoured ==
    asked # NoBody =>
        LET on(c) == IF asked[c] = absent THEN server[c] ELSE asked[c] IN
        /\ job.sampler = "argmax" => on("penalty") = 0 /\ (on("temperature") = 0 \/ on("top_k") = 1)
        /\ server.batch_greedy => job.sampler = "argmax"
        /\ PromptTokens(asked) + job.limit + Reserve <= Context
        /\ \A m \in {asked.max_tokens, asked.max_completion_tokens} \ {absent} : job.limit = m
=============================================================================
