----------------------------- MODULE LlmClient -----------------------------
(***************************************************************************)
(* LlmClient::extract: its attempts, the two requests an attempt may make, *)
(* and how the JSON value is found in the completion.                      *)
(*                                                                         *)
(* A completion is a sequence of tokens: the braces, brackets and fences   *)
(* that extract_json looks for, "json" right after a fence, and "text" for *)
(* everything else.  Blanks are left out, and so is the trimming of them.  *)
(***************************************************************************)
EXTENDS Integers, FiniteSets, Sequences, SequencesExt

CONSTANTS
    RetriesBound,   \* largest max_retries considered
    Completions     \* what the provider may answer

ASSUME RetriesAssumption == RetriesBound \in Nat

Tokens == {"brace", "endbrace", "bracket", "endbracket", "fence", "json", "text"}

ASSUME CompletionsAssumption == Completions \subseteq Seq(Tokens)

\* The call: its stage, the attempt, the configuration it reads (max_retries, and whether
\* base_url contains api.groq.com), the completion and the value found in it.
VARIABLE llm

Unusable == <<"unusable">>    \* bail!, or serde_json::from_str fails
Panics   == <<"panics">>      \* the slice's end lies before its start

(***************************************************************************)
(* extract_json                                                            *)
(***************************************************************************)

Places(text, token) == {i \in DOMAIN text : text[i] = token}

FirstPlace(text, token) == CHOOSE i \in Places(text, token) : \A k \in Places(text, token) : i <= k

LastPlace(text, token) == CHOOSE i \in Places(text, token) : \A k \in Places(text, token) : i >= k

OpensValue(text) == text # <<>> /\ text[1] \in {"brace", "bracket"}

\* What lies between the places i and j, without them.
Between(text, i, j) == SubSeq(text, i + 1, j - 1)

\* "```json", from its fence to the next one
JsonFences(text) ==
    {i \in Places(text, "fence") :
        /\ i + 1 \in DOMAIN text /\ text[i + 1] = "json"}

FenceAfter(text, i) == {k \in Places(text, "fence") : k > i}

Closing(text, i) == CHOOSE k \in FenceAfter(text, i) : \A l \in FenceAfter(text, i) : k <= l

InJsonFence(text) ==
    LET open == CHOOSE i \in JsonFences(text) : \A k \in JsonFences(text) : i <= k
    IN  IF JsonFences(text) = {} \/ FenceAfter(text, open) = {}
        THEN Unusable
        ELSE Between(text, open + 1, Closing(text, open))

\* Mutant: whatever the first fence holds is taken.
InFenceUnchecked(text) ==
    LET open == FirstPlace(text, "fence")
    IN  IF Places(text, "fence") = {} \/ FenceAfter(text, open) = {}
        THEN Unusable
        ELSE Between(text, open, Closing(text, open))

\* The first fence, if what is inside opens a value.
InFence(text) ==
    LET open == FirstPlace(text, "fence")
    IN  IF \/ Places(text, "fence") = {}
           \/ FenceAfter(text, open) = {}
           \/ ~OpensValue(Between(text, open, Closing(text, open)))
        THEN Unusable
        ELSE Between(text, open, Closing(text, open))

Embedded(text, open, close) ==
    IF Places(text, open) = {} \/ Places(text, close) = {} THEN Unusable
    ELSE IF FirstPlace(text, open) > LastPlace(text, close) THEN Panics
    ELSE SubSeq(text, FirstPlace(text, open), LastPlace(text, close))

ExtractJson(text) ==
    IF OpensValue(text) THEN text
    ELSE IF InJsonFence(text) # Unusable THEN InJsonFence(text)
    ELSE IF InFence(text) # Unusable THEN InFence(text)
    ELSE IF Embedded(text, "brace", "endbrace") # Unusable THEN Embedded(text, "brace", "endbrace")
    ELSE Embedded(text, "bracket", "endbracket")

\* The values serde_json::from_str accepts, among those a completion can hold here.  A
\* text may be a scalar, which ExtractJson returns from a fence marked json alone.
Object   == <<"brace", "endbrace">>
Array(n) == <<"bracket">> \o FlattenSeq([i \in 1 .. n |-> Object]) \o <<"endbracket">>
Scalar   == <<"text">>
Values   == {Object, Scalar} \cup {Array(n) : n \in 0 .. 2}

(***************************************************************************)
(* extract                                                                 *)
(*   idle       not called yet                                             *)
(*   reasoning  the request with reasoning_effort                          *)
(*   plain      the request without it                                     *)
(*   sleep      the pause after a failed attempt                           *)
(*   ok, error, panic   how the call ended                                 *)
(***************************************************************************)
Asking == {"reasoning", "plain"}
Ended  == {"ok", "error", "panic"}

NoCall ==
    [pc |-> "idle", attempt |-> 0, retries |-> 0, groq |-> FALSE, text |-> <<>>, data |-> <<>>]

LlmIdle == llm = NoCall

\* The call returns; its loop's variables go out of scope.
Return(how, text, data) ==
    llm' = [NoCall EXCEPT !.pc = how, !.text = text, !.data = data]

FirstRequest(groq) == IF groq THEN "plain" ELSE "reasoning"

\* for attempt in 0..max_retries: without any, the error it starts with
Call ==
    /\ llm.pc = "idle"
    /\ \E retries \in 0 .. RetriesBound, groq \in BOOLEAN :
          IF retries = 0
          THEN Return("error", <<>>, <<>>)
          ELSE llm' = [NoCall EXCEPT !.pc = FirstRequest(groq), !.retries = retries, !.groq = groq]

\* Not sent, or answered with an error status: once more, without the parameter.
Rejected ==
    /\ llm.pc = "reasoning"
    /\ llm' = [llm EXCEPT !.pc = "plain"]

\* A completion ends the call, usable or not: both errors leave by ?, past the retries.
Answered(text) ==
    /\ llm.pc \in Asking
    /\ LET json == ExtractJson(text)
       IN  \/ json \in Values /\ Return("ok", text, json)
           \/ json = Panics /\ Return("panic", text, <<>>)
           \/ json \notin (Values \ {Scalar}) \cup {Panics} /\ Return("error", text, <<>>)

\* The second request or any body fails, the answer is empty, or timeout_seconds pass.
AttemptFails ==
    /\ llm.pc \in Asking
    /\ IF llm.attempt + 1 < llm.retries
       THEN llm' = [llm EXCEPT !.pc = "sleep"]
       ELSE Return("error", <<>>, <<>>)

\* Mutant: the attempts are not counted.
WakeUncounted ==
    /\ llm.pc = "sleep"
    /\ llm' = [llm EXCEPT !.pc = FirstRequest(llm.groq)]

Wake ==
    /\ llm.pc = "sleep"
    /\ llm' = [llm EXCEPT !.pc = FirstRequest(llm.groq), !.attempt = @ + 1]

LlmStep ==
    \/ Call \/ Rejected \/ AttemptFails \/ Wake
    \/ \E text \in Completions : Answered(text)

-----------------------------------------------------------------------------

LlmType ==
    /\ llm \in [pc : Asking \cup Ended \cup {"idle", "sleep"}, attempt : 0 .. RetriesBound,
                retries : 0 .. RetriesBound, groq : BOOLEAN,
                text : Completions \cup {<<>>}, data : Values \cup {<<>>}]
    /\ llm.attempt > 0 => llm.attempt < llm.retries

\* One object, and nothing else that looks like JSON.
HoldsOneObject(text) ==
    /\ Cardinality(Places(text, "brace")) = 1 /\ Cardinality(Places(text, "endbrace")) = 1
    /\ Places(text, "bracket") = {} /\ Places(text, "endbracket") = {}
    /\ FirstPlace(text, "endbrace") = FirstPlace(text, "brace") + 1

\* One object after some prose, and no fence that claims to be JSON or that begins with the
\* object: a fence of another kind may be around it or beside it.
AmidOneObject(text) ==
    /\ HoldsOneObject(text)
    /\ JsonFences(text) = {}
    /\ FirstPlace(text, "brace") > 1
    /\ text[FirstPlace(text, "brace") - 1] # "fence"

\* Two fences with an object between them; what is outside may hold stray braces.
FencesOneObject(text) ==
    /\ ~OpensValue(text)
    /\ Cardinality(Places(text, "fence")) = 2
    /\ Between(text, FirstPlace(text, "fence"), LastPlace(text, "fence")) \in {Object, <<"json">> \o Object}

\* A completion that is an object, has one amid its prose or one in a fence (the wrappings
\* of tests/extract_json_props.rs) ends the call with exactly that object: neither a fence
\* nor the prose costs the answer, and nothing of them gets into it.
ObjectRecovered ==
    llm.text = Object \/ AmidOneObject(llm.text) \/ FencesOneObject(llm.text) =>
        llm.pc = "ok" /\ llm.data = Object
=============================================================================
