----------------------------- MODULE ModelDialogue -----------------------------
(***************************************************************************)
(* What is said between the tool loop and the endpoint of the model: the   *)
(* messages that ToolLoopRunner.run collects, the requests that            *)
(* OpenAICompatibleChatClient makes of them, and what it makes of the      *)
(* replies.  Whether a conclusion is accepted, a tool succeeds or a        *)
(* statement fails is left open here; ToolLoop decides that.               *)
(*                                                                         *)
(* The endpoint is external.  It may be silent, out of reach or out of     *)
(* order, and a reply may have any shape.                                  *)
(***************************************************************************)
EXTENDS FiniteSets, Sequences, Integers

CONSTANTS
  CallIds, BlankId, NoId,
  Batches,        \* the ids of the tool calls of a reply
  Earlier,        \* the evidence of the diagnosis before the run
  Drafted,        \* what the tools of the run may add to it
  Elsewhere,      \* what a second run of it, or a supplement, may add
  MaxTurns        \* max_rounds

VARIABLES
  messages,  \* the list that run() extends
  final,     \* finalization_mode
  asked,     \* the calls of the last reply that are still to be answered
  stored,    \* the evidence of the diagnosis
  found,     \* what the answered calls of the run found; only for the properties
  turn,      \* the await at which run() is suspended
  turns,     \* round_count
  wire,      \* the last request that was posted
  reason     \* the termination_reason

dialogueVars == <<messages, final, asked, stored, found, turn, turns, wire, reason>>

ASSUME DialogueAssumption ==
  /\ BlankId \notin CallIds /\ NoId \notin CallIds
  /\ Batches \subseteq Seq(CallIds \union {BlankId})
  /\ MaxTurns \in Nat \ {0}

Message(role, calls, id, tells) == [role |-> role, calls |-> calls, id |-> id, tells |-> tells]
System           == Message("system", << >>, NoId, {})
User(tells)      == Message("user", << >>, NoId, tells)
Assistant(calls) == Message("assistant", calls, NoId, {})
\* Variant: the result of a tool is told without the ids of its evidence.
ToolAlone(id, tells) == Message("tool", << >>, id, {})
Tool(id, tells)  == Message("tool", << >>, id, tells)

NoRequest == [messages |-> << >>, tools |-> FALSE]

\* The first message of the user ends with the catalog of the evidence.
DialogueInit ==
  /\ messages = <<System, User(Earlier)>>
  /\ final = FALSE
  /\ asked = << >>
  /\ stored = Earlier
  /\ found = {}
  /\ turn = "ready"
  /\ turns = 0
  /\ wire = NoRequest
  /\ reason = "none"

End(why) == turn' = "ended" /\ reason' = why
Stay == UNCHANGED reason

-----------------------------------------------------------------------------
(* The request *)

\* Calls belong to the assistant and an id to the answer of a call.
Serialized(m) ==
  [m EXCEPT !.calls = IF m.role = "assistant" THEN @ ELSE << >>,
            !.id = IF m.role = "tool" THEN @ ELSE NoId]

Post ==
  /\ turn = "ready"
  /\ IF turns = MaxTurns THEN End("max_rounds_reached") /\ UNCHANGED wire
     ELSE /\ wire' = [messages |-> [i \in DOMAIN messages |-> Serialized(messages[i])],
                      tools |-> ~final]
          /\ turn' = "posted" /\ Stay
  /\ UNCHANGED <<messages, final, asked, stored, found, turns>>

-----------------------------------------------------------------------------
(* The reply *)

\* shaped: choices, message and calls have the shape of the protocol.
Reply ==
  [shaped : BOOLEAN, calls : Batches, content : {"text", "null", "other"},
   named : BOOLEAN, finish : {"stop", "length", "content_filter", "unheard_of"}, usage : {"none", "count", "negative"}]

\* A blank id and a negative count are refused by the types of the port,
\* with an exception that is not an LLMError.
Parsed(reply) ==
  LET unnamed == \E i \in DOMAIN reply.calls : reply.calls[i] = BlankId
      empty == reply.content = "null" /\ reply.calls = << >>
  IN  CASE ~reply.shaped -> "protocol_error"
        [] reply.shaped /\ unnamed -> "value_error"
        [] reply.shaped /\ ~unnamed /\ (empty \/ reply.content = "other" \/ ~reply.named) -> "protocol_error"
        [] OTHER -> IF reply.usage = "negative" THEN "value_error" ELSE "message"

FinishReason(reply) == IF reply.finish = "unheard_of" THEN "other" ELSE reply.finish

\* Timeout, transport, HTTP status, no JSON, or the wrong shape.
EndpointFails ==
  /\ turn = "posted"
  /\ End("model_error")
  /\ UNCHANGED <<messages, final, asked, stored, found, turns, wire>>

TimeIsUp ==
  /\ turn = "posted"
  /\ End("time_budget_exhausted")
  /\ UNCHANGED <<messages, final, asked, stored, found, turns, wire>>

\* Variant: a call that was refused or failed is not answered.
AnswerSuccesses ==
  /\ turn = "calls" /\ asked # << >>
  /\ \E tells \in SUBSET (Drafted \union stored) :
       /\ stored' = stored \union tells /\ found' = found \union tells
       /\ messages' = IF tells = {} THEN messages ELSE Append(messages, Tool(Head(asked), tells))
  /\ asked' = Tail(asked)
  /\ Stay /\ UNCHANGED <<final, turn, turns, wire>>

\* What the evidence store kept of the drafts is told with the result, also
\* when it was known; a refused or failed call is answered without evidence.
AnswerCall ==
  /\ turn = "calls" /\ asked # << >>
  /\ \E tells \in SUBSET (Drafted \union stored) :
       /\ stored' = stored \union tells /\ found' = found \union tells
       /\ messages' = Append(messages, Tool(Head(asked), tells))
  /\ asked' = Tail(asked)
  /\ Stay /\ UNCHANGED <<final, turn, turns, wire>>

\* A statement fails, uq_tool_runs_call for a repeated id among them, when
\* some of the evidence, which is added draft by draft, may be stored already.
RunFails ==
  /\ turn \in {"posted", "calls", "instruct"}
  /\ \E kept \in SUBSET Drafted : stored' = stored \union kept
  /\ End("internal_error")
  /\ UNCHANGED <<messages, final, asked, found, turns, wire>>

\* The last call is answered; after code__read no more tools are offered.
EndCalls ==
  /\ turn = "calls" /\ asked = << >>
  /\ turn' \in {"ready", "instruct"}
  /\ final' = (turn' = "instruct")
  /\ Stay /\ UNCHANGED <<messages, asked, stored, found, turns, wire>>

\* _conclusion_instruction and _citation_correction_instruction, which end
\* with the catalog as it is now.
Instruct ==
  /\ turn = "instruct"
  /\ messages' = Append(messages, User(stored))
  /\ turn' = "ready"
  /\ Stay /\ UNCHANGED <<final, asked, stored, found, turns, wire>>

\* Another process runs the same diagnosis, or a supplement is stored of a user
\* who is then told that the diagnosis cannot take it.
OthersAdd ==
  /\ turn # "ended"
  /\ \E e \in Elsewhere \ stored : stored' = stored \union {e}
  /\ Stay /\ UNCHANGED <<messages, final, asked, found, turn, turns, wire>>

\* A conclusion is corrected, and from then on without tools, or it ends the run.
Conclude(reply) ==
  /\ reply.calls = << >>
  /\ \/ /\ FinishReason(reply) # "content_filter"
        /\ turn' = "instruct" /\ Stay
        /\ messages' = Append(messages, Assistant(<< >>))
        /\ final' = TRUE
     \/ End("concluded") /\ UNCHANGED <<messages, final>>
  /\ UNCHANGED asked

CallTools(reply) ==
  /\ reply.calls # << >>
  /\ messages' = Append(messages, Assistant(reply.calls))
  /\ \/ ~final /\ asked' = reply.calls /\ turn' = "calls" /\ Stay
     \/ End("refused") /\ UNCHANGED asked   \* finalization, or the budget of calls
  /\ UNCHANGED final

Receive ==
  /\ turn = "posted"
  /\ \E reply \in Reply :
       LET parsed == Parsed(reply) IN
       \/ /\ parsed = "message"
          /\ turns' = turns + 1
          /\ Conclude(reply) \/ CallTools(reply)
       \/ /\ parsed # "message"
          /\ End(IF parsed = "protocol_error" THEN "model_error" ELSE "internal_error")
          /\ UNCHANGED <<messages, final, asked, turns>>
  /\ UNCHANGED <<stored, found, wire>>

DialogueNext ==
  \/ Post \/ EndpointFails \/ TimeIsUp \/ Receive
  \/ AnswerCall \/ RunFails \/ EndCalls \/ Instruct \/ OthersAdd

DialogueSpec == DialogueInit /\ [][DialogueNext]_dialogueVars

-----------------------------------------------------------------------------
(* Properties *)

\* Every request that reaches the endpoint is one that the protocol admits: the
\* calls of the assistant are answered by one tool message each, in their
\* order and before anything else is said, nothing else is an answer, and the
\* model speaks next; a request without tools ends with the instruction to
\* conclude (tool_loop.py:200-317; openai_compatible.py:120-136).
RequestsAreWellFormed ==
  LET ms == wire.messages
      last == ms[Len(ms)]
      calling == { i \in DOMAIN ms : ms[i].calls # << >> }
  IN  turn = "posted" =>
        /\ \A i \in calling :
             /\ i + Len(ms[i].calls) <= Len(ms)
             /\ \A j \in DOMAIN ms[i].calls :
                  ms[i + j].role = "tool" /\ ms[i + j].id = ms[i].calls[j]
        /\ \A i \in DOMAIN ms : ms[i].role = "tool" =>
             \E k \in calling : k < i /\ i <= k + Len(ms[k].calls)
        /\ last.role \in {"user", "tool"}
        /\ ~wire.tools => last.role = "user"

\* The model is only asked to go on after it was told the ids of the evidence
\* that was there before the run and of all that its calls found, also in a
\* round that was refused a conclusion since; and it is told no id of what is
\* not stored.  It need not have been told of what others have added since the
\* last catalogue, which it could cite all the same
\* (tool_loop.py, _existing_evidence_catalog, _tool_message).
EvidenceIsAnnounced ==
  LET told == UNION { wire.messages[i].tells : i \in DOMAIN wire.messages }
  IN  turn = "posted" => Earlier \union found \subseteq told /\ told \subseteq stored
=============================================================================
