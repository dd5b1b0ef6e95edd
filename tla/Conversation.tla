----------------------------- MODULE Conversation -----------------------------
(***************************************************************************)
(* The conversation of a phase: the messages run_phase gathers in          *)
(* src/ai/engine/src/orchestrator.py, sent whole with every request, and   *)
(* the form to_anthropic_messages of providers.py gives them.  What a      *)
(* message says is left out, but for the tool calls it announces and the   *)
(* one it answers; the messages of a phase that has returned are gone.     *)
(***************************************************************************)
EXTENDS WorkPhase, SequencesExt

VARIABLE messages

convVars == <<vars, messages>>

NoCall == <<>>

\* calls: the calls an assistant announces; answers: the one a tool answers.
Message(who, calls, answers) == [role |-> who, calls |-> calls, answers |-> answers]

Opening == <<Message("system", <<>>, NoCall), Message("user", <<>>, NoCall)>>

\* The identifier of a call is the provider's, or new_tool_call_id's.
CallId(n) == <<iteration, n>>

\* Mutant of Announced: the message is built before the cap is applied.
Announced_BeforeCap(kept) ==
    [n \in 1..(IF kept = MaxToolCalls THEN kept + 1 ELSE kept) |-> CallId(n)]

\* The calls of the assistant's message: those kept under the cap.
Announced(kept) == [n \in 1..kept |-> CallId(n)]

\* The call being dispatched, of those the last assistant's message announced.
Current ==
    LET last == SelectLastInSeq(messages, LAMBDA m : m.role = "assistant")
    IN  messages[last].calls[Len(messages) - last + 1]

\* The result of a call is appended once: before the threshold is looked at
\* when it counts as an MCP error, at the end of the call otherwise.
Injected == Message("tool", <<>>, Current)

\* What a step of the phase adds to the conversation.
Told ==
    messages' =
        IF pc' = "done" THEN <<>>
        ELSE IF pc = "ask" /\ pc' = "calls"
        THEN Append(messages, Message("assistant", Announced(left'), NoCall))
        ELSE IF pc = "calls" THEN Append(messages, Injected)
        ELSE messages

ConvInit == Init /\ messages = Opening
ConvNext == Next /\ Told
ConvSpec == ConvInit /\ [][ConvNext]_convVars /\ WF_convVars(OwnStep /\ Told)

-----------------------------------------------------------------------------
(* The conversation for the Messages API.                                  *)

Text == [kind |-> "text", id |-> NoCall]
Use(id) == [kind |-> "tool_use", id |-> id]
Result(id) == [kind |-> "tool_result", id |-> id]

Side(m) == IF m.role = "assistant" THEN "assistant" ELSE "user"

\* The text of a message that announces calls is left out; one that announces
\* nothing has some, "(no content)" at least.
Blocks(m) ==
    CASE m.role = "user" -> <<Text>>
      [] m.role = "tool" -> <<Result(m.answers)>>
      [] m.role = "assistant" ->
            IF m.calls = <<>> THEN <<Text>>
            ELSE [n \in DOMAIN m.calls |-> Use(m.calls[n])]

\* append: blocks of the same side as the last message's are added to it.
\* System messages go elsewhere.
Added(out, m) ==
    IF m.role = "system" THEN out
    ELSE IF out # <<>> /\ Last(out).role = Side(m)
    THEN [out EXCEPT ![Len(out)].blocks = @ \o Blocks(m)]
    ELSE Append(out, [role |-> Side(m), blocks |-> Blocks(m)])

\* What there is after each message.
Converted(conversation) ==
    LET out[n \in 0..Len(conversation)] ==
            IF n = 0 THEN <<>> ELSE Added(out[n - 1], conversation[n])
    IN  out

ToAnthropic(conversation) == Converted(conversation)[Len(conversation)]

Places(message, kind) ==
    {n \in DOMAIN message.blocks : message.blocks[n].kind = kind}

\* One message has a result for each call of another, and no other.
Answers(told, asked) ==
    \E call \in Bijection(Places(told, "tool_result"), Places(asked, "tool_use")) :
        \A n \in Places(told, "tool_result") :
            told.blocks[n].id = asked.blocks[call[n]].id

-----------------------------------------------------------------------------

\* Every request is one the providers accept.  In the Messages API's form it
\* begins and ends with the user, and each of the user's messages holds
\* exactly one result for each call the message before it announced, and no
\* other (the assistant message "must only reference tool_calls that will have
\* matching results", run_phase, F3); in the form of the chat API no user
\* message follows a tool message ("rejected by the Mistral/oMLX API").
RequestsAnswered ==
    pc = "ask" =>
        LET sent == ToAnthropic(messages)
        IN  /\ sent # <<>> /\ sent[1].role = "user" /\ Last(sent).role = "user"
            /\ Places(sent[1], "tool_result") = {}
            /\ \A n \in 2..Len(sent) :
                  sent[n].role = "user" => Answers(sent[n], sent[n - 1])
            /\ \A n \in 2..Len(messages) :
                  messages[n].role = "user" => messages[n - 1].role # "tool"

=============================================================================
