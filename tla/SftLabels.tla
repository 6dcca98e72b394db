----------------------------- MODULE SftLabels -----------------------------
(***************************************************************************)
(* build_supervised_example of src/training/sft_dataset.py: which tokens   *)
(* of a rendered conversation carry a label.  A message is a record        *)
(*   [role, size, newline]                                                 *)
(* of its role, the number of tokens of its body and whether the body      *)
(* starts with a line break, which the tokenizer joins with the one that   *)
(* ends the header.  A token is <<message, part>>; message 0 is the system *)
(* prompt the template supplies.                                           *)
(***************************************************************************)
EXTENDS Integers, Sequences, FiniteSets, SequencesExt

MinLabels == 5  \* n_label_tokens

Copies(token, n) == [i \in 1..n |-> token]
Header(i) == Copies(<<i, "head">>, 3)   \* <|im_start|>, the role, a line break
Closing(i) == <<<<i, "end">>>>          \* <|im_end|> and its line break
NoTokens == <<>>

\* The joined line break is the header's token.
Body(m, i) == Copies(<<i, "text">>, IF m.newline /\ m.size > 0 THEN m.size - 1 ELSE m.size)

\* Consecutive tool messages are one turn of the user.
Opens(messages, i) == messages[i].role = "tool" => (i = 1 \/ messages[i - 1].role # "tool")
Closes(messages, i) ==
    messages[i].role = "tool" => (i = Len(messages) \/ messages[i + 1].role # "tool")

Turn(messages, i) ==
    (IF Opens(messages, i) THEN Header(i) ELSE NoTokens)
    \o Body(messages[i], i)
    \o (IF Closes(messages, i) THEN Closing(i) ELSE NoTokens)

\* apply_chat_template and the tokenizer, for a list of messages that is not empty.
Render(messages, generationPrompt) ==
    (IF messages[1].role = "system" THEN NoTokens ELSE Header(0) \o Closing(0))
    \o FlattenSeq([i \in DOMAIN messages |-> Turn(messages, i)])
    \o (IF generationPrompt THEN Header(Len(messages) + 1) ELSE NoTokens)

AssistantIndices(messages) == {i \in DOMAIN messages : messages[i].role = "assistant"}

\* Defect: the prefix is rendered without the header of the answer.
WithoutPrompt(messages, ai) == Len(Render(SubSeq(messages, 1, ai - 1), FALSE))

\* start: the prefix is rendered up to the header of the answer.
SpanStart(messages, ai) == Len(Render(SubSeq(messages, 1, ai - 1), TRUE))

\* end, of the rendering that stops after the answer.
SpanEnd(messages, ai) == Len(Render(SubSeq(messages, 1, ai), FALSE))

\* The template reads the first message: no prefix of an answer may be empty.
Renders(messages) == messages[1].role # "assistant"

Labelled(messages) ==
    UNION {{j \in 1..SpanEnd(messages, ai) : j > SpanStart(messages, ai)} : ai \in AssistantIndices(messages)}

\* The examples that are not dropped.
Kept(messages, maxLength) ==
    /\ AssistantIndices(messages) # {}
    /\ Len(Render(messages, FALSE)) <= maxLength
    /\ Renders(messages)
    /\ \A ai \in AssistantIndices(messages) : SpanEnd(messages, ai) <= Len(Render(messages, FALSE))
    /\ Cardinality(Labelled(messages)) >= MinLabels

-----------------------------------------------------------------------------
\* "Only the assistant's turns count for the loss": in an example that is kept, exactly
\* the bodies of the assistant's messages and the tokens that end them carry a label,
\* although every span was measured in a rendering of its own.
LabelsAreAssistant(messages, maxLength) ==
    Kept(messages, maxLength) =>
        LET ids == Render(messages, FALSE)
        IN  Labelled(messages) =
                {j \in DOMAIN ids : ids[j][2] # "head" /\ ids[j][1] \in AssistantIndices(messages)}
=============================================================================
