--------------------------- MODULE ConsentSurface ---------------------------
(***************************************************************************)
(* What `inspect` shows a user before the gateway is trusted, against what *)
(* the gateway then sends.  Three parts of the code read the same records, *)
(* each with rules of its own: the collector of each agent decides which   *)
(* lines or rows are captured and in what form, `inspect` counts records   *)
(* and prompts in a dry run, and after an upload the uploader takes the    *)
(* user's prompt from the captured body for the receipt (`logs` does the   *)
(* same for what still waits, with the assistant's answer).                *)
(*                                                                         *)
(* One file, or one database, is followed.  A record is reduced to what    *)
(* the rules look at; a content is a sequence of items, where a plain      *)
(* string and an object stand for an array of one.                         *)
(***************************************************************************)
EXTENDS Integers, Sequences, FiniteSets, SequencesExt

CONSTANTS
    Agents,      \* whose records are followed in this run
    MaxEntries,  \* bound: records of the file; when there are several, plain ones
    MaxItems     \* bound: items of a content

ASSUME ConsentAssumption ==
    /\ Agents \subseteq {"claude-code", "claude-desktop", "codex", "gemini", "cursor"}
    /\ MaxEntries \in Nat /\ MaxItems \in Nat

VARIABLES
    agent,       \* the application that writes the records
    unasked,     \* the file is of a sub-agent's session, which the environment
                 \* (PROXAI_GATEWAY_CAPTURE_SUB_AGENTS) does not ask for
    entry,       \* the records, in the order of the file or of the row ids
    whole,       \* how many of them are complete; the last one may be half written
    ended,       \* how many of them end in a newline
    upTo,        \* the collector's watermark, in records
    body,        \* the captures that wait, oldest first, each the set of its records
    taken,       \* the records captured so far
    prompts,     \* the records a receipt or `logs` took the user's prompt from
    replies,     \* the records `logs` took the assistant's answer from
    screen       \* what the last inspect showed, if it showed anything

consentVars == <<agent, unasked, entry, whole, ended, upTo, body, taken,
                 prompts, replies, screen>>

-----------------------------------------------------------------------------
(* The records *)

Absent == <<"absent">>
Contents(items, n) == SeqOf(items, n) \cup {Absent}

ClaudeItems == {"text", "blank", "synthetic", "result", "use"}
ClaudeRecords ==
    LET Of(type, flags, usage) ==
          [type: {type}, flag: flags, usage: usage,
           replay: IF agent = "claude-desktop" THEN BOOLEAN ELSE {FALSE},
           msg: Contents(ClaudeItems, MaxItems),
           top: {Absent, <<"text">>, <<"result">>, <<"use">>}]
    IN  Of("user", {"none", "meta"}, {FALSE})
        \cup Of("assistant", {"none", "meta", "synthetic", "apiError"}, BOOLEAN)

CodexRecords ==
    [type: {"session_meta", "event_msg", "response_item", "other", "junk"},
     ptype: {"message", "control", "other", "none"},
     role: {"user", "assistant", "developer"},
     msg: Contents({"text", "blank", "input_text"}, MaxItems)]

GeminiRecords == [type: {"USER_INPUT", "other", "junk"}, source: {"USER_EXPLICIT", "other"}]

\* A bubble has its author in `type` (1, 2) and a text, a blob a role and a content.
CursorRecords ==
    [key: {"composer", "bubble", "blob"}, value: {"null", "junk", "object"},
     role: {"user", "assistant", "other"},
     msg: Contents({"text", "blank", "env", "reasoning"}, MaxItems)]

Records == CASE agent = "codex" -> CodexRecords
             [] agent = "gemini" -> GeminiRecords
             [] agent = "cursor" -> CursorRecords
             [] OTHER -> ClaudeRecords

\* What the bound lets be with others in a file: something that was said.
Plain(r) ==
    IF agent = "gemini" THEN TRUE
    ELSE /\ r.msg = <<"text">>
         /\ CASE agent = "codex" -> r.type = "response_item" /\ r.ptype = "message"
              [] agent = "cursor" -> r.key # "blob" /\ r.value = "object"
              [] OTHER -> r.top = Absent /\ r.flag = "none"

-----------------------------------------------------------------------------
(* What the collectors keep *)

Texts == {"text", "blank", "synthetic"}
Text(c) == SelectSeq(c, LAMBDA i : i \in Texts)

\* message.content, else content (their `text` fields are contents of one item).
ActualContent(r) == IF r.msg # Absent THEN r.msg ELSE r.top
ItemsOf(r) == ToSet(r.msg) \cup ToSet(r.top)

\* claudeFirstText takes the first text there is, a blank one too.
StartsSynthetic(c) == Text(c) # << >> /\ Text(c)[1] = "synthetic"

IsDialogueRecord(r) ==
    /\ r.type \in {"user", "assistant"} /\ r.flag # "meta"
    /\ \E i \in ToSet(ActualContent(r)) : i \in Texts \ {"blank"}
    /\ IF r.type = "user"
       THEN ~StartsSynthetic(ActualContent(r)) /\ "result" \notin ItemsOf(r)
       ELSE r.flag \notin {"synthetic", "apiError"} /\ "use" \notin ItemsOf(r)

\* The token counts of an answer that is not kept are sent without its content.
SlimClaudeUsageRecord(r) ==
    r.type = "assistant" /\ r.flag \notin {"synthetic", "apiError"} /\ r.usage

IsCodexDialogueRecord(r) ==
    \/ r.type = "session_meta"
    \/ r.type = "event_msg" /\ r.ptype = "control"
    \/ r.type = "response_item" /\ r.ptype = "message" /\ r.role \in {"user", "assistant"}

IsAgentKvConversationBlob(r) == r.value = "object" /\ r.role \in {"user", "assistant"}

KeepsRow(r) ==
    CASE r.key = "bubble" -> r.value = "object" /\ ToSet(r.msg) \cap {"text", "env"} # {}
      [] r.key = "blob" -> IsAgentKvConversationBlob(r)
      [] r.key = "composer" -> TRUE

KeepsDesktop(r) == ~r.replay /\ IsDialogueRecord(r)

KeepsClaudeCode(r) == IsDialogueRecord(r) \/ SlimClaudeUsageRecord(r)

KeepsEntry(r) ==
    CASE agent = "claude-code" -> KeepsClaudeCode(r)
      [] agent = "claude-desktop" -> KeepsDesktop(r)
      [] agent = "codex" -> IsCodexDialogueRecord(r)
      [] agent = "gemini" -> r.type # "junk"
      [] agent = "cursor" -> KeepsRow(r)

\* trimCursorRowValue: a blob loses what the editor wrapped around the user's
\* words, and the assistant's reasoning.
TrimRow(r) ==
    IF r.key # "blob" \/ r.value # "object" THEN r
    ELSE [r EXCEPT !.msg = SelectSeq(@, LAMBDA i :
             i # IF r.role = "user" THEN "env" ELSE "reasoning")]

\* The form in which a kept record is sent.
SentForm(r) ==
    CASE agent = "claude-code" /\ ~IsDialogueRecord(r) -> [r EXCEPT !.msg = Absent, !.top = Absent]
      [] agent = "cursor" -> TrimRow(r)
      [] OTHER -> r

\* The files of sub-agents are left out unless the environment asks for them:
\* handleCapture does not hand on the captureSubAgents it is called with.
Discovered == ~unasked

-----------------------------------------------------------------------------
(* What inspect counts *)

\* analyzeJsonlLogFile's rule for each agent, and the rows' in handleInspect.
CountsDialogueOnly(r) ==
    CASE agent \in {"claude-code", "claude-desktop"} -> IsDialogueRecord(r)
      [] agent = "codex" -> IsCodexDialogueRecord(r)
      [] agent = "gemini" -> r.type # "junk"
      [] agent = "cursor" -> KeepsRow(r)

Counts(r) ==
    CASE agent = "claude-code" -> IsDialogueRecord(r) \/ SlimClaudeUsageRecord(r)
      [] agent = "claude-desktop" -> IsDialogueRecord(r)
      [] agent = "codex" -> IsCodexDialogueRecord(r)
      [] agent = "gemini" -> r.type # "junk"
      [] agent = "cursor" -> KeepsRow(r)

IsCursorPromptRow(r) == r.value = "object" /\ r.key # "composer" /\ r.role = "user"

IsPromptRecord(r) ==
    CASE agent = "codex" -> r.type = "response_item" /\ r.ptype # "none" /\ r.role = "user"
      [] agent = "gemini" -> r.source = "USER_EXPLICIT" /\ r.type = "USER_INPUT"
      [] agent = "cursor" -> IsCursorPromptRow(r)
      [] OTHER -> r.type = "user"

-----------------------------------------------------------------------------
(* What is taken from a captured body *)

\* extractTextFromContent: the first text that is not blank; only items of type
\* "text" count, which codex's own input_text is not.
Words(c) == SelectSeq(c, LAMBDA i : i \in {"text", "synthetic"})

ExtractClaudePrompt(r) ==
    /\ r.type = "user"
    /\ Words(ActualContent(r)) # << >> /\ Words(ActualContent(r))[1] # "synthetic"
    /\ "result" \notin ItemsOf(r)

ExtractCodex(r, role) ==
    /\ r.type = "response_item" /\ r.ptype = "message" /\ r.role = role
    /\ Words(r.msg) # << >>

ExtractFromBubble(r, role) ==
    r.key = "bubble" /\ r.role = role /\ ToSet(r.msg) \cap {"text", "env"} # {}
ExtractFromBlob(r, role) ==
    r.key = "blob" /\ r.role = role /\ ToSet(r.msg) \cap {"text", "env", "reasoning"} # {}

\* extractUserPrompt; the bodies gemini's collector makes have no extractor.
ExtractPrompt(r) ==
    CASE agent = "codex" -> ExtractCodex(r, "user")
      [] agent = "gemini" -> FALSE
      [] agent = "cursor" -> /\ r.value = "object"
                             /\ ExtractFromBubble(r, "user") \/ ExtractFromBlob(r, "user")
      [] OTHER -> ExtractClaudePrompt(r)

ExtractAssistant(r) ==
    CASE agent = "codex" -> ExtractCodex(r, "assistant")
      [] agent = "gemini" -> FALSE
      [] agent = "cursor" -> /\ r.value = "object"
                             /\ ExtractFromBubble(r, "assistant") \/ ExtractFromBlob(r, "assistant")
      [] OTHER -> r.type = "assistant" /\ Words(ActualContent(r)) # << >>

\* The records that would give a prompt, or an answer, in the form they are sent.
WithPrompt == {i \in DOMAIN entry : ExtractPrompt(SentForm(entry[i]))}
WithAnswer == {i \in DOMAIN entry : ExtractAssistant(SentForm(entry[i]))}

\* The first record of a body that gives something, as a set of at most one.
FirstOf(b, giving) == {i \in b \cap giving : \A j \in b \cap giving : i <= j}

-----------------------------------------------------------------------------
NoScreen == [shown |-> FALSE, upto |-> 0, counted |-> {}, prompts |-> {}]

ConsentInit ==
    /\ agent \in Agents
    /\ unasked \in IF agent \in {"claude-code", "codex"} THEN BOOLEAN ELSE {FALSE}
    /\ entry = << >> /\ whole = 0 /\ ended = 0
    /\ upTo = 0 /\ body = << >> /\ taken = {}
    /\ prompts = {} /\ replies = {} /\ screen = NoScreen

\* The application starts a record, and may be seen in the middle of it or before
\* its newline; a row of a database is there at once.
StartRecord ==
    /\ Len(entry) < MaxEntries /\ ended = Len(entry)
    /\ entry # << >> => Plain(entry[1])
    /\ \E r \in Records : entry' = Append(entry, r) /\ (entry # << >> => Plain(r))
    /\ whole' \in (IF agent = "cursor" THEN {Len(entry')} ELSE {whole, Len(entry')})
    /\ ended' \in (IF agent = "cursor" THEN {Len(entry')} ELSE {ended})
    /\ UNCHANGED <<agent, unasked, upTo, body, taken, prompts, replies, screen>>

EndRecord ==
    /\ ended < Len(entry)
    /\ whole' = Len(entry) /\ ended' = Len(entry)
    /\ UNCHANGED <<agent, unasked, entry, upTo, body, taken, prompts, replies,
                   screen>>

\* A poll captures what has ended since the last one, or a first part of it when
\* it is too much for one capture.
Capture ==
    /\ Discovered /\ upTo < ended
    /\ \E last \in upTo + 1 .. ended :
         LET kept == {i \in upTo + 1 .. last : KeepsEntry(entry[i])}
         IN  /\ upTo' = last
             /\ body' = IF kept = {} THEN body ELSE Append(body, kept)
             /\ taken' = taken \cup kept
    /\ UNCHANGED <<agent, unasked, entry, whole, ended, prompts, replies, screen>>

\* An upload that the backend took: the receipt keeps the prompt.
Deliver ==
    /\ body # << >>
    /\ prompts' = prompts \cup FirstOf(Head(body), WithPrompt)
    /\ body' = Tail(body)
    /\ UNCHANGED <<agent, unasked, entry, whole, ended, upTo, taken, replies,
                   screen>>

\* `logs --pending` or `--failed` reads a body that has not been delivered.
ShowLogs ==
    /\ body # << >>
    /\ prompts' = prompts \cup FirstOf(Head(body), WithPrompt)
    /\ replies' = replies \cup FirstOf(Head(body), WithAnswer)
    /\ UNCHANGED <<agent, unasked, entry, whole, ended, upTo, body, taken,
                   screen>>

\* inspect reads the file as it is, the line that has not ended included, and the
\* sub-agents' files in any case.
Inspect ==
    /\ screen' = [shown |-> TRUE, upto |-> whole,
                  counted |-> {i \in 1 .. whole : Counts(entry[i])},
                  prompts |-> {i \in 1 .. whole : Counts(entry[i]) /\ IsPromptRecord(entry[i])}]
    /\ UNCHANGED <<agent, unasked, entry, whole, ended, upTo, body, taken,
                   prompts, replies>>

\* The file cannot be read, or the worker dies: nothing is counted, with a warning.
InspectFails ==
    /\ screen' = NoScreen
    /\ UNCHANGED <<agent, unasked, entry, whole, ended, upTo, body, taken,
                   prompts, replies>>

ConsentNext ==
    \/ StartRecord \/ EndRecord \/ Capture \/ Deliver \/ ShowLogs \/ Inspect \/ InspectFails

ConsentSpec == ConsentInit /\ [][ConsentNext]_consentVars

-----------------------------------------------------------------------------
\* Every variable keeps to the values named where it is declared.
ConsentTypeOK ==
    /\ agent \in Agents /\ unasked \in BOOLEAN
    /\ Len(entry) \in 0 .. MaxEntries
    /\ whole \in 0 .. Len(entry) /\ ended \in 0 .. whole /\ upTo \in 0 .. ended
    /\ taken \cup prompts \cup replies \subseteq 1 .. upTo
    /\ screen.counted \cup screen.prompts \subseteq 1 .. screen.upto

\* Whatever was captured of the part of a file that inspect has read, before or
\* after it did, is in inspect's count; and the count holds nothing that capturing
\* has passed over, but for the replays of claude-desktop and the files of
\* sub-agents, which inspect counts and the gateway does not capture.
ShippedIsInspected ==
    screen.shown =>
      /\ taken \cap 1 .. screen.upto \subseteq screen.counted
      /\ {i \in screen.counted : i <= upTo /\ (agent = "claude-desktop" => ~entry[i].replay)}
           \subseteq taken

\* A prompt that a receipt or `logs` shows as the user's comes from a record that
\* inspect counts as a prompt, and an answer shown as the assistant's does not,
\* although each of the three reads the records by rules of its own.
PromptsAreCounted ==
    screen.shown =>
      /\ prompts \cap 1 .. screen.upto \subseteq screen.prompts
      /\ replies \cap 1 .. screen.upto \subseteq screen.counted \ screen.prompts

\* What `inspect` told the user before consenting holds of everything that is then
\* captured, and of every prompt and answer that is shown as such.
InspectIsTrue == ShippedIsInspected /\ PromptsAreCounted

=============================================================================
