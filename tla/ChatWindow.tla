------------------------------ MODULE ChatWindow ------------------------------
(***************************************************************************)
(* The driver of the Trae window: automation-gateway-core                  *)
(* trae-dom-driver-runtime.ts, trae-dom-response-collect.ts,               *)
(* trae-dom-response-extract.ts, trae-dom-response-activity.ts and         *)
(* trae-dom-expressions.ts.  The page and the agent that answers in it are *)
(* external.  A text is a sequence of lines, and a line is what the driver *)
(* tells it from others by.                                                *)
(***************************************************************************)
EXTENDS Naturals, SequencesExt

CONSTANTS
    Chats,       \* the prompts that are sent through one window
    TaskOf,      \* [Chats -> tasks]
    DispatchOf,  \* [tasks -> dispatches]
    ModeOf,      \* [Chats -> {"new_chat", "continue"}]
    NewChat,     \* whether the page has a button for a new chat
    Empties,     \* whether the page empties the composer as soon as a prompt is sent
    Styles,      \* of answers: among plain, dispatch, quote
    Slow,        \* whether a new chat may be shown after the delay of the driver
    Template,    \* what the template of a report has in place of a task
    Idle,        \* polls without a change after which an answer is taken
    MaxPause,    \* bound: polls between two lines of an answer
    MaxLive      \* bound: the drivers at work at a time

ASSUME ChatWindowAssumption ==
    /\ ModeOf \in [Chats -> {"new_chat", "continue"}]
    /\ NewChat \in BOOLEAN /\ Empties \in BOOLEAN /\ Slow \in BOOLEAN
    /\ Idle \in Nat \ {0} /\ MaxPause \in Nat \ {0} /\ MaxLive \in Nat \ {0}

VARIABLES
    roots,      \* the chats the page shows, in document order; the last takes prompts
    switching,  \* a new chat was asked for and is not shown yet
    container,  \* whether the page has what activitySelectors look for
    composer,   \* the prompts in the composer, one after the other
    driver      \* the driver of each prompt, with its polls since the answer grew

vars == <<roots, switching, container, composer, driver>>

-----------------------------------------------------------------------------
(* Texts *)

Line(kind, value, chat) == [kind |-> kind, value |-> value, chat |-> chat]

(* buildAutomationPrompt ends with buildFinalReportTemplate.                *)
Prompt(c) ==
    <<Line("id", TaskOf[c], c), Line("head", "", c),
      Line("result", Template, c), Line("id", Template, c)>>

(* A report names its task, or the dispatch alone; some quote the template. *)
Report(c, id) ==
    <<Line("note", "", c), Line("head", "", c), Line("result", "given", c),
      Line("id", id, c), Line("rest", "", c)>>

Answer(c, style) ==
    CASE style = "plain" -> Report(c, TaskOf[c])
      [] style = "dispatch" -> Report(c, DispatchOf[TaskOf[c]])
      [] style = "quote" -> Tail(Prompt(c)) \o Report(c, TaskOf[c])

Starts(text) == text # <<>> /\ text[1].kind = "head"

Mentions(text, kind) == \E i \in DOMAIN text : text[i].kind = kind

(* getLastReportFieldValue *)
LastLine(text, kind) == SelectLastInSeq(text, LAMBDA l : l.kind = kind)

Field(text, kind) == text[LastLine(text, kind)]

(* isEquivalentReportedTaskId *)
Names(id, c) == id = TaskOf[c] \/ id = DispatchOf[TaskOf[c]]

(* looksLikeTemplatePlaceholderReport *)
IsPlaceholder(text) ==
    \/ ~Mentions(text, "result") \/ ~Mentions(text, "id")
    \/ Field(text, "result").value = Template \/ Field(text, "id").value = Template

(* Defect: a report of any task ends the collection. *)
ForeignToNone(text, c) == FALSE

Foreign(text, c) == Mentions(text, "id") /\ ~Names(Field(text, "id").value, c)

(* normalizeResponseText: from the first heading on, without one at the end. *)
FromHeading(text) ==
    LET first == SelectInSeq(text, LAMBDA l : l.kind = "head")
    IN IF first = 0 THEN text ELSE SubSeq(text, first, Len(text))

Normalized(text) ==
    LET from == FromHeading(text)
    IN IF Len(from) > 1 /\ Last(from).kind = "head" THEN Front(from) ELSE from

(* pickBestText: the last that begins with the heading, or else the last    *)
(* that is not the agent's thinking, or else the last.                      *)
PickBest(texts) ==
    LET headed == SelectSeq(texts, Starts)
        plain == SelectSeq(texts, LAMBDA t : ~Mentions(t, "note"))
    IN Last(IF headed # <<>> THEN headed ELSE IF plain # <<>> THEN plain ELSE texts)

(* Defect: an answer in place of another is not seen. *)
ExtractAdded(texts, baseline) ==
    IF Len(texts) > Len(baseline) THEN PickBest(SubSeq(texts, Len(baseline) + 1, Len(texts)))
    ELSE IF texts # <<>> /\ IsStrictPrefix(Last(baseline), Last(texts))
         THEN SubSeq(Last(texts), Len(Last(baseline)) + 1, Len(Last(texts)))
         ELSE <<>>

(* extractAutomationResponse, of normalized texts.                          *)
Extract(texts, baseline) ==
    IF Len(texts) > Len(baseline) THEN PickBest(SubSeq(texts, Len(baseline) + 1, Len(texts)))
    ELSE IF texts = <<>> THEN <<>>
    ELSE LET now == Last(texts)
             before == Last(baseline)
         IN IF IsStrictPrefix(before, now) THEN SubSeq(now, Len(before) + 1, Len(now))
            ELSE IF Len(texts) = Len(baseline) /\ now # before THEN now
            ELSE <<>>

-----------------------------------------------------------------------------
(* The page *)

(* What was sent, the prompt that is answered and what was said so far.     *)
Turn(sent, c, answer) == [sent |-> sent, chat |-> c, answer |-> answer, said |-> 0]

Said(turn) == SubSeq(turn.answer, 1, turn.said)

IsWhole(turn) == turn.said = Len(turn.answer)

Shown == Last(roots)

(* The adapter looks at the whole document: it leaves the root selectors    *)
(* of its caller aside.                                                     *)
Responses ==
    LET answered == SelectSeq(FlattenSeq(roots), LAMBDA t : t.said > 0)
    IN [i \in DOMAIN answered |-> Said(answered[i])]

Asked(turn) == FlattenSeq([i \in DOMAIN turn.sent |-> Prompt(turn.sent[i])])

TextOf(root) == FlattenSeq([i \in DOMAIN root |-> Asked(root[i]) \o Said(root[i])])

Activity ==
    LET spoken == SelectSeq(roots, LAMBDA r : container /\ r # <<>>)
    IN [i \in DOMAIN spoken |-> TextOf(spoken[i])]

NormalizedAll(texts) == [i \in DOMAIN texts |-> Normalized(texts[i])]

(* The agent writes a line.  Once it answers a prompt it has left the       *)
(* earlier ones of the chat.                                                *)
Writes(r, i) ==
    /\ ~IsWhole(roots[r][i])
    /\ \A j \in DOMAIN roots[r] : j > i => roots[r][j].said = 0
    /\ roots' = [roots EXCEPT ![r][i].said = @ + 1]
    /\ driver' = [driver EXCEPT ![roots[r][i].chat].pause = 0]
    /\ UNCHANGED <<switching, container, composer>>

(* A new chat is shown, in place of the other or beside it.                 *)
Switches ==
    /\ switching /\ switching' = FALSE
    /\ roots' \in {<< <<>> >>, Append(roots, <<>>)}
    /\ UNCHANGED <<container, composer, driver>>

-----------------------------------------------------------------------------
(* The driver *)

Idler == [pc |-> "new", responses |-> <<>>, activity |-> <<>>, text |-> <<>>,
          finished |-> FALSE, still |-> 0, pause |-> 0]

At(c, pc) == driver[c].pc = pc

Become(c, d) == driver' = [driver EXCEPT ![c] = d]

Goto(c, pc) == Become(c, [Idler EXCEPT !.pc = pc])

Live == {c \in Chats : driver[c].pc \notin {"new", "answered", "failed"}}

(* prepareDriverSession, for the session of the worker: the button for a    *)
(* new chat is clicked if there is one.                                     *)
PrepareSession(c) ==
    /\ At(c, "new") /\ Cardinality(Live) < MaxLive
    /\ switching' = (switching \/ (NewChat /\ ModeOf[c] = "new_chat"))
    /\ Goto(c, "prepared")
    /\ UNCHANGED <<roots, container, composer>>

(* detectMismatchedTaskId: of each text as it stands, the last task named.  *)
StaleFor(c, texts) ==
    \E i \in DOMAIN texts :
        /\ Mentions(texts[i], "id") /\ Field(texts[i], "id").value # Template
        /\ ~Names(Field(texts[i], "id").value, c)

Baseline(texts) == NormalizedAll(texts)

(* captureBaselineSnapshots and assertFreshNewChatBaseline.                 *)
CaptureBaseline(c) ==
    /\ At(c, "prepared") /\ (switching => Slow)
    /\ IF ModeOf[c] = "new_chat" /\ StaleFor(c, Responses \o Activity) THEN Goto(c, "failed")
       ELSE Become(c, [driver[c] EXCEPT !.pc = "based", !.responses = Baseline(Responses),
                                        !.activity = Baseline(Activity)])
    /\ UNCHANGED <<roots, switching, container, composer>>

(* submitPrompt: three commands to the page, with those of other drivers in *)
(* between.  The composer is cleared, unless the chat goes on.              *)
PrepareInput(c) ==
    /\ At(c, "based")
    /\ composer' = IF ModeOf[c] = "continue" THEN composer ELSE <<>>
    /\ Become(c, [driver[c] EXCEPT !.pc = "focused"])
    /\ UNCHANGED <<roots, switching, container>>

InsertText(c) ==
    /\ At(c, "focused")
    /\ composer' = Append(composer, c)
    /\ Become(c, [driver[c] EXCEPT !.pc = "typed"])
    /\ UNCHANGED <<roots, switching, container>>

(* The page sends what it has, and the agent answers one prompt of it.      *)
Sends(sent) ==
    /\ composer' = <<>>
    /\ IF sent = <<>> THEN UNCHANGED roots
       ELSE \E c \in ToSet(sent), style \in Styles :
               roots' = [roots EXCEPT ![Len(roots)] = Append(@, Turn(sent, c, Answer(c, style)))]

(* When the driver finds the composer empty, it takes the prompt for unsent. *)
TriggerSubmit(c) ==
    /\ At(c, "typed")
    /\ Sends(composer)
    /\ Become(c, [driver[c] EXCEPT
           !.pc = IF Empties \/ composer = <<>> THEN "unsent" ELSE "collecting"])
    /\ UNCHANGED <<switching, container>>

(* buildSubmitExpression, in a single command. *)
SetAndSubmit(c) ==
    /\ At(c, "unsent")
    /\ Sends(<<c>>)
    /\ Become(c, [driver[c] EXCEPT !.pc = "collecting"])
    /\ UNCHANGED <<switching, container>>

(* buildActivityState: what the agent thinks is cut.  The prompt is not: it *)
(* has blank lines and the normalized text has none.                        *)
ActivityText(text) == SelectSeq(text, LAMBDA l : l.kind # "note")

ActivityFinishes(text) == Mentions(text, "note") => Mentions(text, "head")

Candidate(c) ==
    LET response == Extract(NormalizedAll(Responses), driver[c].responses)
        raw == Extract(NormalizedAll(Activity), driver[c].activity)
        text == ActivityText(raw)
    IN IF Len(text) > Len(response) THEN [text |-> text, finishes |-> ActivityFinishes(raw)]
       ELSE [text |-> response, finishes |-> response # <<>>]

(* applyCompletionGuards *)
Guarded(c, candidate) ==
    [candidate EXCEPT !.finishes =
        @ /\ ~IsPlaceholder(candidate.text) /\ ~Foreign(candidate.text, c)]

(* Defect: a change of the text does not restart the wait. *)
ObservedStill(d, candidate) ==
    [d EXCEPT !.text = IF candidate.text = <<>> THEN @ ELSE candidate.text,
              !.finished = IF candidate.text = <<>> THEN @ ELSE candidate.finishes,
              !.still = IF @ < Idle THEN @ + 1 ELSE @]

(* updateCollectionState *)
Observed(d, candidate) ==
    IF candidate.text # <<>> /\ (candidate.text # d.text \/ candidate.finishes # d.finished)
    THEN [d EXCEPT !.text = candidate.text, !.finished = candidate.finishes, !.still = 0]
    ELSE [d EXCEPT !.still = IF @ < Idle THEN @ + 1 ELSE @]

(* canAcceptResponse *)
Acceptable(d) == Starts(d.text) /\ d.finished /\ d.still >= Idle

(* The agent is within a report: it does not pause for long.               *)
IsReporting(c) ==
    \E r \in DOMAIN roots : \E i \in DOMAIN roots[r] :
        /\ roots[r][i].chat = c /\ ~IsWhole(roots[r][i])
        /\ Mentions(Said(roots[r][i]), "head")
        /\ \A j \in DOMAIN roots[r] : j > i => roots[r][j].said = 0

(* A turn of the loop of collectAutomationResponse.                         *)
Poll(c) ==
    /\ At(c, "collecting") /\ (IsReporting(c) => driver[c].pause < MaxPause)
    /\ LET d == Observed(driver[c], Guarded(c, Candidate(c)))
       IN IF Acceptable(d) THEN Become(c, [Idler EXCEPT !.pc = "answered", !.text = d.text])
          ELSE Become(c, [d EXCEPT !.pause = IF @ <= Idle THEN @ + 1 ELSE @])
    /\ UNCHANGED <<roots, switching, container, composer>>

(* A command to the page fails, the socket closes or the time is up.        *)
Fails(c) ==
    /\ c \in Live /\ Goto(c, "failed")
    /\ UNCHANGED <<roots, switching, container, composer>>

-----------------------------------------------------------------------------
Init ==
    /\ roots = << <<>> >> /\ switching = FALSE /\ container \in BOOLEAN /\ composer = <<>>
    /\ driver = [c \in Chats |-> Idler]

(* What nobody looks at any more is left out.                              *)
Agent ==
    /\ \E c \in Chats : c \in Live \/ At(c, "new")
    /\ \E r \in DOMAIN roots : \E i \in DOMAIN roots[r] : Writes(r, i)

Next ==
    \/ Agent
    \/ Switches
    \/ \E c \in Chats :
         \/ PrepareSession(c) \/ CaptureBaseline(c)
         \/ PrepareInput(c) \/ InsertText(c) \/ TriggerSubmit(c) \/ SetAndSubmit(c)
         \/ Poll(c) \/ Fails(c)

Spec == Init /\ [][Next]_vars

-----------------------------------------------------------------------------
IsShown(c) == Shown # <<>> /\ Last(Shown).chat = c

(* Of two drivers that use the composer at a time, one may send what the    *)
(* other typed, which sends it again.                                       *)
SentOnce(c) ==
    Len(SelectSeq(FlattenSeq(roots), LAMBDA t : c \in ToSet(t.sent))) = 1

Answered(c) == At(c, "collecting") /\ At(c, "answered")'

(* What the driver returns for a prompt, and the worker reports as the      *)
(* result of its task, was written for that task: not by an agent that      *)
(* still answers an earlier prompt of the window, or one that was sent      *)
(* meanwhile through another gateway.                                       *)
AnswerIsOfTask ==
    [][\A c \in Chats : Answered(c) =>
         \A kind \in {"result", "id"} :
             TaskOf[Field(driver'[c].text, kind).chat] = TaskOf[c]]_vars

(* A report that still grows is not taken for finished, as long as the      *)
(* window shows its chat, the prompt was sent once and the agent makes no   *)
(* pause of the idle time.                                                  *)
AnswerIsWhole ==
    [][\A c \in Chats :
         Answered(c) /\ IsShown(c) /\ SentOnce(c) =>
             Last(driver'[c].text).kind = "rest"]_vars

(* A finished report in a chat of its own is taken after the idle time,     *)
(* whatever the window showed when the prompt was sent: the driver does not *)
(* wait for it until the time is up.                                        *)
CompleteIsTaken ==
    \A c \in Chats :
        At(c, "collecting") /\ IsShown(c) /\ Len(Shown) = 1 /\ IsWhole(Shown[1]) =>
            driver[c].pause <= Idle
=============================================================================
