---------------------------- MODULE PlaygroundChat ----------------------------
(***************************************************************************)
(* The playground of the web front end (web/src/features/playground): one  *)
(* conversation, the chat handler that sends it, the stream controller     *)
(* below it, React's queue of state updates, and the copy of the history   *)
(* in localStorage.                                                        *)
(*                                                                         *)
(* Three things run between each other: the user's clicks, which see the   *)
(* messages and flags of the last render; the callbacks of requests, the   *)
(* stale ones included; and React, which runs the queued updaters later.   *)
(* An updater that looks at requestGenerationRef therefore sees the value  *)
(* of the render, unless React ran it at once because nothing was pending. *)
(*                                                                         *)
(* A text is a sequence of letters, a letter <<request, number>> being one *)
(* delta of the server.  content and reasoning go the same way, so there   *)
(* is one text.  A remount makes new refs: the counters just go on.        *)
(***************************************************************************)
EXTENDS Naturals, Sequences, SequencesExt

CONSTANTS
    MaxSends,       \* requests of the user (bound)
    MaxChunks,      \* deltas of one answer (bound)
    MaxMounts,      \* how often the page is opened (bound)
    MaxEdits,       \* messages the user edits or deletes (bound)
    MaxStored,      \* MAX_STORED_MESSAGES
    Modes,          \* subset of {"stream", "plain"}: config.stream
    RepeatedDeltas  \* may a delta repeat the one before it?

ASSUME ChatAssumption ==
    /\ MaxSends \in Nat /\ MaxChunks \in Nat \ {0} /\ MaxMounts \in Nat /\ MaxEdits \in Nat
    /\ MaxStored \in Nat \ {0} /\ Modes \subseteq {"stream", "plain"} /\ RepeatedDeltas \in BOOLEAN

VARIABLES
    phase,          \* "closed" | "ready": is the page mounted
    messages,       \* the messages of the last render
    shown,          \* isRequesting and isStreaming of the last render
    queue,          \* updaters given to setMessages and not yet rendered
    next,           \* isRequesting and isStreaming as last set
    chat,           \* useChatHandler: generation, pending chunks, flush timer
    stream,         \* createStreamRequestController: generation, source
    net,            \* requests on their way
    store,          \* latestMessagesRef, the save timer, localStorage
    editing,        \* editingMessageKey
    count,          \* bounds: sends, mounts, edits
    sent,           \* ghost: deltas of each request the page has taken
    fate            \* ghost: was the answer of a request cut short (stopped,
                    \* interrupted or shortened on load), or overwritten

vars == <<phase, messages, shown, queue, next, chat, stream, net, store, editing, count, sent, fate>>

Requests == 1..MaxSends
Letter(r, i) == <<r, IF RepeatedDeltas THEN 1 ELSE i>>
EditedText == <<<<0, 0>>>>
ErrorText == <<<<0, 1>>>>
NoKey == <<"none", 0>>

UserMessage(r) == [from |-> "user", req |-> r, status |-> "none", text |-> EditedText]
LoadingMessage(r) == [from |-> "assistant", req |-> r, status |-> "loading", text |-> <<>>]
Key(m) == <<m.from, m.req>>

Idle == [req |-> FALSE, str |-> FALSE]
Generating(f) == f.req \/ f.str
Mark(rs, f) == [r \in Requests |-> IF r \in rs /\ fate[r] # "overwritten" THEN f ELSE fate[r]]
isAssistantMessagePending(m) == m.from = "assistant" /\ m.status \in {"loading", "streaming"}
isAssistantMessageFinal(m) == m.status \in {"complete", "error"}

Init ==
    /\ phase = "ready"
    /\ messages = <<>> /\ queue = <<>> /\ shown = Idle /\ next = Idle
    /\ chat = [gen |-> 0, text |-> <<>>, timer |-> FALSE]
    /\ stream = [gen |-> 0, source |-> 0]
    /\ net = {}
    /\ store = [latest |-> <<>>, timer |-> FALSE, saved |-> <<>>]
    /\ editing = NoKey
    /\ count = [sends |-> 0, mounts |-> 1, edits |-> 0]
    /\ sent = [r \in Requests |-> 0]
    /\ fate = [r \in Requests |-> "whole"]

-----------------------------------------------------------------------------
(* The updaters. *)

\* A chunk that starts with the whole text so far is taken as the new text.
AppendChunk(text, chunk) ==
    IF text # <<>> /\ IsPrefix(text, chunk) THEN chunk ELSE text \o chunk

applyStreamingChunk(m, text) ==
    IF m.status = "error" THEN m
    ELSE [m EXCEPT !.text = AppendChunk(m.text, text), !.status = "streaming"]
completeAssistantMessage(m) == [m EXCEPT !.status = "complete"]

updateLastAssistantMessage(ms, Updater(_)) ==
    IF ms = <<>> \/ Last(ms).from # "assistant" THEN ms
    ELSE [ms EXCEPT ![Len(ms)] = Updater(@)]

updateAssistantMessageWithError(ms) ==
    updateLastAssistantMessage(ms, LAMBDA m: [m EXCEPT !.status = "error", !.text = ErrorText])
applyChatCompletionResponse(m, text) == [m EXCEPT !.status = "complete", !.text = text]
removeMessageByKey(ms, key) ==
    FoldLeft(LAMBDA kept, m: IF Key(m) # key THEN Append(kept, m) ELSE kept, <<>>, ms)
appendUserMessagePair(ms, r) == ms \o <<UserMessage(r), LoadingMessage(r)>>

\* An updater of request generation u.gen does nothing in another generation.
\* "ran" marks the one React evaluated when it was queued.
Stale(u, gen) == u.op \in {"chunk", "complete", "error", "stop", "answer"} /\ ~u.ran /\ u.gen # gen

RunUpdater(ms, u, gen) ==
    IF Stale(u, gen) THEN ms
    ELSE CASE u.op = "set" -> u.msgs
           [] u.op = "delete" -> removeMessageByKey(ms, u.key)
           [] u.op = "chunk" -> updateLastAssistantMessage(ms, LAMBDA m: applyStreamingChunk(m, u.text))
           [] u.op = "complete" -> updateLastAssistantMessage(ms, LAMBDA m:
                    IF isAssistantMessageFinal(m) THEN m ELSE completeAssistantMessage(m))
           [] u.op = "stop" -> updateLastAssistantMessage(ms, LAMBDA m:
                    IF isAssistantMessagePending(m) THEN completeAssistantMessage(m) ELSE m)
           [] u.op = "error" -> updateAssistantMessageWithError(ms)
           [] u.op = "answer" -> updateLastAssistantMessage(ms, LAMBDA m:
                    applyChatCompletionResponse(m, u.text))

Update(op, gen, text) == [op |-> op, gen |-> gen, text |-> text, ran |-> FALSE]
SetMessages(ms) == [op |-> "set", msgs |-> ms, ran |-> FALSE]

\* React may run the first of the updaters us at once when nothing is pending.
Queued(us, now) == queue \o [i \in DOMAIN us |-> [us[i] EXCEPT !.ran = now /\ i = 1]]
MayRunNow(us) == IF us # <<>> /\ queue = <<>> /\ next = shown THEN BOOLEAN ELSE {FALSE}

\* persistMessages, called by every updater that runs.
Persist(ms) == [store EXCEPT !.latest = ms, !.timer = TRUE]

\* updateMessages(us) from a timer or a callback: the updaters wait for a render.
updateMessages(us) ==
    \E now \in MayRunNow(us):
        /\ queue' = Queued(us, now)
        /\ store' = IF now THEN Persist(RunUpdater(messages, queue'[1], chat.gen)) ELSE store

\* A render runs the updaters in order, against the refs of this moment.
RenderAll(q, gen) ==
    /\ messages' = FoldLeft(LAMBDA ms, u: RunUpdater(ms, u, gen), messages, q)
    /\ store' = IF q = <<>> THEN store ELSE Persist(messages')
    /\ queue' = <<>> /\ shown' = next'

Render ==
    /\ phase = "ready" /\ (queue # <<>> \/ next # shown)
    /\ next' = next
    /\ RenderAll(queue, chat.gen)
    /\ UNCHANGED <<phase, chat, stream, net, editing, count, sent, fate>>

\* A click is a discrete event: React renders all that is queued before the next one.
ClickRenders(us, gen) == \E now \in MayRunNow(us): RenderAll(Queued(us, now), gen)

-----------------------------------------------------------------------------
(* The chat handler. *)

\* flushStreamUpdates(generation): the updater it queues, if any.
FlushUpdates(gen) ==
    IF gen = chat.gen /\ chat.text # <<>>
    THEN <<Update("chunk", gen, chat.text)>> ELSE <<>>

Flushed(gen) == IF gen = chat.gen THEN [chat EXCEPT !.text = <<>>, !.timer = FALSE] ELSE chat

(* Plausible bug: a new request inherits the chunks the old one left.      *)
DiscardKeepsText(gen) == [chat EXCEPT !.gen = gen, !.timer = FALSE]

discardPendingStreamUpdates(gen) == [gen |-> gen, text |-> <<>>, timer |-> FALSE]

FlushTimer ==
    /\ phase = "ready" /\ chat.timer
    /\ chat' = Flushed(chat.gen)
    /\ updateMessages(FlushUpdates(chat.gen))
    /\ UNCHANGED <<phase, messages, shown, next, stream, net, editing, count, sent, fate>>

(* Plausible bug: the source of the cancelled request is not forgotten. *)
CancelKeepsSource == [gen |-> stream.gen + 1, source |-> stream.source]

\* The controller drops its source and outdates whoever waits for headers.
Cancelled == [gen |-> stream.gen + 1, source |-> 0]

\* Requests that may still call back.
Open == {r \in net: r.kind # "eof"}

\* sendChat, in either mode: a new generation, the pending chunks dropped, the
\* source closed, the request under way.
sendChat ==
    \E mode \in Modes:
        LET r == count.sends + 1
            g == chat.gen + 1
        IN  /\ chat' = discardPendingStreamUpdates(g)
            /\ stream' = Cancelled
            /\ next' = [req |-> TRUE, str |-> FALSE]
            /\ net' = Open \cup {[kind |-> IF mode = "stream" THEN "headers" ELSE "plain",
                                 req |-> r, gen |-> g, sgen |-> stream.gen + 1]}
            /\ count' = [count EXCEPT !.sends = r]

CanSend == phase = "ready" /\ count.sends < MaxSends

\* The input form submits in a promise callback, so no render follows at once.
handleSendMessage ==
    /\ CanSend /\ ~Generating(shown)
    /\ updateMessages(<<SetMessages(appendUserMessagePair(messages, count.sends + 1))>>)
    /\ sendChat
    /\ UNCHANGED <<phase, messages, shown, editing, sent, fate>>

\* The prompt buttons of an empty conversation send too, whatever is under way:
\* only the input form is disabled while an answer is generated.
onSelectPrompt ==
    /\ CanSend /\ messages = <<>>
    /\ sendChat
    /\ ClickRenders(<<SetMessages(appendUserMessagePair(messages, count.sends + 1))>>, chat.gen + 1)
    /\ UNCHANGED <<phase, editing, sent, fate>>

\* createRegeneratedMessages: up to the user's message, with a new answer.
Regenerated(i) ==
    SubSeq(messages, 1, IF messages[i].from = "user" THEN i ELSE i - 1)
        \o <<LoadingMessage(count.sends + 1)>>

handleRegenerateMessage(i) ==
    /\ CanSend /\ ~Generating(shown)
    /\ messages[i].text # <<>> /\ ~isAssistantMessagePending(messages[i])
    /\ sendChat /\ ClickRenders(<<SetMessages(Regenerated(i))>>, chat.gen + 1)
    /\ UNCHANGED <<phase, editing, sent, fate>>

\* The stop updater belongs to the new generation, the flushed chunk to the old.
stopGeneration ==
    /\ phase = "ready" /\ Generating(shown)
    /\ chat' = discardPendingStreamUpdates(chat.gen + 1)
    /\ stream' = Cancelled
    /\ next' = Idle
    /\ ClickRenders(FlushUpdates(chat.gen) \o <<Update("stop", chat.gen + 1, <<>>)>>, chat.gen + 1)
    /\ fate' = Mark({count.sends}, "cut")
    /\ net' = Open
    /\ UNCHANGED <<phase, editing, count, sent>>

-----------------------------------------------------------------------------
(* Callbacks of the requests.  A request that lost its turn still calls back. *)

isCurrent(r) == stream.gen = r.sgen /\ stream.source = r.sgen
Finish(r) == net' = net \ {r}

(* Plausible bug: the end of a stream resets isStreaming only. *)
EndKeepsRequesting(r) == [next EXCEPT !.str = FALSE]

(* Plausible bug: the message completes before the pending chunks are applied. *)
EndWithoutFlush(r, update) == IF r.gen = chat.gen THEN <<update>> ELSE <<>>

EndUpdates(r, update) == IF r.gen = chat.gen THEN FlushUpdates(r.gen) \o <<update>> ELSE <<>>

EndedFlags(r) == [req |-> next.req /\ r.gen # chat.gen, str |-> FALSE]

\* handleStreamComplete and handleStreamError, with the end of the source.
EndOfRequest(r, update) ==
    /\ next' = EndedFlags(r)
    /\ chat' = Flushed(r.gen)
    /\ updateMessages(EndUpdates(r, update))
    /\ stream' = [stream EXCEPT !.source = 0]
    /\ Finish(r)

Ignore(r) == Finish(r) /\ UNCHANGED <<chat, stream, next, queue, store>>

getHeaders(r, ok) ==
    /\ r.kind = "headers"
    /\ IF stream.gen # r.sgen THEN Ignore(r)
       ELSE IF ~ok THEN EndOfRequest(r, Update("error", r.gen, <<>>))
       ELSE /\ stream' = [stream EXCEPT !.source = r.sgen]
            /\ next' = [next EXCEPT !.str = TRUE]
            /\ net' = (net \ {r}) \cup {[r EXCEPT !.kind = "source"]}
            /\ UNCHANGED <<chat, queue, store>>
    /\ UNCHANGED <<phase, messages, shown, editing, count, sent, fate>>

\* A delta: handleStreamUpdate merges it into the pending chunk and arms the timer.
onDelta(r) ==
    /\ r.kind = "source" /\ sent[r.req] < MaxChunks
    /\ isCurrent(r) /\ r.gen = chat.gen
    /\ sent' = [sent EXCEPT ![r.req] = @ + 1]
    /\ chat' = [chat EXCEPT !.text = AppendChunk(@, <<Letter(r.req, sent[r.req] + 1)>>), !.timer = TRUE]
    /\ UNCHANGED <<phase, messages, shown, queue, next, stream, net, store, editing, count, fate>>

\* [DONE], or an error of the source, its start or its parsing.
onStreamEnd(r, ok) ==
    /\ r.kind = "source"
    /\ IF isCurrent(r)
       THEN EndOfRequest(r, Update(IF ok THEN "complete" ELSE "error", r.gen, <<>>))
       ELSE Ignore(r)
    /\ UNCHANGED <<phase, messages, shown, editing, count, sent, fate>>

\* The connection ends with status 200 and without [DONE]: no handler reacts.
onStreamEof(r) ==
    /\ r.kind = "source" /\ isCurrent(r)
    /\ net' = (net \ {r}) \cup {[r EXCEPT !.kind = "eof"]}
    /\ UNCHANGED <<phase, messages, shown, queue, next, chat, stream, store, editing, count, sent, fate>>

\* sendNonStreamingChat after its await: an answer, or an error or a body without choice.
onPlainResponse(r, ok) ==
    /\ r.kind = "plain" /\ Finish(r)
    /\ IF r.gen # chat.gen
       THEN UNCHANGED <<next, chat, queue, store, sent>>
       ELSE /\ next' = [next EXCEPT !.req = FALSE]
            /\ chat' = IF ok THEN chat ELSE Flushed(r.gen)
            /\ sent' = IF ok THEN [sent EXCEPT ![r.req] = 1] ELSE sent
            /\ updateMessages(IF ok THEN <<Update("answer", r.gen, <<Letter(r.req, 1)>>)>>
                              ELSE FlushUpdates(r.gen) \o <<Update("error", r.gen, <<>>)>>)
    /\ UNCHANGED <<phase, messages, shown, stream, editing, count, fate>>

-----------------------------------------------------------------------------
(* Edits: the actions of a message are guarded while an answer is generated,  *)
(* the editor that is already open is not.                                    *)

CountEdit == count.edits < MaxEdits /\ count' = [count EXCEPT !.edits = @ + 1]

handleEditMessage(i) ==
    /\ phase = "ready" /\ ~Generating(shown) /\ messages[i].text # <<>> /\ CountEdit
    /\ editing' = Key(messages[i])
    /\ next' = next /\ ClickRenders(<<>>, chat.gen)
    /\ UNCHANGED <<phase, chat, stream, net, sent, fate>>

cancelEdit ==
    /\ phase = "ready" /\ editing # NoKey
    /\ editing' = NoKey
    /\ next' = next /\ ClickRenders(<<>>, chat.gen)
    /\ UNCHANGED <<phase, chat, stream, net, count, sent, fate>>

\* applyEdit works on the messages of the last render and replaces the whole list.
Edited(i) == [messages EXCEPT ![i].text = EditedText]

applyEdit(i, shouldSubmit) ==
    /\ phase = "ready" /\ Key(messages[i]) = editing
    /\ editing' = NoKey
    /\ IF shouldSubmit /\ messages[i].from = "user"
       THEN /\ CanSend /\ sendChat
            /\ ClickRenders(<<SetMessages(SubSeq(Edited(i), 1, i) \o <<LoadingMessage(count.sends + 1)>>)>>,
                            chat.gen + 1)
            /\ UNCHANGED fate
       ELSE /\ next' = next /\ ClickRenders(<<SetMessages(Edited(i))>>, chat.gen)
            /\ fate' = Mark(IF queue = <<>> THEN {} ELSE {count.sends, Last(messages).req}, "overwritten")
            /\ UNCHANGED <<chat, stream, net, count>>
    /\ UNCHANGED <<phase, sent>>

handleDeleteMessage(i) ==
    /\ phase = "ready" /\ ~Generating(shown) /\ CountEdit
    /\ next' = next
    /\ ClickRenders(<<[op |-> "delete", key |-> Key(messages[i]), ran |-> FALSE]>>, chat.gen)
    /\ UNCHANGED <<phase, chat, stream, net, editing, sent, fate>>

handleClearMessages ==
    /\ phase = "ready" /\ ~Generating(shown) /\ messages # <<>> /\ CountEdit
    /\ editing' = NoKey
    /\ next' = next /\ ClickRenders(<<SetMessages(<<>>)>>, chat.gen)
    /\ UNCHANGED <<phase, chat, stream, net, sent, fate>>

-----------------------------------------------------------------------------
(* Storage. *)

LastOf(ms, n) == SubSeq(ms, IF Len(ms) > n THEN Len(ms) - n + 1 ELSE 1, Len(ms))
trimMessages(ms) == LastOf(ms, MaxStored)

SaveTimer ==
    /\ phase = "ready" /\ store.timer
    /\ store' = [store EXCEPT !.timer = FALSE, !.saved = trimMessages(store.latest)]
    /\ UNCHANGED <<phase, messages, shown, queue, next, chat, stream, net, editing, count, sent, fate>>

\* Nothing that still calls back finds the refs or the component of this page.
Closed ==
    /\ phase' = "closed"
    /\ messages' = <<>> /\ queue' = <<>> /\ shown' = Idle /\ next' = Idle /\ editing' = NoKey
    /\ chat' = discardPendingStreamUpdates(chat.gen + 1)
    /\ stream' = Cancelled /\ net' = {}

\* The effects' clean-ups: requests are abandoned, a pending save is done at once.
Unmount ==
    /\ phase = "ready" /\ Closed
    /\ store' = [latest |-> <<>>, timer |-> FALSE,
                 saved |-> IF store.timer THEN trimMessages(store.latest) ELSE store.saved]
    /\ UNCHANGED <<count, sent, fate>>

\* The tab is closed: no clean-up runs.
CloseTab ==
    /\ phase = "ready" /\ Closed
    /\ store' = [latest |-> <<>>, timer |-> FALSE, saved |-> store.saved]
    /\ UNCHANGED <<count, sent, fate>>

\* What collapseRepeatedSectionSnapshots (the front, up to a run of headings that
\* repeat) and truncateText (the end, by length) leave of a text they shorten.  How
\* much of each letter is left is not told apart; something of the text always is.
Torn(letter) == <<letter[1], 0>>
shortenText(text) == [k \in DOMAIN text |-> Torn(text[k])]

\* Which texts are shortened depends on lengths and headings: any may be.
LoadedText(saved, short, i) == IF i \in short THEN shortenText(saved[i].text) ELSE saved[i].text

\* normalizeStoredMessageForLoad, text being what is left of the message's text:
\* a pending answer with text is complete.
normalizeStoredMessageForLoad(m, text) ==
    IF isAssistantMessagePending(m) /\ text # <<>>
    THEN [m EXCEPT !.text = text, !.status = "complete"] ELSE [m EXCEPT !.text = text]

(* Plausible bug: the history is shown as it was stored. *)
SanitizeNothing(ms) == ms

\* sanitizeMessagesOnLoad: the last answer that is still pending becomes an error.
sanitizeMessagesOnLoad(ms) ==
    LET pending == {i \in DOMAIN ms: isAssistantMessagePending(ms[i])}
        target == CHOOSE i \in pending: \A j \in pending: j <= i
    IN  IF pending = {} THEN ms
        ELSE [ms EXCEPT ![target].status = "error", ![target].text = ErrorText]

\* kept: how many messages trimMessagesByContentSize finds room for, at least one.
loadMessages(saved, short, kept) ==
    sanitizeMessagesOnLoad(LastOf(trimMessages(
        [i \in DOMAIN saved |-> normalizeStoredMessageForLoad(saved[i], LoadedText(saved, short, i))]), kept))

\* The answers that come back interrupted or with less text than was stored.
CutOnLoad(saved, short) ==
    {saved[i].req: i \in {i \in DOMAIN saved:
        isAssistantMessagePending(saved[i]) \/ LoadedText(saved, short, i) # saved[i].text}}

\* readStoredMessagesValue removes a history that has become too long as a whole.
DropHistory == messages' = <<>> /\ UNCHANGED fate

\* Whatever loading changes is saved back.
Mount ==
    /\ phase = "closed" /\ count.mounts < MaxMounts
    /\ phase' = "ready"
    /\ \/ DropHistory
       \/ \E short \in SUBSET DOMAIN store.saved, kept \in 1..MaxStored:
             /\ messages' = loadMessages(store.saved, short, kept)
             /\ fate' = Mark(CutOnLoad(store.saved, short), "cut")
    /\ store' = [latest |-> messages', timer |-> FALSE, saved |-> messages']
    /\ count' = [count EXCEPT !.mounts = @ + 1]
    /\ UNCHANGED <<shown, queue, next, chat, stream, net, editing, sent>>

-----------------------------------------------------------------------------
UserStep ==
    \/ handleSendMessage \/ onSelectPrompt \/ stopGeneration \/ cancelEdit \/ handleClearMessages
    \/ \E i \in DOMAIN messages:
          \/ handleRegenerateMessage(i) \/ handleEditMessage(i) \/ handleDeleteMessage(i)
          \/ \E submit \in BOOLEAN: applyEdit(i, submit)

Answered(r) ==
    \/ \E ok \in BOOLEAN: getHeaders(r, ok) \/ onStreamEnd(r, ok) \/ onPlainResponse(r, ok)
    \/ onStreamEof(r)

ServerStep ==
    \E r \in net: Answered(r) \/ onDelta(r)

PageStep == Unmount \/ CloseTab \/ Mount \/ SaveTimer

Next == UserStep \/ ServerStep \/ FlushTimer \/ Render \/ PageStep

Spec == Init /\ [][Next]_vars

\* React renders what is queued, and a request is answered, fails or is
\* closed by the other side.
FairSpec ==
    /\ Spec /\ WF_vars(Render)
    /\ WF_vars(\E r \in net: r.gen = chat.gen /\ Answered(r))

-----------------------------------------------------------------------------
Texts == Seq(({0} \X {0, 1}) \cup (Requests \X (0..MaxChunks)))
Messages == Seq([from: {"user", "assistant"}, req: Requests, text: Texts,
                 status: {"none", "loading", "streaming", "complete", "error"}])

\* Type invariant of the page, its refs and its storage.
ChatTypeOK ==
    /\ phase \in {"closed", "ready"}
    /\ messages \in Messages /\ store.latest \in Messages /\ store.saved \in Messages
    /\ shown \in [req: BOOLEAN, str: BOOLEAN] /\ next \in [req: BOOLEAN, str: BOOLEAN]
    /\ chat.gen \in Nat /\ chat.text \in Texts /\ chat.timer \in BOOLEAN
    /\ stream.gen \in Nat /\ stream.source \in {0, stream.gen}
    /\ \A r \in net: r.kind \in {"headers", "source", "eof", "plain"} /\ r.req \in Requests
    /\ \A i \in DOMAIN queue: queue[i].ran => i = 1
    /\ sent \in [Requests -> 0..MaxChunks] /\ fate \in [Requests -> {"whole", "cut", "overwritten"}]

\* The latest request wins (requestGenerationRef and the controller's generation):
\* no delta of an earlier request is ever shown or saved in a later answer, however
\* late its callback, its flush timer or its queued updater comes.  (A request is
\* excepted when the editor saved a list over its messages before they were rendered.)
OnlyOwnText ==
    \A ms \in {messages, store.latest, store.saved}: \A i \in DOMAIN ms: \A k \in DOMAIN ms[i].text:
        LET author == ms[i].text[k][1] IN
        author \in {0, ms[i].req} \/ fate[author] = "overwritten"

\* An answer that is shown as complete, and was neither stopped, edited nor
\* interrupted, nor shortened when the history was loaded (collapseRepeatedSectionSnapshots
\* and truncateText rewrite finished answers too), is the text the server sent: the
\* chunks that are pending when the stream ends are flushed before the message
\* completes, none is applied twice, and saving, trimming and loading the list
\* leave the other answers as they are.
CompleteAnswerIsWhole ==
    \A i \in DOMAIN messages:
        LET m == messages[i] IN
        m.status = "complete" /\ fate[m.req] = "whole" /\ m.text # EditedText
            => m.text = [k \in 1..sent[m.req] |-> Letter(m.req, k)]

\* A message that shows the spinner is the last one and is being worked on: a
\* request is under way or an updater that ends it is queued.  (A list saved by the
\* editor over updates that were not rendered yet is the exception.)
SpinnerHasRequest ==
    \A i \in DOMAIN messages:
        isAssistantMessagePending(messages[i]) /\ fate[messages[i].req] # "overwritten"
            => i = Len(messages) /\ (Generating(next) \/ queue # <<>>)

\* The input comes back: isGenerating ends for every request that is answered; a
\* stream that ends without [DONE] is the one case that waits for the Stop button.
GenerationEnds ==
    Generating(shown) ~> (~Generating(shown) \/ \E r \in net: r.kind = "eof" /\ isCurrent(r))
=============================================================================
