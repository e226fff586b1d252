-------------------------------- MODULE Stream --------------------------------
(* One streamed generation: the frames a native backend sends, the adapter's  *)
(* decoder, the check of a structured answer, the leased stream of the runtime *)
(* manager, and the public encoder whose events the client reads.             *)
(*                                                                            *)
(* The chain is pulled: nothing below moves until the client asks for the next *)
(* event, and a client that leaves drops every stage at once.  Characters are  *)
(* model data; a frame is what one server-sent event carries once decoded, and *)
(* a partial frame only waits in the decoder's buffer.                        *)
EXTENDS Naturals, SequencesExt

CONSTANTS
  Requests,   \* the requests: [engine, api, checked, thoughts, usage]
  Frames,     \* Frames[e]: the frames engine e's backend may send
  Chars,      \* the characters of texts and arguments
  Indexes,    \* the tool-call indexes a backend uses
  Headers,    \* tool-call headers: an ID and a function name
  NoHeader,
  Objects,    \* the texts that encode a JSON object
  Open, Close,  \* the markers <think> and </think>, as sequences of characters
  MaxFrames,  \* bound: frames a backend sends
  MaxChunk    \* bound: frames one read of the connection returns

Engines == {"llama", "q27", "ninfer", "vllm", "vllm_responses"}
Apis == {"responses", "chat", "completions"}
Finishes == {"stop", "length", "tools"}
Constraints == {"none", "complete", "incomplete"}

\* A tool-call delta: part of a call, whose header may have come before.
Deltas == [index : Indexes, header : Headers \cup {NoHeader}, args : Seq(Chars)]

ASSUME StreamAssumption ==
  /\ Requests \subseteq [engine : Engines, api : Apis, checked : BOOLEAN, thoughts : BOOLEAN,
                          usage : BOOLEAN]
  /\ Indexes \subseteq Nat /\ IsFiniteSet(Indexes)
  /\ NoHeader \notin Headers
  /\ MaxFrames \in Nat /\ MaxChunk \in Nat \ {0}
  /\ Len(Open) > 1 /\ Len(Close) > 1

\* Only a delta says anything; it may say an empty text.  Several tool-call deltas
\* of one event are as many frames here.  Of a usage only whether it is stated is
\* kept, not its numbers.
ASSUME FrameAssumption ==
  \A e \in Engines : \A f \in Frames[e] :
    /\ f.kind \in {"delta", "bad", "done"}
    /\ f.text \in Seq(Chars) /\ f.says \in BOOLEAN /\ f.usage \in BOOLEAN
    /\ f.text # <<>> => f.says
    /\ f.tools \in Seq(Deltas) /\ Len(f.tools) <= 1
    /\ f.constraint \in Constraints
    /\ f.kind # "delta" => f.text = <<>> /\ f.tools = <<>> /\ f.finish = "none"

VARIABLES
  request,  \* the request, fixed
  sent,     \* every frame the backend has sent, in order
  dec,      \* the adapter's decoder
  checked,  \* the text the structured-output check has seen
  lease,    \* the inference lease: what it reports, or "released"
  pub,      \* the public encoder
  client,   \* "waiting" for the headers, "reading", or how it ended
  got       \* the events the client has read

vars == <<request, sent, dec, checked, lease, pub, client, got>>

NoCall == [seen |-> FALSE, header |-> NoHeader, args |-> <<>>]
NoItem == [seen |-> FALSE, header |-> NoHeader, args |-> <<>>, at |-> 0, added |-> FALSE]
Failed == [type |-> "failed", finish |-> "none"]
Completed(reason, usage) == [type |-> "completed", finish |-> reason, usage |-> usage]

-----------------------------------------------------------------------------
(* q27's filter of raw completions: the initial reasoning is dropped up to its *)
(* closing marker, and every later marker is taken out of the public text.    *)

Occurs(m, s) == \E i \in 0..(Len(s) - Len(m)) : SubSeq(s, i + 1, i + Len(m)) = m

\* str::find: where the first occurrence of m in s starts, counted from zero.
Find(m, s) ==
  CHOOSE i \in 0..(Len(s) - Len(m)) :
    /\ SubSeq(s, i + 1, i + Len(m)) = m
    /\ \A j \in 0..(i - 1) : SubSeq(s, j + 1, j + Len(m)) # m

Suffix(s, n) == SubSeq(s, Len(s) - n + 1, Len(s))

\* Mutant: a marker cut by a chunk is not recognised.
MUT_PossibleMarkerSuffix(s, ms) == 0

\* possible_marker_suffix_len: the longest suffix that may grow into a marker.
PossibleMarkerSuffix(s, ms) ==
  LET lengths == {n \in 1..Len(s) : \E m \in ms : n < Len(m) /\ IsPrefix(Suffix(s, n), m)}
  IN  IF lengths = {} THEN 0 ELSE Max(lengths)

\* drain_public: [out, pending] for a text that follows the closing marker.
DrainPublic(s) ==
  LET drain[p \in Seq(Range(s))] ==
        LET found == {m \in {Open, Close} : Occurs(m, p)}
            kept == Len(p) - PossibleMarkerSuffix(p, {Open, Close})
        IN  IF found = {}
            THEN [out |-> SubSeq(p, 1, kept), pending |-> SubSeq(p, kept + 1, Len(p))]
            ELSE LET m == CHOOSE n \in found : \A o \in found : Find(n, p) <= Find(o, p)
                     rest == drain[SubSeq(p, Find(m, p) + Len(m) + 1, Len(p))]
                 IN  [rest EXCEPT !.out = SubSeq(p, 1, Find(m, p)) \o @]
  IN  drain[s]

\* push: the filter after it is given text, and what it lets through.
Push(filter, text) ==
  LET pending == filter.pending \o text
  IN  IF ~filter.closed /\ ~Occurs(Close, pending)
      THEN [closed |-> FALSE, out |-> <<>>,
            pending |-> Suffix(pending, PossibleMarkerSuffix(pending, {Close}))]
      ELSE LET public == IF filter.closed THEN pending
                         ELSE SubSeq(pending, Find(Close, pending) + Len(Close) + 1,
                                     Len(pending))
           IN  [closed |-> TRUE] @@ DrainPublic(public)

-----------------------------------------------------------------------------
(* The decoders.  Each stage of a frame is skipped once the stream finished.  *)

\* An error ends the decoder: one Err is queued and nothing after it is parsed.
Fail(d) == [d EXCEPT !.queued = Append(@, Failed), !.finished = TRUE]

Emit(d, event) == [d EXCEPT !.queued = Append(@, event)]

\* A usage, once stated, is kept for the end.
Usage(d, f) == [d EXCEPT !.usage = @ \/ f.usage]

Texts(d, text) == IF d.finished \/ text = <<>> THEN d ELSE Emit(d, [type |-> "text", text |-> text])

\* Raw text goes through the filter; text that it keeps back is not an event.
FilteredText(d, text) ==
  LET f == Push(d.filter, text)
  IN  Texts([d EXCEPT !.filter = [closed |-> f.closed, pending |-> f.pending]], f.out)

Tools(d, calls) ==
  IF d.finished \/ calls = <<>> THEN d ELSE Emit(d, [type |-> "tool", tool |-> calls[1]])

\* StreamCalls.deltas: a header may be repeated and may not change.
TrackedTools(d, calls) ==
  IF d.finished \/ calls = <<>> THEN d
  ELSE LET t == calls[1]
           c == d.calls[t.index]
           header == IF t.header = NoHeader THEN c.header ELSE t.header
       IN  IF c.header \notin {NoHeader, header} THEN Fail(d)
           ELSE Emit([d EXCEPT !.calls[t.index] =
                        [seen |-> TRUE, header |-> header, args |-> c.args \o t.args]],
                     [type |-> "tool", tool |-> t])

FinishReason(d, reason) ==
  IF d.finished \/ reason = "none" THEN d
  ELSE IF reason \in Finishes THEN [d EXCEPT !.finish = reason] ELSE Fail(d)

\* NInfer reports once whether its output constraint was completed.
Observation(d, constraint) ==
  IF constraint = "none" THEN d
  ELSE IF d.constraint \in {"none", constraint} THEN [d EXCEPT !.constraint = constraint]
  ELSE Fail(d)

\* NInfer's reasoning ends when the answer starts or the finish reason is known.
Reasoning(d, f) ==
  LET said == IF f.thought /\ ~d.finished
              THEN Emit([d EXCEPT !.thinking = TRUE], [type |-> "thought"]) ELSE d
  IN  IF ~d.finished /\ said.thinking /\ (f.text # <<>> \/ f.tools # <<>> \/ d.finish # "none")
      THEN Emit([said EXCEPT !.thinking = FALSE], [type |-> "thought_ends"])
      ELSE said

\* StreamCalls.finish: complete, distinct calls, exactly when the reason says so.
CallsFinish(d) ==
  LET seen == {i \in Indexes : d.calls[i].seen}
  IN  /\ \A i \in seen : d.calls[i].header # NoHeader /\ d.calls[i].args \in Objects
      /\ \A i, j \in seen : i # j => d.calls[i].header # d.calls[j].header
      /\ (seen # {}) <=> d.finish = "tools"

\* validate_constraint
ConstraintHolds(d) ==
  /\ request.checked => d.constraint # "none"
  /\ d.constraint = "incomplete" => d.finish = "length"

\* Mutant: the end is noted and not reported.
MUT_Complete(d) == [d EXCEPT !.finished = TRUE]

Complete(d) == [Emit(d, Completed(d.finish, d.usage)) EXCEPT !.finished = TRUE]

\* The [DONE] marker.
Done(d) ==
  IF \/ d.finish = "none"
     \/ request.engine = "llama" /\ ~CallsFinish(d)
     \/ request.engine = "ninfer" /\ ~ConstraintHolds(d)
     \/ request.engine = "vllm_responses"
  THEN Fail(d) ELSE Complete(d)

\* What each adapter reads of a frame, in its order.
LlamaFrame(d, f) == Texts(FinishReason(TrackedTools(d, f.tools), f.finish), f.text)

Q27Frame(d, f) ==
  LET known == FinishReason(d, f.finish)
  IN  Tools(IF known.finished THEN known
            ELSE IF request.api = "completions" THEN FilteredText(known, f.text)
            ELSE Texts(known, f.text), f.tools)

NinferFrame(d, f) ==
  Tools(Texts(Reasoning(FinishReason(Observation(d, f.constraint), f.finish), f), f.text),
        f.tools)

\* vLLM's text deltas are passed on even when they are empty.
Passes(d, f) == IF f.says THEN Emit(d, [type |-> "text", text |-> f.text]) ELSE d

VllmFrame(d, f) ==
  IF f.tools # <<>> THEN Fail(d)
  ELSE IF f.finish = "tools" THEN Fail(Passes(d, f))
  ELSE FinishReason(Passes(d, f), f.finish)

\* vLLM's own Responses events: the text deltas, then one completion event.
VllmResponsesFrame(d, f) ==
  LET known == VllmFrame(d, f)
  IN  IF known.finished \/ known.finish = "none" THEN known ELSE Complete(known)

\* What the running decoder of an engine makes of a delta.
DeltaFrame(d, f) ==
  CASE request.engine = "llama" -> LlamaFrame(d, f)
    [] request.engine = "q27" -> Q27Frame(d, f)
    [] request.engine = "ninfer" -> NinferFrame(d, f)
    [] request.engine = "vllm" -> VllmFrame(d, f)
    [] request.engine = "vllm_responses" -> VllmResponsesFrame(d, f)

DecodeFrame(d, f) ==
  CASE d.finished -> d
    [] ~d.finished /\ f.kind = "bad" -> Fail(d)
    [] ~d.finished /\ f.kind = "done" -> Done(d)
    [] OTHER -> DeltaFrame(Usage(d, f), f)

\* What one read returned is decoded frame by frame.
DecodeAll(d, fs) ==
  LET decoded[k \in 0..Len(fs)] == IF k = 0 THEN d ELSE DecodeFrame(decoded[k - 1], fs[k])
  IN  decoded[Len(fs)]

-----------------------------------------------------------------------------
(* The public encoders.  An event is [type, at, body]: its output or tool     *)
(* index, and what it says.                                                   *)

Event(type, at, body) == [type |-> type, at |-> at, body |-> body]
Pushed(p, es) == [p EXCEPT !.queue = @ \o es]
Terminated(p, es) == [Pushed(p, es) EXCEPT !.terminal = TRUE]

\* Responses: ensure_text_started, then the delta.
ResponsesText(p, text) ==
  LET opened == [Pushed(p, <<Event("message_added", p.next, <<>>),
                             Event("part_added", p.next, <<>>)>>)
                   EXCEPT !.textAt = <<p.next>>, !.next = @ + 1]
      q == IF p.textAt = <<>> THEN opened ELSE p
  IN  [Pushed(q, <<Event("text_delta", q.textAt[1], text)>>) EXCEPT !.text = @ \o text]

\* Mutant: a call takes its index without using it up.
MUT_ResponsesTool(p, t) ==
  LET c == p.calls[t.index]
      at == IF c.seen THEN c.at ELSE p.next
      adds == ~c.added /\ t.header # NoHeader
  IN  [Pushed(p, (IF adds THEN <<Event("call_added", at, t.header)>> ELSE <<>>)
                 \o (IF t.args # <<>> THEN <<Event("args_delta", at, t.args)>> ELSE <<>>))
        EXCEPT !.calls[t.index] =
          [seen |-> TRUE, header |-> IF adds THEN t.header ELSE c.header,
           args |-> c.args \o t.args, at |-> at, added |-> c.added \/ adds]]

\* Responses: push_tool_delta.  The index is taken by the first delta, the item
\* is announced once its header is known.
ResponsesTool(p, t) ==
  LET c == p.calls[t.index]
      header == IF t.header = NoHeader THEN c.header ELSE t.header
      at == IF c.seen THEN c.at ELSE p.next
      adds == ~c.added /\ header # NoHeader
  IN  [Pushed(p, (IF adds THEN <<Event("call_added", at, header)>> ELSE <<>>)
                 \o (IF t.args # <<>> THEN <<Event("args_delta", at, t.args)>> ELSE <<>>))
        EXCEPT !.next = IF c.seen THEN @ ELSE @ + 1,
               !.calls[t.index] =
          [seen |-> TRUE, header |-> header, args |-> c.args \o t.args,
           at |-> at, added |-> c.added \/ adds]]

\* The n-th smallest of a set of numbers.
Nth(S, n) == CHOOSE i \in S : Cardinality({j \in S : j < i}) = n - 1

\* Responses: complete() closes the message, then the calls by their index.
ResponsesComplete(p, reason) ==
  LET message == IF p.textAt = <<>> THEN <<>>
                 ELSE <<Event("text_done", p.textAt[1], p.text),
                        Event("part_done", p.textAt[1], p.text),
                        Event("message_done", p.textAt[1], p.text)>>
      seen == {i \in Indexes : p.calls[i].seen}
      closed == [k \in 1..(2 * Cardinality(seen)) |->
                   LET i == Nth(seen, (k + 1) \div 2)
                   IN  IF k % 2 = 1 THEN Event("args_done", p.calls[i].at, p.calls[i].args)
                       ELSE Event("call_done", p.calls[i].at,
                                  [index |-> i, header |-> p.calls[i].header,
                                   args |-> p.calls[i].args])]
  IN  Pushed(p, message \o closed
                \o <<Event(IF reason = "length" THEN "incomplete" ELSE "completed", 0, reason)>>)

Responses(p, e) ==
  CASE e.type = "text" -> ResponsesText(p, e.text)
    [] e.type = "tool" -> ResponsesTool(p, e.tool)
    [] e.type = "completed" -> [ResponsesComplete(p, e.finish) EXCEPT !.terminal = TRUE]
    [] e.type = "failed" -> Terminated(p, <<Event("failed", 0, "none")>>)
    [] OTHER -> p

\* How a success ends in Chat and Completions: the finish chunk; the usage, if
\* stream_options.include_usage asked for it and the backend stated it; [DONE].
Succeeding(e) ==
  IF request.usage /\ e.usage
  THEN <<Event("completed", 0, e.finish), Event("usage", 0, <<>>), Event("done", 0, <<>>)>>
  ELSE <<Event("completed", 0, e.finish), Event("done", 0, <<>>)>>
Failing == <<Event("failed", 0, "none"), Event("done", 0, <<>>)>>

\* Chat: deltas pass one for one; the finish chunk and the usage, or the error,
\* precede [DONE].
Chat(p, e) ==
  CASE e.type = "text" -> Pushed(p, <<Event("text_delta", 0, e.text)>>)
    [] e.type = "thought" /\ request.thoughts -> Pushed(p, <<Event("thought", 0, <<>>)>>)
    [] e.type = "tool" -> Pushed(p, <<Event("tool_delta", e.tool.index, e.tool)>>)
    [] e.type = "completed" -> Terminated(p, Succeeding(e))
    [] e.type = "failed" -> Terminated(p, Failing)
    [] OTHER -> p

\* Completions have no tool calls: one, or a finish reason that names them, is
\* answered with the error.
Completions(p, e) ==
  CASE e.type = "text" -> Pushed(p, <<Event("text_delta", 0, e.text)>>)
    [] e.type \in {"thought", "thought_ends"} -> p
    [] e.type = "completed" /\ e.finish # "tools" ->
         Terminated(p, Succeeding(e))
    [] OTHER -> Terminated(p, Failing)

Encode(p, e) ==
  CASE request.api = "responses" -> Responses(p, e)
    [] request.api = "chat" -> Chat(p, e)
    [] request.api = "completions" -> Completions(p, e)

Opening ==
  CASE request.api = "responses" -> <<Event("created", 0, <<>>), Event("in_progress", 0, <<>>)>>
    [] request.api = "chat" -> <<Event("role", 0, <<>>)>>
    [] request.api = "completions" -> <<>>

-----------------------------------------------------------------------------
(* The chain *)

Init ==
  /\ request \in Requests
  /\ sent = <<>>
  /\ dec = [queued |-> <<>>, finish |-> "none", finished |-> FALSE,
            usage |-> FALSE, calls |-> [i \in Indexes |-> NoCall], thinking |-> FALSE,
            constraint |-> "none", filter |-> [closed |-> FALSE, pending |-> <<>>]]
  /\ checked = <<>>
  /\ lease = "prompt"
  /\ pub = [queue |-> <<>>, text |-> <<>>, textAt |-> <<>>,
            calls |-> [i \in Indexes |-> NoItem], next |-> 0, terminal |-> FALSE]
  /\ client = "waiting"
  /\ got = <<>>

\* The backend accepted the request: the public stream starts.
Opens ==
  /\ client = "waiting"
  /\ client' = "reading"
  /\ pub' = Pushed(pub, Opening)
  /\ UNCHANGED <<request, sent, dec, checked, lease, got>>

\* The backend refused it or could not be reached: the request fails before any
\* event, and its lease goes with it.
OpenFails ==
  /\ client = "waiting"
  /\ client' = "refused"
  /\ lease' = "released"
  /\ UNCHANGED <<request, sent, dec, checked, pub, got>>

\* The encoder asks for the next event and the decoder has to read for it.
Pulls ==
  /\ client = "reading"
  /\ pub.queue = <<>> /\ ~pub.terminal
  /\ dec.queued = <<>> /\ ~dec.finished

\* One read returns some complete frames; all of them are parsed.
Receive ==
  /\ Pulls
  /\ \E n \in 1..MaxChunk : \E fs \in [1..n -> Frames[request.engine]] :
       /\ Len(sent) + n <= MaxFrames
       /\ sent' = sent \o fs
       /\ dec' = DecodeAll(dec, fs)
  /\ UNCHANGED <<request, checked, lease, pub, client, got>>

\* The connection breaks or ends, or a frame outgrows the limit.
SourceFails ==
  /\ Pulls
  /\ dec' = Fail(dec)
  /\ UNCHANGED <<request, sent, checked, lease, pub, client, got>>

\* validate_stream: llama.cpp's structured answers are text, checked at the end.
Structured == request.engine = "llama" /\ request.checked

Checked(e) ==
  IF ~Structured THEN e
  ELSE CASE e.type = "tool" -> Failed
         [] e.type = "completed" /\ ~(e.finish = "stop" /\ checked \in Objects) -> Failed
         [] OTHER -> e

\* Mutant: the lease only covers the prompt.
MUT_LeaseAfter(e) == IF e.type = "thought_ends" THEN lease ELSE "released"

\* LeasedInferenceStream: an ending releases the lease, output marks it.
LeaseAfter(e) ==
  IF e.type \in {"completed", "failed"} THEN "released"
  ELSE IF e.type \in {"text", "tool", "thought"} THEN "generating"
  ELSE lease

\* The next event travels from the decoder to the encoder.
Take ==
  /\ client = "reading"
  /\ pub.queue = <<>> /\ ~pub.terminal
  /\ dec.queued # <<>>
  /\ LET event == Checked(Head(dec.queued))
     IN  /\ lease' = LeaseAfter(event)
         /\ pub' = Encode(pub, event)
         /\ checked' = IF Structured /\ event.type = "text" THEN checked \o event.text ELSE checked
  /\ dec' = [dec EXCEPT !.queued = Tail(@)]
  /\ UNCHANGED <<request, sent, client, got>>

Deliver ==
  /\ client = "reading"
  /\ pub.queue # <<>>
  /\ got' = Append(got, Head(pub.queue))
  /\ pub' = [pub EXCEPT !.queue = Tail(@)]
  /\ UNCHANGED <<request, sent, dec, checked, lease, client>>

\* The body ended: the chain is dropped, with a lease it may still hold.
Ends ==
  /\ client = "reading"
  /\ pub.terminal /\ pub.queue = <<>>
  /\ client' = "ended"
  /\ lease' = "released"
  /\ UNCHANGED <<request, sent, dec, checked, pub, got>>

\* The client disconnects: every stage is dropped where it stands.
Leaves ==
  /\ client \in {"waiting", "reading"}
  /\ client' = "gone"
  /\ lease' = "released"
  /\ UNCHANGED <<request, sent, dec, checked, pub, got>>

Stopped ==
  /\ client \in {"refused", "ended", "gone"}
  /\ UNCHANGED vars

Next == Opens \/ OpenFails \/ Receive \/ SourceFails \/ Take \/ Deliver \/ Ends \/ Leaves \/ Stopped

\* A client that keeps reading keeps pulling what is already there.  Nothing is
\* assumed of the backend.
Spec == Init /\ [][Next]_vars /\ WF_vars(Take) /\ WF_vars(Deliver) /\ WF_vars(Ends)

-----------------------------------------------------------------------------
(* Properties *)

Endings == {"completed", "incomplete", "failed"}
Success == {"completed", "incomplete"}

\* The tool-call deltas of call i in a sequence of them, and what they add up to:
\* the last header that was named, and all the arguments.
HeaderOf(i, tools) ==
  LET named == {k \in 1..Len(tools) : tools[k].index = i /\ tools[k].header # NoHeader}
  IN  IF named = {} THEN NoHeader ELSE tools[Max(named)].header
ArgsOf(i, tools) ==
  FlattenSeq([k \in 1..Len(tools) |-> IF tools[k].index = i THEN tools[k].args ELSE <<>>])
Called(tools) == {tools[k].index : k \in 1..Len(tools)}
Calls(tools) ==
  {[index |-> i, header |-> HeaderOf(i, tools), args |-> ArgsOf(i, tools)] : i \in Called(tools)}

\* The frames of fs that count: those before the marker or event that ended them.
Ending(f) == f.kind = "done" \/ (request.engine = "vllm_responses" /\ f.finish # "none")
Said(fs) ==
  LET ends == {i \in 1..Len(fs) : Ending(fs[i])}
  IN  IF ends = {} THEN fs
      ELSE SubSeq(fs, 1, IF request.engine = "vllm_responses" THEN Min(ends) ELSE Min(ends) - 1)

\* The public part of a raw q27 text, said without chunks: what follows the
\* first closing marker, without markers and without a trailing piece of one.
Inside(s, i) ==
  \E m \in {Open, Close} : \E k \in 1..i :
    i < k + Len(m) /\ k + Len(m) <= Len(s) + 1 /\ SubSeq(s, k, k + Len(m) - 1) = m
Public(s) ==
  IF ~Occurs(Close, s) THEN <<>>
  ELSE LET t == SubSeq(s, Find(Close, s) + Len(Close) + 1, Len(s))
           pieces == {n \in 0..Len(t) : \E m \in {Open, Close} :
                        n < Len(m) /\ Suffix(t, n) = SubSeq(m, 1, n)}
           n == Len(t) - Max(pieces)
           kept == SetToSortSeq({i \in 1..n : ~Inside(t, i)}, <)
       IN  [k \in 1..Len(kept) |-> t[kept[k]]]
Filtered == request.engine = "q27" /\ request.api = "completions"

\* What frames say: their text, their tool-call deltas, the last finish reason.
AllText(fs) == FlattenSeq([k \in 1..Len(fs) |-> fs[k].text])
AllTools(fs) == FlattenSeq([k \in 1..Len(fs) |-> fs[k].tools])
LastReason(fs) ==
  LET known == {k \in 1..Len(fs) : fs[k].finish # "none"}
  IN  IF known = {} THEN "none" ELSE fs[Max(known)].finish
SaidText == IF Filtered THEN Public(AllText(Said(sent))) ELSE AllText(Said(sent))

\* What a client that read es holds: the text of its deltas, and its calls.
TextOf(es) ==
  FlattenSeq([k \in 1..Len(es) |-> IF es[k].type = "text_delta" THEN es[k].body ELSE <<>>])
ToolsOf(es) ==
  FlattenSeq([k \in 1..Len(es) |-> IF es[k].type = "tool_delta" THEN <<es[k].body>> ELSE <<>>])
GotCalls ==
  IF request.api = "chat" THEN Calls(ToolsOf(got))
  ELSE {got[k].body : k \in {j \in 1..Len(got) : got[j].type = "call_done"}}

\* The client never reads text that the backend did not send in that order, and
\* a stream that ends in success carries all of it, with every tool call and the
\* backend's last finish reason: the backend said it was done, no frame before
\* that was in error, and a structured answer was complete.  Whichever frames
\* share a read, wherever q27's markers are cut, and whatever follows the end.
CompletedIsFaithful ==
  /\ IsPrefix(TextOf(got), SaidText)
  /\ \A k \in 1..Len(got) : got[k].type \in Success =>
       LET reason == got[k].body
       IN  /\ \E i \in 1..Len(sent) : Ending(sent[i])
           /\ \A i \in 1..Len(Said(sent)) : Said(sent)[i].kind = "delta"
           /\ reason # "none" /\ reason = LastReason(Said(sent))
           /\ request.api = "responses" => (got[k].type = "incomplete" <=> reason = "length")
           /\ TextOf(got) = SaidText
           /\ \A j \in 1..Len(got) :
                got[j].type \in {"text_done", "part_done", "message_done"} =>
                  got[j].body = SaidText
           /\ GotCalls = Calls(AllTools(Said(sent)))
           /\ request.engine = "llama" =>
                /\ \A c \in GotCalls : c.header # NoHeader /\ c.args \in Objects
                /\ (GotCalls # {}) <=> reason = "tools"
           /\ Structured => TextOf(got) \in Objects /\ reason = "stop"
           /\ request.engine = "ninfer" /\ request.checked /\ reason # "length" =>
                \E i \in 1..Len(Said(sent)) : Said(sent)[i].constraint = "complete"

\* A stream has one ending.  Nothing but [DONE] follows it and, in between, the
\* one usage chunk of a success whose client asked for it; a stream that ran to
\* its end has an ending.  Until one is on its way the lease is held, so the
\* backend of a stream that still reads is not drained, unloaded or reaped.
EndsOnce ==
  LET ends == {i \in 1..Len(got) : got[i].type \in Endings}
  IN  /\ \A i \in ends : \A j \in (i + 1)..Len(got) :
           \/ got[j].type = "done" /\ (j = i + 1 \/ (j = i + 2 /\ got[i + 1].type = "usage"))
           \/ /\ got[j].type = "usage" /\ j = i + 1
              /\ got[i].type = "completed" /\ request.usage
      /\ client = "ended" => ends # {}
      /\ client \in {"refused", "ended", "gone"} => lease = "released"
      /\ client = "reading" /\ ~pub.terminal => lease # "released"

\* In a Responses stream every part, delta and end names the index of an item
\* announced before it and not closed yet, no index is announced twice, and a
\* success closes every item.  A backend that sends arguments before the name
\* of their call is not covered: its deltas precede the announcement.
HeadersFirst(tools) ==
  \A k \in 1..Len(tools) :
    tools[k].header # NoHeader \/ \E j \in 1..(k - 1) : tools[j].index = tools[k].index

Added == {"message_added", "call_added"}
Closed == {"message_done", "call_done"}
ItemsAreOrdered ==
  request.api = "responses" /\ HeadersFirst(AllTools(Said(sent))) =>
    LET items == {i \in 1..Len(got) : got[i].type \notin Endings \cup {"created", "in_progress"}}
    IN  \A i \in items :
          /\ got[i].type \in Added <=> \A j \in 1..(i - 1) \cap items : got[j].at # got[i].at
          /\ \A j \in 1..(i - 1) \cap items :
               got[j].type \in Closed => got[j].at # got[i].at
          /\ (\E k \in 1..Len(got) : got[k].type \in Success) =>
               \E j \in items : got[j].type \in Closed /\ got[j].at = got[i].at

\* Once the decoder has seen the end, good or bad, a client that keeps reading is
\* told how its stream ended and the lease is released.
EndReachesClient ==
  (client = "reading" /\ dec.finished) ~>
    (lease = "released" /\ (client = "gone" \/ \E k \in 1..Len(got) : got[k].type \in Endings))
=============================================================================
