---------------------------- MODULE StreamProofs ----------------------------
(***************************************************************************)
(* However a backend frames what it sends, however the frames share reads, *)
(* and wherever it fails: a client reads one ending, the lease is held     *)
(* until that is on its way, what it reads is what was said, in order, a   *)
(* success carries all of it, and the items of a Responses stream are      *)
(* announced, continued and closed in order.                               *)
(*                                                                         *)
(* The first part assumes nothing of what the decoder makes of the frames: *)
(* it is the encoder that sees to the ending.  The second part follows the *)
(* events through the chain: each decoder passes on what the frames said   *)
(* (Decoded), each encoder says what it was passed (Passed), and Chain     *)
(* joins the two by the history of events between them.                    *)
(***************************************************************************)
EXTENDS Stream, FiniteSetTheorems, WellFoundedInduction, TLAPS

IsSeq(s) == \E S : s \in Seq(S)

Lasts == Endings \cup {"usage", "done"}

\* No ending yet.
Plain(s) == \A i \in 1..Len(s) : s[i].type \notin Lasts

\* What may stand behind an ending: nothing, [DONE], or the usage that was asked
\* for and [DONE].
Behind(asked, s, n) ==
  \/ n = Len(s)
  \/ n + 1 = Len(s) /\ s[n + 1].type = "done"
  \/ /\ n + 2 = Len(s) /\ s[n].type = "completed" /\ asked
     /\ s[n + 1].type = "usage" /\ s[n + 2].type = "done"

\* One ending, and little behind it.
Final(asked, s) ==
  \E n \in 1..Len(s) :
    /\ \A i \in 1..(n - 1) : s[i].type \notin Lasts
    /\ s[n].type \in Endings
    /\ Behind(asked, s, n)

\* What the argument looks at in an encoder.
Encoder(p) ==
  /\ "queue" \in DOMAIN p /\ "terminal" \in DOMAIN p
  /\ IsSeq(p.queue)
  /\ p.terminal \in BOOLEAN

\* An encoder that had nothing queued and was then given events.
Encoded(p) ==
  /\ Encoder(p)
  /\ p.terminal => Final(request.usage, p.queue)
  /\ ~p.terminal => Plain(p.queue)

-----------------------------------------------------------------------------
(* Sequences of events.                                                    *)

LEMMA ConcatIs ==
  ASSUME NEW s, NEW t, IsSeq(s), IsSeq(t)
  PROVE  /\ IsSeq(s \o t)
         /\ Len(s) \in Nat /\ Len(t) \in Nat
         /\ Len(s \o t) = Len(s) + Len(t)
         /\ \A i \in 1..Len(s) : (s \o t)[i] = s[i]
         /\ \A i \in 1..Len(t) : (s \o t)[Len(s) + i] = t[i]
<1>1. PICK S, T : s \in Seq(S) /\ t \in Seq(T) BY DEF IsSeq
<1>2. s \in Seq(S \cup T) /\ t \in Seq(S \cup T) BY <1>1
<1>3. s \o t \in Seq(S \cup T) BY <1>2
<1> QED BY <1>2, <1>3 DEF IsSeq

LEMMA PlainConcat ==
  ASSUME NEW s, NEW t, IsSeq(s), IsSeq(t), Plain(s), Plain(t)
  PROVE  Plain(s \o t)
<1> SUFFICES ASSUME NEW i \in 1..Len(s \o t) PROVE (s \o t)[i].type \notin Lasts
  BY DEF Plain
<1>1. CASE i \in 1..Len(s) BY <1>1, ConcatIs DEF Plain
<1>2. CASE i \notin 1..Len(s)
  <2>1. PICK j \in 1..Len(t) : i = Len(s) + j
    <3>1. i - Len(s) \in 1..Len(t) BY <1>2, ConcatIs
    <3> QED BY <3>1, ConcatIs
  <2> QED BY <2>1, ConcatIs DEF Plain
<1> QED BY <1>1, <1>2

LEMMA FinalConcat ==
  ASSUME NEW asked, NEW s, NEW t, IsSeq(s), IsSeq(t), Plain(s), Final(asked, t)
  PROVE  Final(asked, s \o t)
<1>1. PICK n \in 1..Len(t) :
        /\ \A i \in 1..(n - 1) : t[i].type \notin Lasts
        /\ t[n].type \in Endings
        /\ Behind(asked, t, n)
  BY DEF Final
<1>2. PICK m : m = Len(s) + n OBVIOUS
<1>3. m \in 1..Len(s \o t) /\ (s \o t)[m] = t[n] BY <1>2, ConcatIs
<1>4. ASSUME NEW i \in 1..(m - 1) PROVE (s \o t)[i].type \notin Lasts
  <2>1. CASE i \in 1..Len(s) BY <2>1, ConcatIs DEF Plain
  <2>2. CASE i \notin 1..Len(s)
    <3>1. PICK j : j = i - Len(s) OBVIOUS
    <3>2. j \in 1..(n - 1) /\ j \in 1..Len(t) /\ i = Len(s) + j
      BY <1>1, <1>2, <2>2, <3>1, ConcatIs
    <3>3. (s \o t)[i] = t[j] BY <3>2, ConcatIs
    <3> QED BY <1>1, <3>2, <3>3
  <2> QED BY <2>1, <2>2
<1>5. Behind(asked, s \o t, m)
  <2>0. /\ Len(s) \in Nat /\ Len(t) \in Nat /\ Len(s \o t) = Len(s) + Len(t)
        /\ \A i \in 1..Len(t) : (s \o t)[Len(s) + i] = t[i]
    BY ConcatIs
  <2>1. CASE n = Len(t) BY <1>2, <2>0, <2>1 DEF Behind
  <2>2. CASE n + 1 = Len(t) /\ t[n + 1].type = "done"
    <3>1. n + 1 \in 1..Len(t) /\ m + 1 = Len(s) + (n + 1) /\ m + 1 = Len(s \o t)
      BY <1>2, <2>0, <2>2
    <3>2. (s \o t)[m + 1] = t[n + 1] BY <2>0, <3>1
    <3> QED BY <2>2, <3>1, <3>2 DEF Behind
  <2>3. CASE /\ n + 2 = Len(t) /\ t[n].type = "completed" /\ asked
             /\ t[n + 1].type = "usage" /\ t[n + 2].type = "done"
    <3>1. /\ n + 1 \in 1..Len(t) /\ m + 1 = Len(s) + (n + 1)
          /\ n + 2 \in 1..Len(t) /\ m + 2 = Len(s) + (n + 2) /\ m + 2 = Len(s \o t)
      BY <1>2, <2>0, <2>3
    <3>2. (s \o t)[m + 1] = t[n + 1] /\ (s \o t)[m + 2] = t[n + 2] BY <2>0, <3>1, SMTT(30)
    <3> QED BY <1>3, <2>3, <3>1, <3>2 DEF Behind
  <2> QED BY <1>1, <2>1, <2>2, <2>3 DEF Behind
<1> QED BY <1>1, <1>3, <1>4, <1>5 DEF Final

LEMMA ConcatEmpty ==
  ASSUME NEW s, IsSeq(s)
  PROVE  s \o <<>> = s /\ <<>> \o s = s
<1>1. PICK S : s \in Seq(S) BY DEF IsSeq
<1> QED BY <1>1

LEMMA ConcatAssoc ==
  ASSUME NEW s, NEW t, NEW u, IsSeq(s), IsSeq(t), IsSeq(u)
  PROVE  (s \o t) \o u = s \o (t \o u)
<1>1. PICK S, T, U : s \in Seq(S) /\ t \in Seq(T) /\ u \in Seq(U) BY DEF IsSeq
<1>2. /\ s \in Seq(S \cup T \cup U) /\ t \in Seq(S \cup T \cup U)
      /\ u \in Seq(S \cup T \cup U)
  BY <1>1
<1> QED BY <1>2

LEMMA PlainEmpty == Plain(<<>>)
  BY DEF Plain

\* Reading moves the first event of the queue.
LEMMA Read ==
  ASSUME NEW s, NEW t, IsSeq(s), IsSeq(t), t # <<>>
  PROVE  /\ IsSeq(Append(s, Head(t))) /\ IsSeq(Tail(t))
         /\ Append(s, Head(t)) \o Tail(t) = s \o t
<1>1. PICK S, T : s \in Seq(S) /\ t \in Seq(T) BY DEF IsSeq
<1>2. s \in Seq(S \cup T) /\ t \in Seq(S \cup T) BY <1>1
<1>3. /\ Append(s, Head(t)) \in Seq(S \cup T) /\ Tail(t) \in Seq(S \cup T)
      /\ Append(s, Head(t)) \o Tail(t) \in Seq(S \cup T) /\ s \o t \in Seq(S \cup T)
  BY <1>2
<1>4. Append(s, Head(t)) \o Tail(t) = s \o t BY <1>2, <1>3
<1> QED BY <1>3, <1>4 DEF IsSeq

-----------------------------------------------------------------------------
(* The encoder.                                                            *)

LEMMA EventType == ASSUME NEW type, NEW at, NEW body PROVE Event(type, at, body).type = type
  BY DEF Event

LEMMA PlainTuples ==
  ASSUME NEW e, NEW f, NEW g, e.type \notin Lasts, f.type \notin Lasts, g.type \notin Lasts
  PROVE  /\ IsSeq(<<>>) /\ Plain(<<>>)
         /\ IsSeq(<<e>>) /\ Plain(<<e>>)
         /\ IsSeq(<<e, f>>) /\ Plain(<<e, f>>)
         /\ IsSeq(<<e, f, g>>) /\ Plain(<<e, f, g>>)
<1>1. <<>> \in Seq({e, f, g}) /\ <<e>> \in Seq({e, f, g}) /\ <<e, f>> \in Seq({e, f, g})
      /\ <<e, f, g>> \in Seq({e, f, g})
  OBVIOUS
<1>2. /\ Len(<<>>) = 0 /\ Len(<<e>>) = 1 /\ Len(<<e, f>>) = 2 /\ Len(<<e, f, g>>) = 3
      /\ <<e>>[1] = e
      /\ <<e, f>>[1] = e /\ <<e, f>>[2] = f
      /\ <<e, f, g>>[1] = e /\ <<e, f, g>>[2] = f /\ <<e, f, g>>[3] = g
  OBVIOUS
<1>3. Plain(<<>>) /\ Plain(<<e>>) BY <1>2 DEF Plain
<1>4. Plain(<<e, f>>)
  <2>1. \A i \in 1..2 : i = 1 \/ i = 2 OBVIOUS
  <2> QED BY <1>2, <2>1 DEF Plain
<1>5. Plain(<<e, f, g>>)
  <2>1. \A i \in 1..3 : i = 1 \/ i = 2 \/ i = 3 OBVIOUS
  <2> QED BY <1>2, <2>1 DEF Plain
<1> QED BY <1>1, <1>3, <1>4, <1>5 DEF IsSeq

LEMMA FinalTuples ==
  ASSUME NEW e, NEW f, NEW g, e.type \in Endings, f.type = "usage", g.type = "done"
  PROVE  /\ IsSeq(<<e>>) /\ Final(request.usage, <<e>>)
         /\ IsSeq(<<e, g>>) /\ Final(request.usage, <<e, g>>)
         /\ IsSeq(<<e, f, g>>)
         /\ e.type = "completed" /\ request.usage => Final(request.usage, <<e, f, g>>)
<1>1. <<e>> \in Seq({e, f, g}) /\ <<e, g>> \in Seq({e, f, g}) /\ <<e, f, g>> \in Seq({e, f, g})
  OBVIOUS
<1>2. /\ Len(<<e>>) = 1 /\ Len(<<e, g>>) = 2 /\ Len(<<e, f, g>>) = 3
      /\ <<e>>[1] = e
      /\ <<e, g>>[1] = e /\ <<e, g>>[2] = g
      /\ <<e, f, g>>[1] = e /\ <<e, f, g>>[2] = f /\ <<e, f, g>>[3] = g
  OBVIOUS
<1>3. ASSUME NEW s, s[1] = e, Len(s) \in Nat \ {0}, Behind(request.usage, s, 1)
      PROVE  Final(request.usage, s)
  <2>1. 1 \in 1..Len(s) /\ 1..(1 - 1) = {} BY <1>3
  <2> QED BY <1>3, <2>1 DEF Final
<1>4. Behind(request.usage, <<e>>, 1) /\ Behind(request.usage, <<e, g>>, 1)
  BY <1>2 DEF Behind
<1>5. e.type = "completed" /\ request.usage => Behind(request.usage, <<e, f, g>>, 1)
  <2>1. 1 + 2 = 3 /\ 1 + 1 = 2 OBVIOUS
  <2> QED BY <1>2, <2>1 DEF Behind
<1>6. IsSeq(<<e>>) /\ IsSeq(<<e, g>>) /\ IsSeq(<<e, f, g>>) BY <1>1 DEF IsSeq
<1>7. Final(request.usage, <<e>>) BY <1>2, <1>3, <1>4
<1>8. Final(request.usage, <<e, g>>) BY <1>2, <1>3, <1>4
<1>9. Behind(request.usage, <<e, f, g>>, 1) => Final(request.usage, <<e, f, g>>)
  BY <1>2, <1>3
<1> QED BY <1>5, <1>6, <1>7, <1>8, <1>9

LEMMA PushedIs ==
  ASSUME NEW p, NEW es, Encoder(p), IsSeq(es)
  PROVE  /\ Encoder(Pushed(p, es))
         /\ Pushed(p, es).queue = p.queue \o es
         /\ Pushed(p, es).terminal = p.terminal
<1>1. /\ Pushed(p, es).queue = p.queue \o es
      /\ Pushed(p, es).terminal = p.terminal
      /\ DOMAIN Pushed(p, es) = DOMAIN p
  BY DEF Pushed, Encoder
<1> QED BY <1>1, ConcatIs DEF Encoder

LEMMA PushesPlain ==
  ASSUME NEW p, NEW es, Encoded(p), ~p.terminal, IsSeq(es), Plain(es)
  PROVE  Encoded(Pushed(p, es)) /\ ~Pushed(p, es).terminal
  BY PushedIs, PlainConcat DEF Encoded, Encoder

LEMMA PushesFinal ==
  ASSUME NEW p, NEW es, Encoded(p), ~p.terminal, IsSeq(es), Final(request.usage, es),
         NEW q, q = Terminated(p, es)
  PROVE  Encoded(q) /\ q.terminal
<1>1. q.queue = Pushed(p, es).queue /\ q.terminal = TRUE /\ DOMAIN q = DOMAIN Pushed(p, es)
  BY PushedIs DEF Encoder, Encoded, Terminated
<1>2. Encoder(q) BY <1>1, PushedIs DEF Encoded, Encoder
<1>3. Final(request.usage, p.queue \o es) BY FinalConcat DEF Encoded, Encoder
<1>4. q.queue = p.queue \o es BY <1>1, PushedIs DEF Encoded
<1> QED BY <1>1, <1>2, <1>3, <1>4 DEF Encoded

LEMMA BesidesEncoded ==
  ASSUME NEW p, Encoded(p),
         NEW r, r.queue = p.queue, r.terminal = p.terminal, DOMAIN r = DOMAIN p
  PROVE  Encoded(r) /\ r.terminal = p.terminal
  BY DEF Encoded, Encoder

\* ensure_text_started and the delta.
LEMMA TextSound ==
  ASSUME NEW p, NEW text, Encoded(p), ~p.terminal
  PROVE  Encoded(ResponsesText(p, text)) /\ ~ResponsesText(p, text).terminal
<1>1. PICK e, f : /\ e = Event("message_added", p.next, <<>>)
                  /\ f = Event("part_added", p.next, <<>>)
  OBVIOUS
<1>2. PICK pushed : pushed = Pushed(p, <<e, f>>) OBVIOUS
<1>3. PICK opened : opened = [pushed EXCEPT !.textAt = <<p.next>>, !.next = @ + 1] OBVIOUS
<1>4. PICK q : q = IF p.textAt = <<>> THEN opened ELSE p OBVIOUS
<1>5. PICK g : g = Event("text_delta", q.textAt[1], text) OBVIOUS
<1>6. PICK said : said = Pushed(q, <<g>>) OBVIOUS
<1>7. PICK r : r = [said EXCEPT !.text = @ \o text] OBVIOUS
<1>8. ResponsesText(p, text) = r
  BY <1>1, <1>2, <1>3, <1>4, <1>5, <1>6, <1>7 DEF ResponsesText
<1>9. e.type \notin Lasts /\ f.type \notin Lasts /\ g.type \notin Lasts
  BY <1>1, <1>5 DEF Event, Lasts, Endings
<1>10. Encoded(pushed) /\ ~pushed.terminal
  BY <1>2, <1>9, PlainTuples, PushesPlain
<1>11. Encoded(opened) /\ ~opened.terminal
  <2>1. opened.queue = pushed.queue /\ opened.terminal = pushed.terminal
        /\ DOMAIN opened = DOMAIN pushed
    BY <1>3, <1>10 DEF Encoded, Encoder
  <2> QED BY <1>10, <2>1, BesidesEncoded
<1>12. Encoded(said) /\ ~said.terminal
  BY <1>4, <1>6, <1>9, <1>11, PlainTuples, PushesPlain
<1>13. r.queue = said.queue /\ r.terminal = said.terminal /\ DOMAIN r = DOMAIN said
  BY <1>7, <1>12 DEF Encoded, Encoder
<1> QED BY <1>8, <1>12, <1>13, BesidesEncoded

\* push_tool_delta.
LEMMA ToolSound ==
  ASSUME NEW p, NEW t, Encoded(p), ~p.terminal
  PROVE  Encoded(ResponsesTool(p, t)) /\ ~ResponsesTool(p, t).terminal
<1>1. PICK c : c = p.calls[t.index] OBVIOUS
<1>2. PICK header : header = IF t.header = NoHeader THEN c.header ELSE t.header OBVIOUS
<1>3. PICK at : at = IF c.seen THEN c.at ELSE p.next OBVIOUS
<1>4. PICK adds : adds = (~c.added /\ header # NoHeader) OBVIOUS
<1>5. PICK e, f : e = Event("call_added", at, header) /\ f = Event("args_delta", at, t.args)
  OBVIOUS
<1>6. PICK es, fs : /\ es = IF adds THEN <<e>> ELSE <<>>
                    /\ fs = IF t.args # <<>> THEN <<f>> ELSE <<>>
  OBVIOUS
<1>7. PICK said : said = Pushed(p, es \o fs) OBVIOUS
<1>8. PICK r : r = [said EXCEPT !.next = IF c.seen THEN @ ELSE @ + 1,
                                !.calls[t.index] = [seen |-> TRUE, header |-> header,
                                                    args |-> c.args \o t.args, at |-> at,
                                                    added |-> c.added \/ adds]]
  OBVIOUS
<1>9. ResponsesTool(p, t) = r
  BY <1>1, <1>2, <1>3, <1>4, <1>5, <1>6, <1>7, <1>8 DEF ResponsesTool
<1>10. e.type \notin Lasts /\ f.type \notin Lasts
  BY <1>5 DEF Event, Lasts, Endings
<1>11. IsSeq(es) /\ Plain(es) /\ IsSeq(fs) /\ Plain(fs)
  BY <1>6, <1>10, PlainTuples
<1>12. Encoded(said) /\ ~said.terminal
  BY <1>7, <1>11, ConcatIs, PlainConcat, PushesPlain
<1>13. r.queue = said.queue /\ r.terminal = said.terminal /\ DOMAIN r = DOMAIN said
  BY <1>8, <1>12 DEF Encoded, Encoder
<1> QED BY <1>9, <1>12, <1>13, BesidesEncoded

\* complete(): what it closes is no ending, and the ending is last.
LEMMA CompleteSound ==
  ASSUME NEW p, NEW reason, Encoded(p), ~p.terminal,
         NEW q, q = [ResponsesComplete(p, reason) EXCEPT !.terminal = TRUE]
  PROVE  Encoded(q) /\ q.terminal
<1>1. PICK e, f, g, end :
        /\ e = Event("text_done", p.textAt[1], p.text)
        /\ f = Event("part_done", p.textAt[1], p.text)
        /\ g = Event("message_done", p.textAt[1], p.text)
        /\ end = Event(IF reason = "length" THEN "incomplete" ELSE "completed", 0, reason)
  OBVIOUS
<1>2. PICK message : message = IF p.textAt = <<>> THEN <<>> ELSE <<e, f, g>> OBVIOUS
<1>3. PICK seen : seen = {i \in Indexes : p.calls[i].seen} OBVIOUS
<1>4. PICK closed :
        closed = [k \in 1..(2 * Cardinality(seen)) |->
                    LET i == Nth(seen, (k + 1) \div 2)
                    IN  IF k % 2 = 1 THEN Event("args_done", p.calls[i].at, p.calls[i].args)
                        ELSE Event("call_done", p.calls[i].at,
                                   [index |-> i, header |-> p.calls[i].header,
                                    args |-> p.calls[i].args])]
  OBVIOUS
<1>5. ResponsesComplete(p, reason) = Pushed(p, message \o closed \o <<end>>)
  BY <1>1, <1>2, <1>3, <1>4 DEF ResponsesComplete
<1>6. /\ e.type \notin Lasts /\ f.type \notin Lasts /\ g.type \notin Lasts
      /\ end.type \in Endings
  BY <1>1 DEF Event, Lasts, Endings
<1>7. IsSeq(message) /\ Plain(message)
  BY <1>2, <1>6, PlainTuples
<1>8. PICK n \in Nat : n = 2 * Cardinality(seen)
  <2>1. seen \subseteq Indexes /\ IsFiniteSet(Indexes) BY <1>3, StreamAssumption
  <2>2. IsFiniteSet(seen) BY <2>1, FS_Subset
  <2>3. Cardinality(seen) \in Nat BY <2>2, FS_CardinalityType
  <2> QED BY <2>3
<1>9. IsSeq(closed) /\ Plain(closed)
  <2>1. ASSUME NEW k \in 1..n PROVE closed[k].type \notin Lasts
    BY <1>4, <1>8 DEF Event, Lasts, Endings
  <2>2. closed \in [1..n -> {closed[k] : k \in 1..n}] BY <1>4, <1>8
  <2>3. closed \in Seq({closed[k] : k \in 1..n}) BY <2>2
  <2>4. Len(closed) = n BY <2>2
  <2> QED BY <2>1, <2>3, <2>4 DEF IsSeq, Plain
<1>10. IsSeq(<<end>>) /\ Final(request.usage, <<end>>)
  <2>1. PICK usage, done : usage = Event("usage", 0, <<>>) /\ done = Event("done", 0, <<>>)
    OBVIOUS
  <2>2. usage.type = "usage" /\ done.type = "done" BY <2>1, EventType
  <2> QED BY <1>6, <2>2, FinalTuples
<1>11. PICK es : es = message \o closed \o <<end>> OBVIOUS
<1>12. IsSeq(es) /\ Final(request.usage, es)
  BY <1>7, <1>9, <1>10, <1>11, ConcatIs, PlainConcat, FinalConcat
<1> QED BY <1>5, <1>11, <1>12, PushesFinal DEF Terminated

\* Whatever the event is, the encoder answers it with events that are no
\* ending, or with one ending after which it asks for nothing; an ending of the
\* decoder is one for the client too.
Answers(q, e) ==
  /\ Encoded(q)
  /\ e.type \in {"completed", "failed"} => q.terminal

LEMMA ResponsesSound ==
  ASSUME NEW p, NEW e, Encoded(p), ~p.terminal
  PROVE  Answers(Responses(p, e), e)
<1>1. CASE e.type = "text"
  BY <1>1, TextSound DEF Responses, Answers
<1>2. CASE e.type = "tool"
  BY <1>2, ToolSound DEF Responses, Answers
<1>3. CASE e.type = "completed"
  BY <1>3, CompleteSound DEF Responses, Answers
<1>4. CASE e.type = "failed"
  <2>1. PICK es : es = <<Event("failed", 0, "none")>> OBVIOUS
  <2>2. IsSeq(es) /\ Final(request.usage, es)
    <3>1. PICK f, usage, done : /\ f = Event("failed", 0, "none") /\ done = Event("done", 0, <<>>)
                                /\ usage = Event("usage", 0, <<>>)
      OBVIOUS
    <3>2. f.type \in Endings /\ usage.type = "usage" /\ done.type = "done"
      BY <3>1 DEF Event, Endings
    <3> QED BY <2>1, <3>1, <3>2, FinalTuples
  <2>3. Responses(p, e) = Terminated(p, es)
    BY <1>4, <2>1 DEF Responses
  <2> QED BY <2>2, <2>3, PushesFinal DEF Answers
<1>5. CASE e.type \notin {"text", "tool", "completed", "failed"}
  BY <1>5 DEF Responses, Answers
<1> QED BY <1>1, <1>2, <1>3, <1>4, <1>5

\* A success or the error of Chat and Completions is an ending.
LEMMA SucceedingIs ==
  ASSUME NEW x, NEW c, c = Event("completed", 0, x.finish),
         NEW u, u = Event("usage", 0, <<>>), NEW d, d = Event("done", 0, <<>>)
  PROVE  Succeeding(x) = <<c, d>> \/ (request.usage /\ Succeeding(x) = <<c, u, d>>)
  BY DEF Succeeding

LEMMA TerminatedSound ==
  ASSUME NEW p, Encoded(p), ~p.terminal
  PROVE  /\ \A x : Encoded(Terminated(p, Succeeding(x))) /\ Terminated(p, Succeeding(x)).terminal
         /\ Encoded(Terminated(p, Failing)) /\ Terminated(p, Failing).terminal
<1>1. PICK u, d : u = Event("usage", 0, <<>>) /\ d = Event("done", 0, <<>>) OBVIOUS
<1>2. u.type = "usage" /\ d.type = "done" BY <1>1, EventType
<1>3. ASSUME NEW x PROVE Encoded(Terminated(p, Succeeding(x))) /\ Terminated(p, Succeeding(x)).terminal
  <2>1. PICK c : c = Event("completed", 0, x.finish) OBVIOUS
  <2>2. c.type = "completed" /\ c.type \in Endings BY <2>1, EventType DEF Endings
  <2>3. Succeeding(x) = <<c, d>> \/ (request.usage /\ Succeeding(x) = <<c, u, d>>)
    BY <1>1, <2>1, SucceedingIs
  <2>4. IsSeq(Succeeding(x)) /\ Final(request.usage, Succeeding(x))
    BY <1>2, <2>2, <2>3, FinalTuples
  <2> QED BY <2>4, PushesFinal
<1>4. Encoded(Terminated(p, Failing)) /\ Terminated(p, Failing).terminal
  <2>1. PICK c : c = Event("failed", 0, "none") OBVIOUS
  <2>2. c.type \in Endings BY <2>1, EventType DEF Endings
  <2>3. Failing = <<c, d>> BY <1>1, <2>1 DEF Failing
  <2>4. IsSeq(Failing) /\ Final(request.usage, Failing) BY <1>2, <2>2, <2>3, FinalTuples
  <2> QED BY <2>4, PushesFinal
<1> QED BY <1>3, <1>4

LEMMA ChatSound ==
  ASSUME NEW p, NEW e, Encoded(p), ~p.terminal
  PROVE  Answers(Chat(p, e), e)
<1>1. ASSUME NEW type, NEW at, NEW body, type \notin Lasts
      PROVE  Encoded(Pushed(p, <<Event(type, at, body)>>))
  <2>1. PICK f : f = Event(type, at, body) OBVIOUS
  <2>2. f.type \notin Lasts BY <1>1, <2>1 DEF Event
  <2> QED BY <2>1, <2>2, PlainTuples, PushesPlain
<1>2. "text_delta" \notin Lasts /\ "thought" \notin Lasts /\ "tool_delta" \notin Lasts
  BY DEF Lasts, Endings
<1>3. CASE e.type = "text"
  BY <1>1, <1>2, <1>3 DEF Chat, Answers
<1>4. CASE e.type = "thought" /\ request.thoughts
  BY <1>1, <1>2, <1>4 DEF Chat, Answers
<1>5. CASE e.type = "tool"
  BY <1>1, <1>2, <1>5 DEF Chat, Answers
<1>6. CASE e.type \in {"completed", "failed"}
  BY <1>6, TerminatedSound DEF Chat, Answers
<1>7. CASE /\ e.type \notin {"text", "tool", "completed", "failed"}
           /\ ~(e.type = "thought" /\ request.thoughts)
  BY <1>7 DEF Chat, Answers
<1> QED BY <1>3, <1>4, <1>5, <1>6, <1>7

LEMMA CompletionsSound ==
  ASSUME NEW p, NEW e, Encoded(p), ~p.terminal
  PROVE  Answers(Completions(p, e), e)
<1>1. CASE e.type = "text"
  <2>1. PICK f : f = Event("text_delta", 0, e.text) OBVIOUS
  <2>2. f.type \notin Lasts BY <2>1 DEF Event, Lasts, Endings
  <2>3. Completions(p, e) = Pushed(p, <<f>>) BY <1>1, <2>1 DEF Completions
  <2> QED BY <1>1, <2>2, <2>3, PlainTuples, PushesPlain DEF Answers
<1>2. CASE e.type \in {"thought", "thought_ends"}
  BY <1>2 DEF Completions, Answers
<1>3. CASE e.type \notin {"text", "thought", "thought_ends"}
  BY <1>3, TerminatedSound DEF Completions, Answers
<1> QED BY <1>1, <1>2, <1>3

LEMMA EncodeSound ==
  ASSUME request \in Requests, NEW p, NEW e, Encoded(p), ~p.terminal
  PROVE  Answers(Encode(p, e), e)
<1>1. request.api \in Apis BY StreamAssumption
<1>2. CASE request.api = "responses" BY <1>2, ResponsesSound DEF Encode
<1>3. CASE request.api = "chat" BY <1>3, ChatSound DEF Encode
<1>4. CASE request.api = "completions" BY <1>4, CompletionsSound DEF Encode
<1> QED BY <1>1, <1>2, <1>3, <1>4 DEF Apis

LEMMA OpeningPlain ==
  ASSUME request \in Requests
  PROVE  IsSeq(Opening) /\ Plain(Opening)
<1>1. request.api \in Apis BY StreamAssumption
<1>2. PICK e, f, g : /\ e = Event("created", 0, <<>>) /\ f = Event("in_progress", 0, <<>>)
                     /\ g = Event("role", 0, <<>>)
  OBVIOUS
<1>3. e.type \notin Lasts /\ f.type \notin Lasts /\ g.type \notin Lasts
  BY <1>2 DEF Event, Lasts, Endings
<1>4. /\ IsSeq(<<>>) /\ Plain(<<>>) /\ IsSeq(<<g>>) /\ Plain(<<g>>)
      /\ IsSeq(<<e, f>>) /\ Plain(<<e, f>>)
  BY <1>3, PlainTuples
<1>5. Opening \in {<<>>, <<g>>, <<e, f>>} BY <1>1, <1>2 DEF Opening, Apis
<1> QED BY <1>4, <1>5

-----------------------------------------------------------------------------
(* The chain.                                                              *)

\* EndsOnce, of the events that are on their way too.
EndInv ==
  /\ request \in Requests
  /\ IsSeq(got)
  /\ Encoder(pub)
  /\ pub.terminal => Final(request.usage, got \o pub.queue)
  /\ ~pub.terminal => Plain(got \o pub.queue)
  /\ client \in {"waiting", "reading", "refused", "ended", "gone"}
  /\ client = "waiting" => ~pub.terminal
  /\ client \in {"waiting", "reading"} /\ ~pub.terminal => lease # "released"
  /\ client \in {"refused", "ended", "gone"} => lease = "released"
  /\ client = "ended" => pub.terminal /\ pub.queue = <<>>

LEMMA InitEnd == Init => EndInv
<1> SUFFICES ASSUME Init PROVE EndInv OBVIOUS
<1>1. /\ pub.queue = <<>> /\ pub.terminal = FALSE /\ "queue" \in DOMAIN pub
      /\ "terminal" \in DOMAIN pub
  BY DEF Init
<1>2. PICK e : e = Event("role", 0, <<>>) OBVIOUS
<1>3. e.type \notin Lasts BY <1>2 DEF Event, Lasts, Endings
<1>4. IsSeq(<<>>) /\ Plain(<<>>) BY <1>3, PlainTuples
<1>5. <<>> \o <<>> = <<>> BY <1>4, ConcatEmpty
<1> QED BY <1>1, <1>4, <1>5 DEF Init, EndInv, Encoder

LEMMA NextEnd ==
  ASSUME EndInv, [Next]_vars
  PROVE  EndInv'
<1>1. CASE UNCHANGED <<request, got, pub, client, lease>>
  BY <1>1 DEF EndInv, Encoder, IsSeq, Plain, Final, Behind
<1>2. CASE Opens
  <2>1. ~pub.terminal /\ pub' = Pushed(pub, Opening) BY <1>2 DEF Opens, EndInv
  <2>2. IsSeq(Opening) /\ Plain(Opening) BY OpeningPlain DEF EndInv
  <2>3. Encoder(pub') /\ pub'.queue = pub.queue \o Opening /\ pub'.terminal = pub.terminal
    BY <2>1, <2>2, PushedIs DEF EndInv
  <2>4. Plain((got \o pub.queue) \o Opening)
    BY <2>1, <2>2, ConcatIs, PlainConcat DEF EndInv, Encoder
  <2>5. (got \o pub.queue) \o Opening = got \o pub'.queue
    BY <2>2, <2>3, ConcatAssoc DEF EndInv, Encoder
  <2> QED BY <1>2, <2>1, <2>3, <2>4, <2>5 DEF Opens, EndInv, Encoder
<1>3. CASE OpenFails \/ Leaves
  BY <1>3 DEF OpenFails, Leaves, EndInv, Encoder
<1>4. CASE Receive \/ SourceFails \/ Stopped
  BY <1>1, <1>4 DEF Receive, SourceFails, Stopped, vars
<1>5. CASE Take
  <2>1. PICK e : e = Checked(Head(dec.queued)) OBVIOUS
  <2>2. /\ pub.queue = <<>> /\ ~pub.terminal /\ client = "reading"
        /\ lease' = LeaseAfter(e) /\ pub' = Encode(pub, e)
        /\ UNCHANGED <<request, got, client>>
    BY <1>5, <2>1 DEF Take
  <2>3. got \o pub.queue = got /\ Plain(got) BY <2>2, ConcatEmpty DEF EndInv
  <2>4. Encoded(pub) BY <2>2, PlainEmpty DEF EndInv, Encoded
  <2>5. Answers(pub', e) BY <2>2, <2>4, EncodeSound DEF EndInv
  <2>6. Encoder(pub') /\ IsSeq(got) /\ IsSeq(pub'.queue)
    BY <2>5 DEF Answers, Encoded, Encoder, EndInv
  <2>7. CASE pub'.terminal
    <3>1. Final(request.usage, got \o pub'.queue)
      BY <2>3, <2>5, <2>6, <2>7, FinalConcat DEF Answers, Encoded
    <3> QED BY <2>2, <2>6, <2>7, <3>1 DEF EndInv, Encoder
  <2>8. CASE ~pub'.terminal
    <3>1. Plain(got \o pub'.queue)
      BY <2>3, <2>5, <2>6, <2>8, PlainConcat DEF Answers, Encoded
    <3>2. lease' # "released"
      BY <2>2, <2>5, <2>8 DEF Answers, LeaseAfter, EndInv
    <3> QED BY <2>2, <2>6, <2>8, <3>1, <3>2 DEF EndInv, Encoder
  <2> QED BY <2>7, <2>8
<1>6. CASE Deliver
  <2>1. /\ pub.queue # <<>> /\ client = "reading" /\ got' = Append(got, Head(pub.queue))
        /\ UNCHANGED <<request, lease, client>>
    BY <1>6 DEF Deliver
  <2>2. /\ pub'.queue = Tail(pub.queue) /\ pub'.terminal = pub.terminal
        /\ DOMAIN pub' = DOMAIN pub
    BY <1>6 DEF Deliver, EndInv, Encoder
  <2>3. /\ IsSeq(got') /\ IsSeq(pub'.queue) /\ got' \o pub'.queue = got \o pub.queue
    BY <2>1, <2>2, Read DEF EndInv, Encoder
  <2> QED BY <2>1, <2>2, <2>3 DEF EndInv, Encoder
<1>7. CASE Ends
  BY <1>7 DEF Ends, EndInv, Encoder
<1> QED BY <1>1, <1>2, <1>3, <1>4, <1>5, <1>6, <1>7 DEF Next, vars

(* For any engines, frames, API and structured answer: a stream has one ending,
   and nothing but [DONE] follows it and, between the two, one usage chunk of a
   success whose client asked for it; a stream that ran to its end has an ending;
   and the inference lease is held until one is on its way. *)
THEOREM EndingIsUnique == Spec => []EndsOnce
<1>1. EndInv => EndsOnce
  <2> SUFFICES ASSUME EndInv PROVE EndsOnce OBVIOUS
  <2> DEFINE all == got \o pub.queue
             ends == {i \in 1..Len(got) : got[i].type \in Endings}
  <2>1. /\ Len(got) \in Nat /\ Len(all) = Len(got) + Len(pub.queue) /\ Len(pub.queue) \in Nat
        /\ \A i \in 1..Len(got) : all[i] = got[i]
    BY ConcatIs DEF EndInv, Encoder
  <2>2. CASE pub.terminal
    <3>1. PICK n \in 1..Len(all) :
            /\ \A i \in 1..(n - 1) : all[i].type \notin Lasts
            /\ all[n].type \in Endings
            /\ Behind(request.usage, all, n)
      BY <2>2 DEF EndInv, Final
    <3> HIDE DEF all
    <3>2. "done" \notin Endings /\ "usage" \notin Endings /\ Endings \subseteq Lasts
      BY DEF Endings, Lasts
    <3>3. ASSUME NEW i \in 1..Len(got), got[i].type \in Endings PROVE i = n
      <4>1. i \in 1..Len(all) /\ all[i].type \in Endings BY <2>1, <3>3
      <4>2. ~(i \in 1..(n - 1)) BY <3>1, <3>2, <4>1
      <4>3. i \notin (n + 1)..Len(all)
        <5>1. \A j \in (n + 1)..Len(all) : all[j].type \in {"usage", "done"}
          <6> TAKE j \in (n + 1)..Len(all)
          <6>1. j = n + 1 \/ j = n + 2 BY <2>1, <3>1 DEF Behind
          <6> QED BY <2>1, <3>1, <6>1 DEF Behind
        <5> QED BY <3>2, <4>1, <5>1
      <4> QED BY <2>1, <3>1, <4>1, <4>2, <4>3
    <3>4. ASSUME NEW j \in (n + 1)..Len(got)
          PROVE  \/ got[j].type = "done" /\ (j = n + 1 \/ (j = n + 2 /\ got[n + 1].type = "usage"))
                 \/ /\ got[j].type = "usage" /\ j = n + 1
                    /\ got[n].type = "completed" /\ request.usage
      <4>1. /\ j \in 1..Len(got) /\ n \in 1..Len(got) /\ n + 1 \in 1..Len(got) /\ n # Len(all)
            /\ j \in {n + 1, n + 2}
        BY <2>1, <3>1, <3>4 DEF Behind
      <4>2. all[j] = got[j] /\ all[n] = got[n] /\ all[n + 1] = got[n + 1] BY <2>1, <4>1
      <4> QED BY <2>1, <3>1, <4>1, <4>2, SMTT(30) DEF Behind
    <3>5. client = "ended" => n \in ends
      <4> SUFFICES ASSUME client = "ended" PROVE n \in ends OBVIOUS
      <4>1. pub.queue = <<>> BY DEF EndInv
      <4>2. all = got BY <4>1, ConcatEmpty DEF all, EndInv
      <4> QED BY <3>1, <4>2
    <3> QED BY <2>2, <3>3, <3>4, <3>5 DEF EndsOnce, EndInv
  <2>3. CASE ~pub.terminal
    <3>1. ends = {} BY <2>1, <2>3 DEF EndInv, Plain, Lasts
    <3> QED BY <2>3, <3>1 DEF EndsOnce, EndInv
  <2> QED BY <2>2, <2>3
<1> QED BY <1>1, InitEnd, NextEnd, PTL DEF Spec

-----------------------------------------------------------------------------
(* Induction over the natural numbers.                                     *)

\* The natural numbers are well-ordered, hence an inductive set is all of them.
LEMMA LeastNatural ==
  ASSUME NEW T, T \subseteq Nat, T # {}
  PROVE  \E n \in T : \A m \in T : n <= m
<1>1. \E n \in T : \A m \in T : ~(<<m, n>> \in OpToRel(<, Nat))
  BY NatLessThanWellFounded, WFMin
<1>2. PICK n \in T : \A m \in T : ~(<<m, n>> \in OpToRel(<, Nat))
  BY <1>1
<1>3. \A m \in T : ~(m < n)
  BY <1>2 DEF OpToRel
<1> QED BY <1>3

LEMMA SetInduction ==
  ASSUME NEW T, T \subseteq Nat, 0 \in T, \A n \in T : n + 1 \in T
  PROVE  T = Nat
<1> SUFFICES ASSUME T # Nat PROVE FALSE
  OBVIOUS
<1>1. PICK n \in Nat \ T : \A m \in Nat \ T : n <= m
  BY LeastNatural
<1>2. n - 1 \in Nat \ T
  BY <1>1
<1> QED BY <1>1, <1>2

-----------------------------------------------------------------------------
(* Sequences of sequences.                                                 *)

\* The recursion of FlattenSeq, over the first n sequences.
Flattening(f, ss, n) == f = [i \in 1..n |-> IF i = 1 THEN ss[i] ELSE f[i-1] \o ss[i]]

LEMMA FlatteningStep ==
  ASSUME NEW ss, NEW n \in Nat, NEW f, Flattening(f, ss, n),
         NEW v, v = IF n = 0 THEN ss[1] ELSE f[n] \o ss[n + 1],
         NEW g, g = [i \in 1..(n + 1) |-> IF i = n + 1 THEN v ELSE f[i]]
  PROVE  Flattening(g, ss, n + 1)
<1>1. \A i \in 1..n : f[i] = IF i = 1 THEN ss[i] ELSE f[i-1] \o ss[i]
  BY DEF Flattening
<1>2. /\ \A i \in 1..n : g[i] = f[i]
      /\ \A i \in 2..n : g[i-1] = f[i-1]
      /\ g[n + 1] = v
  <2>1. \A i \in 1..(n + 1) : g[i] = IF i = n + 1 THEN v ELSE f[i]
    OBVIOUS
  <2>2. \A i \in 1..n : i \in 1..(n + 1) /\ i # n + 1
    OBVIOUS
  <2>3. \A i \in 2..n : i - 1 \in 1..n
    OBVIOUS
  <2>4. n + 1 \in 1..(n + 1)
    OBVIOUS
  <2> QED BY <2>1, <2>2, <2>3, <2>4
<1>3. ASSUME NEW i \in 1..(n + 1)
      PROVE  g[i] = IF i = 1 THEN ss[i] ELSE g[i-1] \o ss[i]
  <2>1. CASE i = n + 1 /\ n = 0
    BY <1>2, <2>1
  <2>2. CASE i = n + 1 /\ n # 0
    <3>1. n \in 1..n /\ i - 1 = n /\ i # 1
      BY <2>2
    <3> QED BY <1>2, <2>2, <3>1
  <2>3. CASE i = 1 /\ n # 0
    BY <1>1, <1>2, <2>3
  <2>4. CASE i \in 2..n
    BY <1>1, <1>2, <2>4
  <2> QED BY <2>1, <2>2, <2>3, <2>4
<1> QED BY <1>3 DEF Flattening

LEMMA FlatteningExists ==
  ASSUME NEW ss, NEW N \in Nat
  PROVE  \E f : Flattening(f, ss, N)
<1> DEFINE T == {n \in Nat : \E f : Flattening(f, ss, n)}
<1>1. 0 \in T
  <2>1. PICK f : f = [i \in 1..0 |-> <<>>]
    OBVIOUS
  <2>2. Flattening(f, ss, 0)
    BY <2>1 DEF Flattening
  <2> QED BY <2>2
<1>2. ASSUME NEW n \in T PROVE n + 1 \in T
  <2>1. PICK f : Flattening(f, ss, n)
    OBVIOUS
  <2>2. PICK v : v = IF n = 0 THEN ss[1] ELSE f[n] \o ss[n + 1]
    OBVIOUS
  <2>3. PICK g : g = [i \in 1..(n + 1) |-> IF i = n + 1 THEN v ELSE f[i]]
    OBVIOUS
  <2>4. Flattening(g, ss, n + 1)
    BY <2>1, <2>2, <2>3, FlatteningStep
  <2> QED BY <2>4
<1>3. T = Nat
  <2> HIDE DEF T
  <2> QED BY <1>1, <1>2, SetInduction DEF T
<1> QED BY <1>3

\* The recursion only looks at the sequences before.
LEMMA FlatteningAgrees ==
  ASSUME NEW ss, NEW tt, NEW m \in Nat, NEW n \in Nat, m <= n,
         \A i \in 1..m : ss[i] = tt[i],
         NEW f, Flattening(f, ss, m), NEW g, Flattening(g, tt, n)
  PROVE  \A i \in 1..m : f[i] = g[i]
<1> DEFINE T == {k \in Nat : k \in 1..m => f[k] = g[k]}
<1>1. 0 \in T
  OBVIOUS
<1>2. ASSUME NEW k \in T PROVE k + 1 \in T
  <2> SUFFICES ASSUME k + 1 \in 1..m PROVE f[k + 1] = g[k + 1]
    OBVIOUS
  <2>1. PICK j : j = k + 1
    OBVIOUS
  <2>2. /\ j \in 1..m /\ j \in 1..n /\ j - 1 = k
    BY <2>1
  <2>3. f[j] = IF j = 1 THEN ss[j] ELSE f[j-1] \o ss[j]
    BY <2>2 DEF Flattening
  <2>4. g[j] = IF j = 1 THEN tt[j] ELSE g[j-1] \o tt[j]
    BY <2>2 DEF Flattening
  <2>5. CASE j = 1
    BY <2>1, <2>2, <2>3, <2>4, <2>5
  <2>6. CASE j # 1
    <3>1. k \in 1..m /\ f[k] = g[k]
      BY <2>1, <2>2, <2>6
    <3> QED BY <2>1, <2>2, <2>3, <2>4, <2>6, <3>1
  <2> QED BY <2>5, <2>6
<1>3. T = Nat
  <2> HIDE DEF T
  <2> QED BY <1>1, <1>2, SetInduction DEF T
<1> QED BY <1>3

\* Flattening up to the last sequence.
LEMMA FlattenIs ==
  ASSUME NEW ss, Len(ss) \in Nat, Len(ss) # 0
  PROVE  \E f : Flattening(f, ss, Len(ss)) /\ FlattenSeq(ss) = f[Len(ss)]
<1>1. FlattenSeq(ss) = (CHOOSE f : Flattening(f, ss, Len(ss)))[Len(ss)]
  BY DEF FlattenSeq, Flattening
<1> QED BY <1>1, FlatteningExists

LEMMA FlattenEmpty == FlattenSeq(<<>>) = <<>>
  BY DEF FlattenSeq

LEMMA FlattenOneMore ==
  ASSUME NEW ss, NEW tt, NEW n \in Nat, Len(ss) = n, Len(tt) = n + 1,
         \A i \in 1..n : ss[i] = tt[i]
  PROVE  FlattenSeq(tt) = IF n = 0 THEN tt[1] ELSE FlattenSeq(ss) \o tt[n + 1]
<1>1. n + 1 \in Nat /\ n + 1 # 0 /\ n <= n + 1
  OBVIOUS
<1>2. PICK g : Flattening(g, tt, n + 1) /\ FlattenSeq(tt) = g[n + 1]
  BY <1>1, FlattenIs
<1>3. g[n + 1] = IF n + 1 = 1 THEN tt[n + 1] ELSE g[(n + 1) - 1] \o tt[n + 1]
  <2>1. n + 1 \in 1..(n + 1)
    OBVIOUS
  <2> QED BY <1>2, <2>1 DEF Flattening
<1>4. CASE n = 0
  BY <1>2, <1>3, <1>4
<1>5. CASE n # 0
  <2>1. PICK f : Flattening(f, ss, n) /\ FlattenSeq(ss) = f[n]
    BY <1>5, FlattenIs
  <2>2. \A i \in 1..n : f[i] = g[i]
    BY <1>1, <1>2, <2>1, FlatteningAgrees, SMTT(60)
  <2>3. n \in 1..n /\ (n + 1) - 1 = n /\ n + 1 # 1
    BY <1>5
  <2> QED BY <1>2, <1>3, <1>5, <2>1, <2>2, <2>3
<1> QED BY <1>4, <1>5

LEMMA EmptyIs ==
  ASSUME NEW S, NEW s \in Seq(S), Len(s) = 0
  PROVE  s = <<>>
  OBVIOUS

\* One more sequence.
LEMMA FlattenNext ==
  ASSUME NEW S, NEW ss \in Seq(Seq(S)), NEW tt \in Seq(Seq(S)), Len(tt) = Len(ss) + 1,
         \A i \in 1..Len(ss) : tt[i] = ss[i]
  PROVE  FlattenSeq(tt) = FlattenSeq(ss) \o tt[Len(tt)]
<1>1. PICK n \in Nat : n = Len(ss)
  OBVIOUS
<1>2. PICK last \in Seq(S) : last = tt[n + 1]
  <2>1. n + 1 \in 1..Len(tt)
    BY <1>1
  <2> QED BY <2>1
<1>3. \A i \in 1..n : ss[i] = tt[i]
  BY <1>1
<1>4. FlattenSeq(tt) = IF n = 0 THEN tt[1] ELSE FlattenSeq(ss) \o tt[n + 1]
  BY <1>1, <1>3, FlattenOneMore
<1>5. CASE n = 0
  <2>1. ss = <<>>
    BY <1>1, <1>5, EmptyIs
  <2>2. FlattenSeq(ss) = <<>>
    BY <2>1, FlattenEmpty
  <2>3. <<>> \o last = last
    OBVIOUS
  <2>4. FlattenSeq(tt) = last
    BY <1>2, <1>4, <1>5
  <2> QED BY <1>1, <1>2, <2>2, <2>3, <2>4
<1>6. CASE n # 0
  BY <1>1, <1>4, <1>6
<1> QED BY <1>5, <1>6

-----------------------------------------------------------------------------
(* Gathering: what the elements of a sequence add up to.                   *)

\* What the elements of a sequence give, one after the other.
Gather(g, s) == FlattenSeq([k \in 1..Len(s) |-> g[s[k]]])

LEMMA FrontAndLast ==
  ASSUME NEW E, NEW t \in Seq(E), t # <<>>
  PROVE  \E u \in Seq(E) : \E x \in E : t = Append(u, x)
<1>0. PICK n \in Nat : Len(t) = n + 1
  <2>1. Len(t) \in Nat /\ Len(t) # 0
    OBVIOUS
  <2> QED BY <2>1
<1>1. PICK u, x : u = SubSeq(t, 1, n) /\ x = t[n + 1]
  OBVIOUS
<1>2. x \in E
  BY <1>0, <1>1
<1>3. u \in Seq(E) /\ Len(u) = n /\ \A i \in 1..n : u[i] = t[i]
  BY <1>0, <1>1
<1>4. t = Append(u, x)
  <2>1. /\ Append(u, x) \in Seq(E) /\ Len(Append(u, x)) = n + 1
        /\ \A i \in 1..n : Append(u, x)[i] = u[i]
        /\ Append(u, x)[n + 1] = x
    BY <1>0, <1>2, <1>3
  <2>2. \A i \in 1..(n + 1) : t[i] = Append(u, x)[i]
    BY <1>0, <1>1, <1>3, <2>1
  <2> QED BY <1>0, <2>1, <2>2
<1> QED BY <1>2, <1>3, <1>4

LEMMA FunctionIsSeq ==
  ASSUME NEW T, NEW n \in Nat, NEW f \in [1..n -> T]
  PROVE  f \in Seq(T) /\ Len(f) = n
  OBVIOUS

LEMMA ConcatAppend ==
  ASSUME NEW E, NEW s \in Seq(E), NEW t \in Seq(E), NEW x \in E
  PROVE  s \o t \in Seq(E) /\ s \o Append(t, x) = Append(s \o t, x)
  OBVIOUS

LEMMA GatherEmpty == ASSUME NEW g PROVE Gather(g, <<>>) = <<>>
<1>1. [k \in 1..Len(<<>>) |-> g[<<>>[k]]] = <<>>
  OBVIOUS
<1> QED BY <1>1, FlattenEmpty DEF Gather

LEMMA GatherMap ==
  ASSUME NEW E, NEW S, NEW g \in [E -> Seq(S)], NEW s \in Seq(E)
  PROVE  /\ [k \in 1..Len(s) |-> g[s[k]]] \in Seq(Seq(S))
         /\ Len([k \in 1..Len(s) |-> g[s[k]]]) = Len(s)
<1>1. PICK T : T = Seq(S)
  OBVIOUS
<1>2. \A k \in 1..Len(s) : g[s[k]] \in T
  BY <1>1
<1>3. [k \in 1..Len(s) |-> g[s[k]]] \in [1..Len(s) -> T]
  BY <1>2
<1>4. PICK f \in [1..Len(s) -> T] : f = [k \in 1..Len(s) |-> g[s[k]]]
  BY <1>3
<1>5. Len(s) \in Nat
  OBVIOUS
<1>6. f \in Seq(T) /\ Len(f) = Len(s)
  BY <1>5, FunctionIsSeq
<1> QED BY <1>1, <1>4, <1>6

LEMMA GatherAppend ==
  ASSUME NEW E, NEW S, NEW g \in [E -> Seq(S)], NEW s \in Seq(E), NEW x \in E
  PROVE  Gather(g, Append(s, x)) = Gather(g, s) \o g[x]
<1>1. PICK t : t = Append(s, x)
  OBVIOUS
<1>2. /\ t \in Seq(E) /\ Len(t) = Len(s) + 1 /\ t[Len(s) + 1] = x /\ Len(s) \in Nat
      /\ \A i \in 1..Len(s) : t[i] = s[i]
  BY <1>1
<1>3. PICK ss, tt : /\ ss = [k \in 1..Len(s) |-> g[s[k]]]
                    /\ tt = [k \in 1..Len(t) |-> g[t[k]]]
  OBVIOUS
<1>4. ss \in Seq(Seq(S)) /\ Len(ss) = Len(s) /\ tt \in Seq(Seq(S)) /\ Len(tt) = Len(t)
  BY <1>2, <1>3, GatherMap
<1>5. \A i \in 1..Len(ss) : tt[i] = ss[i]
  <2> TAKE i \in 1..Len(ss)
  <2>1. i \in 1..Len(s) /\ i \in 1..Len(t)
    BY <1>2, <1>4
  <2> QED BY <1>2, <1>3, <2>1
<1>6. Len(tt) = Len(ss) + 1 /\ tt[Len(tt)] = g[x]
  <2>1. Len(tt) = Len(s) + 1 /\ Len(s) + 1 \in 1..Len(t)
    BY <1>2, <1>4
  <2> QED BY <1>2, <1>3, <1>4, <2>1
<1>7. FlattenSeq(tt) = FlattenSeq(ss) \o tt[Len(tt)]
  BY <1>4, <1>5, <1>6, FlattenNext
<1> QED BY <1>1, <1>3, <1>6, <1>7 DEF Gather

LEMMA GatherType ==
  ASSUME NEW E, NEW S, NEW g \in [E -> Seq(S)], NEW s \in Seq(E)
  PROVE  Gather(g, s) \in Seq(S)
<1> DEFINE T == {n \in Nat : \A t \in Seq(E) : Len(t) = n => Gather(g, t) \in Seq(S)}
<1>1. 0 \in T
  <2>1. ASSUME NEW t \in Seq(E), Len(t) = 0 PROVE Gather(g, t) \in Seq(S)
    <3>1. t = <<>> BY <2>1, EmptyIs
    <3>2. <<>> \in Seq(S) OBVIOUS
    <3> QED BY <3>1, <3>2, GatherEmpty
  <2> QED BY <2>1
<1>2. ASSUME NEW n \in Nat,
             \A t \in Seq(E) : Len(t) = n => Gather(g, t) \in Seq(S),
             NEW t \in Seq(E), Len(t) = n + 1
      PROVE  Gather(g, t) \in Seq(S)
  <2>1. PICK u \in Seq(E), x \in E : t = Append(u, x)
    <3>1. t # <<>> BY <1>2
    <3> QED BY <3>1, FrontAndLast
  <2>0. Len(u) = n
    BY <1>2, <2>1
  <2>2. Gather(g, u) \in Seq(S) /\ g[x] \in Seq(S)
    BY <1>2, <2>0
  <2>3. Gather(g, t) = Gather(g, u) \o g[x]
    BY <2>1, GatherAppend
  <2> QED BY <2>2, <2>3
<1>3. T = Nat
  <2>1. \A n \in T : n + 1 \in T
    BY <1>2
  <2> HIDE DEF T
  <2> QED BY <1>1, <2>1, SetInduction DEF T
<1>4. Len(s) \in T
  BY <1>3
<1> QED BY <1>4

LEMMA GatherConcat ==
  ASSUME NEW E, NEW S, NEW g \in [E -> Seq(S)], NEW s \in Seq(E), NEW t \in Seq(E)
  PROVE  Gather(g, s \o t) = Gather(g, s) \o Gather(g, t)
<1> DEFINE T == {n \in Nat : \A u \in Seq(E) :
                   Len(u) = n => Gather(g, s \o u) = Gather(g, s) \o Gather(g, u)}
<1>1. 0 \in T
  <2>1. ASSUME NEW u \in Seq(E), Len(u) = 0
        PROVE  Gather(g, s \o u) = Gather(g, s) \o Gather(g, u)
    <3>1. u = <<>> BY <2>1, EmptyIs
    <3>2. s \o <<>> = s OBVIOUS
    <3>3. PICK v \in Seq(S) : v = Gather(g, s) BY GatherType
    <3>4. v \o <<>> = v OBVIOUS
    <3> QED BY <3>1, <3>2, <3>3, <3>4, GatherEmpty
  <2> QED BY <2>1
<1>2. ASSUME NEW n \in Nat,
             \A u \in Seq(E) :
               Len(u) = n => Gather(g, s \o u) = Gather(g, s) \o Gather(g, u),
             NEW u \in Seq(E), Len(u) = n + 1
      PROVE  Gather(g, s \o u) = Gather(g, s) \o Gather(g, u)
  <2>1. PICK w \in Seq(E), x \in E : u = Append(w, x)
    <3>1. u # <<>> BY <1>2
    <3> QED BY <3>1, FrontAndLast
  <2>0. Len(w) = n
    BY <1>2, <2>1
  <2>2. s \o w \in Seq(E) /\ s \o u = Append(s \o w, x)
    BY <2>1, ConcatAppend
  <2>3. Gather(g, s \o u) = Gather(g, s \o w) \o g[x]
    BY <2>2, GatherAppend
  <2>4. Gather(g, s \o w) = Gather(g, s) \o Gather(g, w)
    BY <1>2, <2>0
  <2>5. Gather(g, u) = Gather(g, w) \o g[x]
    BY <2>1, GatherAppend
  <2>6. PICK a \in Seq(S), b \in Seq(S), c \in Seq(S) :
          a = Gather(g, s) /\ b = Gather(g, w) /\ c = g[x]
    BY GatherType
  <2>7. (a \o b) \o c = a \o (b \o c)
    BY SMTT(60)
  <2> QED BY <2>3, <2>4, <2>5, <2>6, <2>7
<1>3. T = Nat
  <2>1. ASSUME NEW n \in T PROVE n + 1 \in T
    <3>1. n \in Nat /\ \A u \in Seq(E) : Len(u) = n =>
                       Gather(g, s \o u) = Gather(g, s) \o Gather(g, u)
      OBVIOUS
    <3>2. ASSUME NEW u \in Seq(E), Len(u) = n + 1
      PROVE  Gather(g, s \o u) = Gather(g, s) \o Gather(g, u)
      BY <1>2, <3>1, <3>2
    <3>3. n + 1 \in Nat
      BY <3>1
    <3> QED BY <3>2, <3>3
  <2> HIDE DEF T
  <2> QED BY <1>1, <2>1, SetInduction DEF T
<1>4. Len(t) \in T
  BY <1>3
<1> QED BY <1>4

\* Elements that give nothing.
LEMMA GatherNothing ==
  ASSUME NEW E, NEW S, NEW g \in [E -> Seq(S)], NEW s \in Seq(E),
         \A i \in 1..Len(s) : g[s[i]] = <<>>
  PROVE  Gather(g, s) = <<>>
<1> DEFINE T == {n \in Nat : \A t \in Seq(E) :
                   Len(t) = n /\ (\A i \in 1..n : g[t[i]] = <<>>) => Gather(g, t) = <<>>}
<1>1. 0 \in T
  <2>1. ASSUME NEW t \in Seq(E), Len(t) = 0 PROVE Gather(g, t) = <<>>
    <3>1. t = <<>> BY <2>1, EmptyIs
    <3> QED BY <3>1, GatherEmpty
  <2> QED BY <2>1
<1>2. ASSUME NEW n \in Nat,
             \A t \in Seq(E) :
               Len(t) = n /\ (\A i \in 1..n : g[t[i]] = <<>>) => Gather(g, t) = <<>>,
             NEW t \in Seq(E), Len(t) = n + 1, \A i \in 1..(n + 1) : g[t[i]] = <<>>
      PROVE  Gather(g, t) = <<>>
  <2>1. PICK u \in Seq(E), x \in E : t = Append(u, x)
    <3>1. t # <<>> BY <1>2
    <3> QED BY <3>1, FrontAndLast
  <2>0. Len(u) = n
    BY <1>2, <2>1
  <2>2. /\ \A i \in 1..n : t[i] = u[i] /\ i \in 1..(n + 1)
        /\ t[n + 1] = x /\ n + 1 \in 1..(n + 1)
    BY <2>0, <2>1
  <2>3. g[x] = <<>> /\ \A i \in 1..n : g[u[i]] = <<>>
    BY <1>2, <2>2
  <2>4. Gather(g, u) = <<>>
    BY <1>2, <2>0, <2>3
  <2>5. <<>> \o <<>> = <<>>
    OBVIOUS
  <2>6. Gather(g, t) = Gather(g, u) \o g[x]
    BY <2>1, GatherAppend
  <2> QED BY <2>3, <2>4, <2>5, <2>6
<1>3. T = Nat
  <2>1. ASSUME NEW n \in T PROVE n + 1 \in T
    <3>1. n \in Nat /\ \A t \in Seq(E) : 
                       Len(t) = n /\ (\A i \in 1..n : g[t[i]] = <<>>) => Gather(g, t) = <<>>
      OBVIOUS
    <3>2. ASSUME NEW t \in Seq(E), Len(t) = n + 1, \A i \in 1..(n + 1) : g[t[i]] = <<>>
      PROVE  Gather(g, t) = <<>>
      BY <1>2, <3>1, <3>2
    <3>3. n + 1 \in Nat
      BY <3>1
    <3> QED BY <3>2, <3>3
  <2> HIDE DEF T
  <2> QED BY <1>1, <2>1, SetInduction DEF T
<1>4. Len(s) \in T
  BY <1>3
<1> QED BY <1>4

-----------------------------------------------------------------------------
(* What the decoder promises.                                              *)

\* What a decoder reports before the end, and its ends.
Outputs ==
  [type : {"text"}, text : Seq(Chars)] \cup [type : {"tool"}, tool : Deltas]
    \cup [type : {"thought", "thought_ends"}]
Conclusions == {Failed} \cup {Completed(r, w) : r \in Finishes, w \in BOOLEAN}

Reports == Outputs \cup Conclusions

Decoders ==
  [queued : Seq(Reports), finish : Finishes \cup {"none"}, finished : BOOLEAN, usage : BOOLEAN,
   calls : [Indexes -> [seen : BOOLEAN, header : Headers \cup {NoHeader}, args : Seq(Chars)]],
   thinking : BOOLEAN, constraint : Constraints,
   filter : {[closed |-> FALSE, pending |-> <<>>]}]

\* The text and the tool-call deltas of events of the decoder.
Words(h) == FlattenSeq([k \in 1..Len(h) |-> IF h[k].type = "text" THEN h[k].text ELSE <<>>])
Parts(h) == FlattenSeq([k \in 1..Len(h) |-> IF h[k].type = "tool" THEN <<h[k].tool>> ELSE <<>>])

Begins(S, s, t) == \E u \in Seq(S) : t = s \o u

\* A decoder that runs has passed on exactly what was said so far.
Runs(h, d, text, tools, reason, constraints) ==
  /\ d \in Decoders /\ ~d.finished
  /\ h \o d.queued \in Seq(Outputs)
  /\ Words(h \o d.queued) = text
  /\ Parts(h \o d.queued) = tools
  /\ d.finish = reason
  /\ d.constraint \in {"none"} \cup constraints
  /\ request.engine = "llama" =>
       \A i \in Indexes : d.calls[i] = [seen |-> i \in Called(tools),
                                        header |-> HeaderOf(i, tools), args |-> ArgsOf(i, tools)]

\* One that failed has passed on a first part of it.
Broke(h, d, text, tools) ==
  /\ d \in Decoders /\ d.finished
  /\ \E e \in Seq(Outputs) :
       /\ h \o d.queued = Append(e, Failed)
       /\ Begins(Chars, Words(e), text)
       /\ Begins(Deltas, Parts(e), tools)

CallsAreSound(tools, reason) ==
  /\ \A i \in Called(tools) : HeaderOf(i, tools) # NoHeader /\ ArgsOf(i, tools) \in Objects
  /\ Called(tools) # {} <=> reason = "tools"

\* One that completed has passed on all of it.
Concluded(h, d, fs) ==
  /\ d \in Decoders /\ d.finished
  /\ \E i \in 1..Len(fs) : Ending(fs[i])
  /\ \A i \in 1..Len(Said(fs)) : Said(fs)[i].kind = "delta"
  /\ \E e \in Seq(Outputs) : \E r \in Finishes : \E w \in BOOLEAN :
       /\ h \o d.queued = Append(e, Completed(r, w))
       /\ Words(e) = AllText(Said(fs))
       /\ Parts(e) = AllTools(Said(fs))
       /\ r = LastReason(Said(fs))
       /\ request.engine = "llama" => CallsAreSound(Parts(e), r)
       /\ request.engine = "ninfer" /\ request.checked /\ r # "length" =>
            \E i \in 1..Len(Said(fs)) : Said(fs)[i].constraint = "complete"

Unended(fs) == \A i \in 1..Len(fs) : ~Ending(fs[i]) /\ fs[i].kind = "delta"
Observed(fs) == {fs[i].constraint : i \in 1..Len(fs)}

Decoded(h, d, fs) ==
  \/ Unended(fs) /\ Runs(h, d, AllText(fs), AllTools(fs), LastReason(fs), Observed(fs))
  \/ Broke(h, d, AllText(Said(fs)), AllTools(Said(fs)))
  \/ Concluded(h, d, fs)

-----------------------------------------------------------------------------
(* What the encoder promises.                                              *)

Bodies ==
  Seq(Chars) \cup Headers \cup {NoHeader} \cup Finishes \cup {"none"} \cup Deltas
Messages ==
  [type : {"text_delta"}, at : Nat, body : Seq(Chars)]
    \cup [type : {"tool_delta"}, at : Nat, body : Deltas]
    \cup [type : {"created", "in_progress", "role", "thought", "message_added", "part_added",
                  "call_added", "args_delta", "text_done", "part_done", "message_done",
                  "args_done", "call_done", "completed", "incomplete", "failed", "usage", "done"},
          at : Nat, body : Bodies]

Encoders ==
  [queue : Seq(Messages), text : Seq(Chars), textAt : {<<>>} \cup {<<n>> : n \in Nat},
   calls : [Indexes -> [seen : BOOLEAN, header : Headers \cup {NoHeader}, args : Seq(Chars),
                        at : Nat, added : BOOLEAN]],
   next : Nat, terminal : BOOLEAN]

CloseTypes == {"text_done", "part_done", "message_done", "args_done", "call_done"}

IsItem(m) == m.type \notin Endings \cup {"created", "in_progress"}

\* Each item is announced, goes on, and is closed.
Regular(es) ==
  \A i \in 1..Len(es) : IsItem(es[i]) =>
    /\ es[i].type \in Added <=> \A j \in 1..(i - 1) : IsItem(es[j]) => es[j].at # es[i].at
    /\ \A j \in 1..(i - 1) : IsItem(es[j]) /\ es[j].type \in Closed => es[j].at # es[i].at

OpenAts(p) == {n \in Nat : p.textAt = <<n>>} \cup {p.calls[i].at : i \in {j \in Indexes : p.calls[j].seen}}

InOrder(es, p) ==
  /\ Regular(es)
  /\ \A k \in 1..Len(es) : IsItem(es[k]) => es[k].at \in OpenAts(p)
  /\ \A a \in OpenAts(p) : a < p.next /\ \E k \in 1..Len(es) : IsItem(es[k]) /\ es[k].at = a
  /\ \A i, j \in Indexes : p.calls[i].seen /\ p.calls[j].seen /\ p.calls[i].at = p.calls[j].at => i = j
  /\ \A i \in Indexes : p.calls[i].seen => p.calls[i].added /\ p.textAt # <<p.calls[i].at>>

Speaks(h, es, p, ch) ==
  /\ p \in Encoders /\ ~p.terminal
  /\ h \in Seq(Outputs) /\ es \in Seq(Messages)
  /\ \A k \in 1..Len(es) : es[k].type \notin CloseTypes \cup Lasts
  /\ TextOf(es) = Words(h)
  /\ request.api = "chat" => ToolsOf(es) = Parts(h)
  /\ request.api = "completions" => Parts(h) = <<>>
  /\ Structured => ch = Words(h) /\ Parts(h) = <<>>
  /\ request.api = "responses" =>
       /\ p.text = Words(h)
       /\ p.textAt = <<>> => Words(h) = <<>>
       /\ \A i \in Indexes :
            /\ p.calls[i].seen <=> i \in Called(Parts(h))
            /\ p.calls[i].header = HeaderOf(i, Parts(h))
            /\ p.calls[i].args = ArgsOf(i, Parts(h))
            /\ p.calls[i].added => p.calls[i].seen
       /\ HeadersFirst(Parts(h)) => InOrder(es, p)

Apologised(h, es, p) ==
  /\ p \in Encoders /\ p.terminal
  /\ h \in Seq(Reports) /\ es \in Seq(Messages)
  /\ TextOf(es) = Words(h)
  /\ \A k \in 1..Len(es) : es[k].type \notin Success
  /\ request.api = "responses" /\ HeadersFirst(Parts(h)) => Regular(es)

Succeeded(h, es, p) ==
  /\ p \in Encoders /\ p.terminal
  /\ es \in Seq(Messages)
  /\ \E e \in Seq(Outputs) : \E r \in Finishes : \E w \in BOOLEAN :
       /\ h = Append(e, Completed(r, w))
       /\ \A k \in 1..Len(es) : es[k].type \in Success =>
            /\ es[k].body = r
            /\ request.api = "responses" => (es[k].type = "incomplete" <=> r = "length")
       /\ TextOf(es) = Words(e)
       /\ \A k \in 1..Len(es) :
            es[k].type \in {"text_done", "part_done", "message_done"} => es[k].body = Words(e)
       /\ request.api = "chat" => ToolsOf(es) = Parts(e)
       /\ request.api # "chat" =>
            {es[k].body : k \in {j \in 1..Len(es) : es[j].type = "call_done"}} = Calls(Parts(e))
       /\ Structured => Words(e) \in Objects /\ r = "stop"
       /\ request.api = "responses" /\ HeadersFirst(Parts(e)) =>
            /\ Regular(es)
            /\ \A k \in 1..Len(es) : IsItem(es[k]) =>
                 \E j \in 1..Len(es) : IsItem(es[j]) /\ es[j].type \in Closed /\ es[j].at = es[k].at

Passed(h, es, p, ch) ==
  \/ Speaks(h, es, p, ch)
  \/ Apologised(h, es, p)
  \/ Succeeded(h, es, p)

-----------------------------------------------------------------------------
(* What each of the operators that gather makes of one more element.       *)

WordOf == [e \in Reports |-> IF e.type = "text" THEN e.text ELSE <<>>]
PartOf == [e \in Reports |-> IF e.type = "tool" THEN <<e.tool>> ELSE <<>>]
FrameText == [f \in Frames[request.engine] |-> f.text]
FrameTools == [f \in Frames[request.engine] |-> f.tools]
MessageText == [m \in Messages |-> IF m.type = "text_delta" THEN m.body ELSE <<>>]
MessageTools == [m \in Messages |-> IF m.type = "tool_delta" THEN <<m.body>> ELSE <<>>]
CallArgs(i) == [t \in Deltas |-> IF t.index = i THEN t.args ELSE <<>>]

LEMMA ReportsAre ==
  ASSUME NEW x \in Reports
  PROVE  /\ x \in Outputs \/ x = Failed \/ \E r \in Finishes : \E w \in BOOLEAN : x = Completed(r, w)
         /\ x.type \in {"text", "tool", "thought", "thought_ends", "failed", "completed"}
         /\ x.type \in {"text", "tool", "thought", "thought_ends"} <=> x \in Outputs
         /\ x.type = "text" => x.text \in Seq(Chars)
         /\ x.type = "tool" => x.tool \in Deltas
         /\ x.type = "failed" => x = Failed
         /\ x.type = "completed" => \E r \in Finishes : \E w \in BOOLEAN : x = Completed(r, w)
<1>1. x \in Outputs \/ x = Failed \/ \E r \in Finishes : \E w \in BOOLEAN : x = Completed(r, w)
  BY DEF Reports, Conclusions
<1>2. CASE x \in Outputs
  <2>1. CASE x \in [type : {"text"}, text : Seq(Chars)]
    BY <1>2, <2>1
  <2>2. CASE x \in [type : {"tool"}, tool : Deltas]
    BY <1>2, <2>2
  <2>3. CASE x \in [type : {"thought", "thought_ends"}]
    BY <1>2, <2>3
  <2> QED BY <1>2, <2>1, <2>2, <2>3 DEF Outputs
<1>3. \A y \in Outputs : y.type \in {"text", "tool", "thought", "thought_ends"}
  BY DEF Outputs
<1>4. CASE x = Failed
  BY <1>3, <1>4 DEF Failed
<1>5. CASE \E r \in Finishes : \E w \in BOOLEAN : x = Completed(r, w)
  <2>1. PICK r \in Finishes, w \in BOOLEAN : x = Completed(r, w)
    BY <1>5
  <2>2. x.type = "completed"
    BY <2>1 DEF Completed
  <2> QED BY <1>3, <2>1, <2>2
<1> QED BY <1>1, <1>2, <1>4, <1>5

LEMMA WordOfType == WordOf \in [Reports -> Seq(Chars)]
<1>1. <<>> \in Seq(Chars) OBVIOUS
<1> QED BY <1>1, ReportsAre DEF WordOf

LEMMA PartOfType == PartOf \in [Reports -> Seq(Deltas)]
<1>1. <<>> \in Seq(Deltas) /\ \A t \in Deltas : <<t>> \in Seq(Deltas) OBVIOUS
<1> QED BY <1>1, ReportsAre DEF PartOf

LEMMA WordsAre ==
  /\ Words(<<>>) = <<>>
  /\ \A h \in Seq(Reports) :
       /\ Words(h) \in Seq(Chars)
       /\ \A x \in Reports :
            Words(Append(h, x)) = IF x.type = "text" THEN Words(h) \o x.text ELSE Words(h)
<1>1. ASSUME NEW h \in Seq(Reports) PROVE Words(h) = Gather(WordOf, h)
  <2>1. \A k \in 1..Len(h) : h[k] \in Reports OBVIOUS
  <2>2. [k \in 1..Len(h) |-> IF h[k].type = "text" THEN h[k].text ELSE <<>>]
          = [k \in 1..Len(h) |-> WordOf[h[k]]]
    BY <2>1 DEF WordOf
  <2> QED BY <2>2 DEF Words, Gather
<1>2. Words(<<>>) = <<>>
  <2>1. <<>> \in Seq(Reports) OBVIOUS
  <2> QED BY <1>1, <2>1, GatherEmpty
<1>3. ASSUME NEW h \in Seq(Reports) PROVE Words(h) \in Seq(Chars)
  BY <1>1, GatherType, WordOfType
<1>4. ASSUME NEW h \in Seq(Reports), NEW x \in Reports
      PROVE  Words(Append(h, x)) = IF x.type = "text" THEN Words(h) \o x.text ELSE Words(h)
  <2>1. Append(h, x) \in Seq(Reports) OBVIOUS
  <2>2. Gather(WordOf, Append(h, x)) = Gather(WordOf, h) \o WordOf[x]
    BY GatherAppend, WordOfType
  <2>3. Words(Append(h, x)) = Words(h) \o WordOf[x]
    BY <1>1, <2>1, <2>2
  <2>4. PICK w \in Seq(Chars) : w = Words(h)
    BY <1>3
  <2>5. w \o <<>> = w OBVIOUS
  <2> QED BY <2>3, <2>4, <2>5 DEF WordOf
<1> QED BY <1>2, <1>3, <1>4

LEMMA PartsAre ==
  /\ Parts(<<>>) = <<>>
  /\ \A h \in Seq(Reports) :
       /\ Parts(h) \in Seq(Deltas)
       /\ \A x \in Reports :
            Parts(Append(h, x)) = IF x.type = "tool" THEN Append(Parts(h), x.tool) ELSE Parts(h)
<1>1. ASSUME NEW h \in Seq(Reports) PROVE Parts(h) = Gather(PartOf, h)
  <2>1. \A k \in 1..Len(h) : h[k] \in Reports OBVIOUS
  <2>2. [k \in 1..Len(h) |-> IF h[k].type = "tool" THEN <<h[k].tool>> ELSE <<>>]
          = [k \in 1..Len(h) |-> PartOf[h[k]]]
    BY <2>1 DEF PartOf
  <2> QED BY <2>2 DEF Parts, Gather
<1>2. Parts(<<>>) = <<>>
  <2>1. <<>> \in Seq(Reports) OBVIOUS
  <2> QED BY <1>1, <2>1, GatherEmpty
<1>3. ASSUME NEW h \in Seq(Reports) PROVE Parts(h) \in Seq(Deltas)
  BY <1>1, GatherType, PartOfType
<1>4. ASSUME NEW h \in Seq(Reports), NEW x \in Reports
      PROVE  Parts(Append(h, x)) = IF x.type = "tool" THEN Append(Parts(h), x.tool) ELSE Parts(h)
  <2>1. Append(h, x) \in Seq(Reports) OBVIOUS
  <2>2. Gather(PartOf, Append(h, x)) = Gather(PartOf, h) \o PartOf[x]
    BY GatherAppend, PartOfType
  <2>3. Parts(Append(h, x)) = Parts(h) \o PartOf[x]
    BY <1>1, <2>1, <2>2
  <2>4. PICK w \in Seq(Deltas) : w = Parts(h)
    BY <1>3
  <2>5. w \o <<>> = w /\ \A t \in Deltas : w \o <<t>> = Append(w, t)
    OBVIOUS
  <2> QED BY <2>3, <2>4, <2>5, ReportsAre DEF PartOf
<1> QED BY <1>2, <1>3, <1>4

-----------------------------------------------------------------------------
(* What one more frame adds.                                               *)

\* The frames of the engine that the request is for.
Sendable == Frames[request.engine]

LEMMA SendableAre ==
  ASSUME request \in Requests, NEW f \in Sendable
  PROVE  /\ f.kind \in {"delta", "bad", "done"}
         /\ f.text \in Seq(Chars)
         /\ f.says \in BOOLEAN /\ f.usage \in BOOLEAN /\ (f.text # <<>> => f.says)
         /\ f.tools \in Seq(Deltas) /\ (f.tools = <<>> \/ \E t \in Deltas : f.tools = <<t>>)
         /\ f.constraint \in Constraints
         /\ f.kind # "delta" => f.text = <<>> /\ f.tools = <<>> /\ f.finish = "none"
<1>1. request.engine \in Engines BY StreamAssumption
<1>2. /\ f.kind \in {"delta", "bad", "done"}
      /\ f.text \in Seq(Chars)
      /\ f.says \in BOOLEAN /\ f.usage \in BOOLEAN /\ (f.text # <<>> => f.says)
      /\ f.tools \in Seq(Deltas) /\ Len(f.tools) <= 1
      /\ f.constraint \in Constraints
      /\ f.kind # "delta" => f.text = <<>> /\ f.tools = <<>> /\ f.finish = "none"
  BY <1>1, FrameAssumption DEF Sendable
<1>3. f.tools = <<>> \/ \E t \in Deltas : f.tools = <<t>>
  <2>1. PICK s \in Seq(Deltas) : s = f.tools
    BY <1>2
  <2>2. CASE Len(s) = 0
    BY <2>1, <2>2, EmptyIs
  <2>3. CASE Len(s) = 1
    <3>1. s[1] \in Deltas /\ s = <<s[1]>>
      BY <2>3
    <3> QED BY <2>1, <3>1
  <2>4. Len(s) \in Nat /\ Len(s) <= 1
    BY <1>2, <2>1
  <2>5. Len(s) = 0 \/ Len(s) = 1
    <3>1. \A n \in Nat : n <= 1 => n = 0 \/ n = 1 OBVIOUS
    <3> QED BY <2>4, <3>1
  <2> QED BY <2>2, <2>3, <2>5
<1> QED BY <1>2, <1>3

LEMMA AllTextIs ==
  ASSUME request \in Requests
  PROVE  /\ AllText(<<>>) = <<>>
         /\ \A fs \in Seq(Sendable) :
              /\ AllText(fs) \in Seq(Chars)
              /\ \A f \in Sendable : AllText(Append(fs, f)) = AllText(fs) \o f.text
<1>0. FrameText \in [Sendable -> Seq(Chars)]
  BY SendableAre DEF FrameText, Sendable
<1>1. ASSUME NEW fs \in Seq(Sendable) PROVE AllText(fs) = Gather(FrameText, fs)
  <2>1. \A k \in 1..Len(fs) : fs[k] \in Sendable OBVIOUS
  <2>2. [k \in 1..Len(fs) |-> fs[k].text] = [k \in 1..Len(fs) |-> FrameText[fs[k]]]
    BY <2>1 DEF FrameText, Sendable
  <2> QED BY <2>2 DEF AllText, Gather
<1>2. AllText(<<>>) = <<>>
  <2>1. <<>> \in Seq(Sendable) OBVIOUS
  <2> QED BY <1>1, <2>1, GatherEmpty
<1>3. ASSUME NEW fs \in Seq(Sendable) PROVE AllText(fs) \in Seq(Chars)
  BY <1>0, <1>1, GatherType
<1>4. ASSUME NEW fs \in Seq(Sendable), NEW f \in Sendable
      PROVE  AllText(Append(fs, f)) = AllText(fs) \o f.text
  <2>1. Append(fs, f) \in Seq(Sendable) OBVIOUS
  <2>2. Gather(FrameText, Append(fs, f)) = Gather(FrameText, fs) \o FrameText[f]
    BY <1>0, GatherAppend
  <2> QED BY <1>1, <2>1, <2>2 DEF FrameText, Sendable
<1> QED BY <1>2, <1>3, <1>4

LEMMA AllToolsAre ==
  ASSUME request \in Requests
  PROVE  /\ AllTools(<<>>) = <<>>
         /\ \A fs \in Seq(Sendable) :
              /\ AllTools(fs) \in Seq(Deltas)
              /\ \A f \in Sendable : AllTools(Append(fs, f)) = AllTools(fs) \o f.tools
<1>0. FrameTools \in [Sendable -> Seq(Deltas)]
  BY SendableAre DEF FrameTools, Sendable
<1>1. ASSUME NEW fs \in Seq(Sendable) PROVE AllTools(fs) = Gather(FrameTools, fs)
  <2>1. \A k \in 1..Len(fs) : fs[k] \in Sendable OBVIOUS
  <2>2. [k \in 1..Len(fs) |-> fs[k].tools] = [k \in 1..Len(fs) |-> FrameTools[fs[k]]]
    BY <2>1 DEF FrameTools, Sendable
  <2> QED BY <2>2 DEF AllTools, Gather
<1>2. AllTools(<<>>) = <<>>
  <2>1. <<>> \in Seq(Sendable) OBVIOUS
  <2> QED BY <1>1, <2>1, GatherEmpty
<1>3. ASSUME NEW fs \in Seq(Sendable) PROVE AllTools(fs) \in Seq(Deltas)
  BY <1>0, <1>1, GatherType
<1>4. ASSUME NEW fs \in Seq(Sendable), NEW f \in Sendable
      PROVE  AllTools(Append(fs, f)) = AllTools(fs) \o f.tools
  <2>1. Append(fs, f) \in Seq(Sendable) OBVIOUS
  <2>2. Gather(FrameTools, Append(fs, f)) = Gather(FrameTools, fs) \o FrameTools[f]
    BY <1>0, GatherAppend
  <2> QED BY <1>1, <2>1, <2>2 DEF FrameTools, Sendable
<1> QED BY <1>2, <1>3, <1>4

LEMMA AppendedIs ==
  ASSUME NEW E, NEW s \in Seq(E), NEW x \in E
  PROVE  /\ Append(s, x) \in Seq(E) /\ Len(s) \in Nat /\ Len(Append(s, x)) = Len(s) + 1
         /\ \A k \in 1..Len(s) : Append(s, x)[k] = s[k]
         /\ Append(s, x)[Len(s) + 1] = x
         /\ 1..(Len(s) + 1) = 1..Len(s) \cup {Len(s) + 1}
<1>1. /\ Append(s, x) \in Seq(E) /\ Len(s) \in Nat /\ Len(Append(s, x)) = Len(s) + 1
      /\ \A k \in 1..Len(s) : Append(s, x)[k] = s[k]
      /\ Append(s, x)[Len(s) + 1] = x
  OBVIOUS
<1>2. 1..(Len(s) + 1) = 1..Len(s) \cup {Len(s) + 1}
  <2>1. \A n \in Nat : 1..(n + 1) = 1..n \cup {n + 1}
    OBVIOUS
  <2> QED BY <1>1, <2>1
<1> QED BY <1>1, <1>2

LEMMA MaxAdded ==
  ASSUME NEW n \in Nat, NEW K, K \subseteq 1..n
  PROVE  Max(K \cup {n + 1}) = n + 1
<1>1. n + 1 \in K \cup {n + 1} /\ \A y \in K \cup {n + 1} : n + 1 >= y
  OBVIOUS
<1>2. \A x \in K \cup {n + 1} : (\A y \in K \cup {n + 1} : x >= y) => x = n + 1
  OBVIOUS
<1> QED BY <1>1, <1>2 DEF Max

\* A set of positions has a largest one.
LEMMA Largest ==
  ASSUME NEW n \in Nat, NEW K, K \subseteq 1..n, K # {}
  PROVE  \E k \in K : \A j \in K : k >= j
<1>1. PICK T : T = {n - k : k \in K}
  OBVIOUS
<1>2. T \subseteq Nat /\ T # {}
  <2>1. \A k \in 1..n : n - k \in Nat
    OBVIOUS
  <2> QED BY <1>1, <2>1
<1>3. PICK m \in T : \A l \in T : m <= l
  BY <1>2, LeastNatural
<1>4. PICK k \in K : m = n - k
  BY <1>1
<1>5. ASSUME NEW j \in K PROVE k >= j
  <2>1. n - j \in T /\ j \in 1..n /\ k \in 1..n
    BY <1>1
  <2>2. m <= n - j
    BY <1>3, <2>1
  <2> QED BY <1>4, <2>1, <2>2
<1> QED BY <1>5

\* The last reason that was not "none".
LEMMA LastReasonIs ==
  /\ LastReason(<<>>) = "none"
  /\ \A fs \in Seq(Sendable) : \A f \in Sendable :
       LastReason(Append(fs, f)) = IF f.finish = "none" THEN LastReason(fs) ELSE f.finish
<1>1. LastReason(<<>>) = "none"
  BY DEF LastReason
<1>2. ASSUME NEW fs \in Seq(Sendable), NEW f \in Sendable
      PROVE  LastReason(Append(fs, f)) = IF f.finish = "none" THEN LastReason(fs) ELSE f.finish
  <2>1. PICK gs : gs = Append(fs, f)
    OBVIOUS
  <2>2. PICK n : n = Len(fs)
    OBVIOUS
  <2>3. /\ n \in Nat /\ Len(gs) = n + 1 /\ gs[n + 1] = f /\ 1..(n + 1) = 1..n \cup {n + 1}
        /\ \A k \in 1..n : gs[k] = fs[k]
    BY <2>1, <2>2, AppendedIs
  <2>4. PICK K, L : /\ K = {k \in 1..Len(fs) : fs[k].finish # "none"}
                    /\ L = {k \in 1..Len(gs) : gs[k].finish # "none"}
    OBVIOUS
  <2>5. LastReason(fs) = IF K = {} THEN "none" ELSE fs[Max(K)].finish
    BY <2>4 DEF LastReason
  <2>6. LastReason(gs) = IF L = {} THEN "none" ELSE gs[Max(L)].finish
    BY <2>4 DEF LastReason
  <2>7. CASE f.finish = "none"
    <3>1. K = L
      BY <2>2, <2>3, <2>4, <2>7
    <3>2. K # {} => gs[Max(K)] = fs[Max(K)]
      <4> SUFFICES ASSUME K # {} PROVE Max(K) \in 1..n
        BY <2>3
      <4>1. K \subseteq 1..n
        BY <2>2, <2>4
      <4>2. \E k \in K : \A j \in K : k >= j
        BY <2>3, <4>1, Largest
      <4> QED BY <4>1, <4>2 DEF Max
    <3> QED BY <2>1, <2>5, <2>6, <2>7, <3>1, <3>2
  <2>8. CASE f.finish # "none"
    <3>1. L = K \cup {n + 1} /\ K \subseteq 1..n
      BY <2>2, <2>3, <2>4, <2>8
    <3>2. Max(L) = n + 1
      BY <2>3, <3>1, MaxAdded
    <3> QED BY <2>1, <2>3, <2>6, <2>8, <3>1, <3>2
  <2> QED BY <2>7, <2>8
<1> QED BY <1>1, <1>2

LEMMA MessagesAre ==
  ASSUME NEW m \in Messages
  PROVE  /\ m.at \in Nat
         /\ m.type = "text_delta" => m.body \in Seq(Chars)
         /\ m.type = "tool_delta" => m.body \in Deltas
<1>1. CASE m \in [type : {"text_delta"}, at : Nat, body : Seq(Chars)]
  BY <1>1
<1>2. CASE m \in [type : {"tool_delta"}, at : Nat, body : Deltas]
  BY <1>2
<1>3. CASE m \in [type : {"created", "in_progress", "role", "thought", "message_added", "part_added",
                  "call_added", "args_delta", "text_done", "part_done", "message_done",
                  "args_done", "call_done", "completed", "incomplete", "failed", "usage", "done"},
          at : Nat, body : Bodies]
  BY <1>3
<1> QED BY <1>1, <1>2, <1>3 DEF Messages

LEMMA MessageTextType == MessageText \in [Messages -> Seq(Chars)]
<1>1. <<>> \in Seq(Chars) OBVIOUS
<1> QED BY <1>1, MessagesAre DEF MessageText

LEMMA MessageToolsType == MessageTools \in [Messages -> Seq(Deltas)]
<1>1. <<>> \in Seq(Deltas) /\ \A t \in Deltas : <<t>> \in Seq(Deltas) OBVIOUS
<1> QED BY <1>1, MessagesAre DEF MessageTools

\* A sequence of one.
LEMMA Single ==
  ASSUME NEW E, NEW x \in E, NEW S, NEW g \in [E -> Seq(S)]
  PROVE  <<x>> \in Seq(E) /\ Gather(g, <<x>>) = g[x]
<1>1. <<>> \in Seq(E) /\ <<x>> \in Seq(E) /\ <<x>> = Append(<<>>, x) OBVIOUS
<1>2. Gather(g, Append(<<>>, x)) = Gather(g, <<>>) \o g[x]
  BY <1>1, GatherAppend
<1>3. PICK v \in Seq(S) : v = g[x] OBVIOUS
<1>4. <<>> \o v = v OBVIOUS
<1> QED BY <1>1, <1>2, <1>3, <1>4, GatherEmpty

LEMMA TextOfIs ==
  /\ TextOf(<<>>) = <<>>
  /\ \A m \in Messages : m.type = "text_delta" => TextOf(<<m>>) = m.body
  /\ \A es \in Seq(Messages) :
       /\ TextOf(es) \in Seq(Chars)
       /\ (\A k \in 1..Len(es) : es[k].type # "text_delta") => TextOf(es) = <<>>
       /\ \A fs \in Seq(Messages) : TextOf(es \o fs) = TextOf(es) \o TextOf(fs)
<1>1. ASSUME NEW es \in Seq(Messages) PROVE TextOf(es) = Gather(MessageText, es)
  <2>1. \A k \in 1..Len(es) : es[k] \in Messages OBVIOUS
  <2>2. [k \in 1..Len(es) |-> IF es[k].type = "text_delta" THEN es[k].body ELSE <<>>]
          = [k \in 1..Len(es) |-> MessageText[es[k]]]
    BY <2>1 DEF MessageText
  <2> QED BY <2>2 DEF TextOf, Gather
<1>2. TextOf(<<>>) = <<>>
  <2>1. <<>> \in Seq(Messages) OBVIOUS
  <2> QED BY <1>1, <2>1, GatherEmpty
<1>3. ASSUME NEW m \in Messages, m.type = "text_delta" PROVE TextOf(<<m>>) = m.body
  <2>1. <<m>> \in Seq(Messages) /\ Gather(MessageText, <<m>>) = MessageText[m]
    BY Single, MessageTextType
  <2> QED BY <1>1, <1>3, <2>1 DEF MessageText
<1>4. ASSUME NEW es \in Seq(Messages) PROVE TextOf(es) \in Seq(Chars)
  BY <1>1, GatherType, MessageTextType
<1>5. ASSUME NEW es \in Seq(Messages), \A k \in 1..Len(es) : es[k].type # "text_delta"
      PROVE  TextOf(es) = <<>>
  <2>1. \A k \in 1..Len(es) : es[k] \in Messages OBVIOUS
  <2>2. \A k \in 1..Len(es) : MessageText[es[k]] = <<>>
    BY <1>5, <2>1 DEF MessageText
  <2> QED BY <1>1, <2>2, GatherNothing, MessageTextType
<1>6. ASSUME NEW es \in Seq(Messages), NEW fs \in Seq(Messages)
      PROVE  TextOf(es \o fs) = TextOf(es) \o TextOf(fs)
  <2>1. es \o fs \in Seq(Messages) OBVIOUS
  <2>2. Gather(MessageText, es \o fs) = Gather(MessageText, es) \o Gather(MessageText, fs)
    BY GatherConcat, MessageTextType
  <2> QED BY <1>1, <2>1, <2>2
<1> QED BY <1>2, <1>3, <1>4, <1>5, <1>6

LEMMA ToolsOfAre ==
  /\ ToolsOf(<<>>) = <<>>
  /\ \A m \in Messages : m.type = "tool_delta" => ToolsOf(<<m>>) = <<m.body>>
  /\ \A es \in Seq(Messages) :
       /\ ToolsOf(es) \in Seq(Deltas)
       /\ (\A k \in 1..Len(es) : es[k].type # "tool_delta") => ToolsOf(es) = <<>>
       /\ \A fs \in Seq(Messages) : ToolsOf(es \o fs) = ToolsOf(es) \o ToolsOf(fs)
<1>1. ASSUME NEW es \in Seq(Messages) PROVE ToolsOf(es) = Gather(MessageTools, es)
  <2>1. \A k \in 1..Len(es) : es[k] \in Messages OBVIOUS
  <2>2. [k \in 1..Len(es) |-> IF es[k].type = "tool_delta" THEN <<es[k].body>> ELSE <<>>]
          = [k \in 1..Len(es) |-> MessageTools[es[k]]]
    BY <2>1 DEF MessageTools
  <2> QED BY <2>2 DEF ToolsOf, Gather
<1>2. ToolsOf(<<>>) = <<>>
  <2>1. <<>> \in Seq(Messages) OBVIOUS
  <2> QED BY <1>1, <2>1, GatherEmpty
<1>3. ASSUME NEW m \in Messages, m.type = "tool_delta" PROVE ToolsOf(<<m>>) = <<m.body>>
  <2>1. <<m>> \in Seq(Messages) /\ Gather(MessageTools, <<m>>) = MessageTools[m]
    BY Single, MessageToolsType
  <2> QED BY <1>1, <1>3, <2>1 DEF MessageTools
<1>4. ASSUME NEW es \in Seq(Messages) PROVE ToolsOf(es) \in Seq(Deltas)
  BY <1>1, GatherType, MessageToolsType
<1>5. ASSUME NEW es \in Seq(Messages), \A k \in 1..Len(es) : es[k].type # "tool_delta"
      PROVE  ToolsOf(es) = <<>>
  <2>1. \A k \in 1..Len(es) : es[k] \in Messages OBVIOUS
  <2>2. \A k \in 1..Len(es) : MessageTools[es[k]] = <<>>
    BY <1>5, <2>1 DEF MessageTools
  <2> QED BY <1>1, <2>2, GatherNothing, MessageToolsType
<1>6. ASSUME NEW es \in Seq(Messages), NEW fs \in Seq(Messages)
      PROVE  ToolsOf(es \o fs) = ToolsOf(es) \o ToolsOf(fs)
  <2>1. es \o fs \in Seq(Messages) OBVIOUS
  <2>2. Gather(MessageTools, es \o fs) = Gather(MessageTools, es) \o Gather(MessageTools, fs)
    BY GatherConcat, MessageToolsType
  <2> QED BY <1>1, <2>1, <2>2
<1> QED BY <1>2, <1>3, <1>4, <1>5, <1>6

-----------------------------------------------------------------------------
(* The calls that deltas add up to.                                        *)

LEMMA CalledIs ==
  /\ Called(<<>>) = {}
  /\ \A ts \in Seq(Deltas) : \A t \in Deltas : Called(Append(ts, t)) = Called(ts) \cup {t.index}
<1>1. Called(<<>>) = {}
  BY DEF Called
<1>2. ASSUME NEW ts \in Seq(Deltas), NEW t \in Deltas
      PROVE  Called(Append(ts, t)) = Called(ts) \cup {t.index}
  <2>1. PICK us : us = Append(ts, t) OBVIOUS
  <2>2. /\ Len(ts) \in Nat /\ Len(us) = Len(ts) + 1 /\ us[Len(ts) + 1] = t
        /\ \A k \in 1..Len(ts) : us[k] = ts[k]
        /\ 1..(Len(ts) + 1) = 1..Len(ts) \cup {Len(ts) + 1}
    BY <2>1, AppendedIs
  <2>3. {us[k].index : k \in 1..Len(us)} = {ts[k].index : k \in 1..Len(ts)} \cup {t.index}
    BY <2>2
  <2> QED BY <2>1, <2>3 DEF Called
<1> QED BY <1>1, <1>2

LEMMA ArgsOfIs ==
  ASSUME NEW i
  PROVE  /\ ArgsOf(i, <<>>) = <<>>
         /\ \A ts \in Seq(Deltas) :
              /\ ArgsOf(i, ts) \in Seq(Chars)
              /\ \A t \in Deltas : ArgsOf(i, Append(ts, t)) =
                   IF t.index = i THEN ArgsOf(i, ts) \o t.args ELSE ArgsOf(i, ts)
<1>0. CallArgs(i) \in [Deltas -> Seq(Chars)]
  <2>1. <<>> \in Seq(Chars) /\ \A t \in Deltas : t.args \in Seq(Chars) BY DEF Deltas
  <2> QED BY <2>1 DEF CallArgs
<1>1. ASSUME NEW ts \in Seq(Deltas) PROVE ArgsOf(i, ts) = Gather(CallArgs(i), ts)
  <2>1. \A k \in 1..Len(ts) : ts[k] \in Deltas OBVIOUS
  <2>2. [k \in 1..Len(ts) |-> IF ts[k].index = i THEN ts[k].args ELSE <<>>]
          = [k \in 1..Len(ts) |-> CallArgs(i)[ts[k]]]
    BY <2>1 DEF CallArgs
  <2> QED BY <2>2 DEF ArgsOf, Gather
<1>2. ArgsOf(i, <<>>) = <<>>
  <2>1. <<>> \in Seq(Deltas) OBVIOUS
  <2> QED BY <1>1, <2>1, GatherEmpty
<1>3. ASSUME NEW ts \in Seq(Deltas) PROVE ArgsOf(i, ts) \in Seq(Chars)
  BY <1>0, <1>1, GatherType
<1>4. ASSUME NEW ts \in Seq(Deltas), NEW t \in Deltas
      PROVE  ArgsOf(i, Append(ts, t)) =
               IF t.index = i THEN ArgsOf(i, ts) \o t.args ELSE ArgsOf(i, ts)
  <2>1. Append(ts, t) \in Seq(Deltas) OBVIOUS
  <2>2. Gather(CallArgs(i), Append(ts, t)) = Gather(CallArgs(i), ts) \o CallArgs(i)[t]
    BY <1>0, GatherAppend
  <2>3. PICK v \in Seq(Chars) : v = ArgsOf(i, ts)
    BY <1>3
  <2>4. v \o <<>> = v OBVIOUS
  <2> QED BY <1>1, <2>1, <2>2, <2>3, <2>4 DEF CallArgs
<1> QED BY <1>2, <1>3, <1>4

LEMMA HeaderOfIs ==
  ASSUME NEW i
  PROVE  /\ HeaderOf(i, <<>>) = NoHeader
         /\ \A ts \in Seq(Deltas) :
              /\ HeaderOf(i, ts) \in Headers \cup {NoHeader}
              /\ \A t \in Deltas : HeaderOf(i, Append(ts, t)) =
                   IF t.index = i /\ t.header # NoHeader THEN t.header ELSE HeaderOf(i, ts)
<1>1. HeaderOf(i, <<>>) = NoHeader
  BY DEF HeaderOf
<1>2. ASSUME NEW ts \in Seq(Deltas)
      PROVE  /\ HeaderOf(i, ts) \in Headers \cup {NoHeader}
             /\ \A t \in Deltas : HeaderOf(i, Append(ts, t)) =
                   IF t.index = i /\ t.header # NoHeader THEN t.header ELSE HeaderOf(i, ts)
  <2>1. PICK K : K = {k \in 1..Len(ts) : ts[k].index = i /\ ts[k].header # NoHeader}
    OBVIOUS
  <2>2. HeaderOf(i, ts) = IF K = {} THEN NoHeader ELSE ts[Max(K)].header
    BY <2>1 DEF HeaderOf
  <2>3. PICK n \in Nat : n = Len(ts)
    OBVIOUS
  <2>4. K # {} => Max(K) \in 1..n
    <3> SUFFICES ASSUME K # {} PROVE Max(K) \in 1..n
      OBVIOUS
    <3>1. K \subseteq 1..n
      BY <2>1, <2>3
    <3>2. \E k \in K : \A j \in K : k >= j
      BY <3>1, Largest
    <3> QED BY <3>1, <3>2 DEF Max
  <2>5. HeaderOf(i, ts) \in Headers \cup {NoHeader}
    <3>1. \A k \in 1..n : ts[k].header \in Headers \cup {NoHeader}
      <4>1. \A k \in 1..n : ts[k] \in Deltas BY <2>3
      <4> QED BY <4>1 DEF Deltas
    <3> QED BY <2>2, <2>4, <3>1
  <2>6. ASSUME NEW t \in Deltas
        PROVE  HeaderOf(i, Append(ts, t)) =
                 IF t.index = i /\ t.header # NoHeader THEN t.header ELSE HeaderOf(i, ts)
    <3>1. PICK us : us = Append(ts, t)
      OBVIOUS
    <3>2. /\ Len(us) = n + 1 /\ us[n + 1] = t /\ 1..(n + 1) = 1..n \cup {n + 1}
          /\ \A k \in 1..n : us[k] = ts[k]
      BY <2>3, <3>1, AppendedIs
    <3>3. PICK L : L = {k \in 1..Len(us) : us[k].index = i /\ us[k].header # NoHeader}
      OBVIOUS
    <3>4. HeaderOf(i, us) = IF L = {} THEN NoHeader ELSE us[Max(L)].header
      BY <3>3 DEF HeaderOf
    <3>5. CASE t.index = i /\ t.header # NoHeader
      <4>1. L = K \cup {n + 1} /\ K \subseteq 1..n
        BY <2>1, <2>3, <3>2, <3>3, <3>5
      <4>2. Max(L) = n + 1
        BY <4>1, MaxAdded
      <4> QED BY <3>1, <3>2, <3>4, <3>5, <4>1, <4>2
    <3>6. CASE ~(t.index = i /\ t.header # NoHeader)
      <4>1. L = K
        BY <2>1, <2>3, <3>2, <3>3, <3>6
      <4> QED BY <2>2, <2>4, <3>1, <3>2, <3>4, <3>6, <4>1
    <3> QED BY <3>5, <3>6
  <2> QED BY <2>5, <2>6
<1> QED BY <1>1, <1>2

\* Headers that come first in a sequence come first in each beginning of it.
LEMMA HeadersFirstIs ==
  /\ HeadersFirst(<<>>)
  /\ \A ts \in Seq(Deltas) : \A us \in Seq(Deltas) : HeadersFirst(ts \o us) => HeadersFirst(ts)
  /\ \A ts \in Seq(Deltas) : \A t \in Deltas : HeadersFirst(Append(ts, t)) =>
       HeadersFirst(ts) /\ (t.header # NoHeader \/ t.index \in Called(ts))
<1>1. HeadersFirst(<<>>)
  BY DEF HeadersFirst
<1>2. ASSUME NEW ts \in Seq(Deltas), NEW us \in Seq(Deltas), HeadersFirst(ts \o us)
      PROVE  HeadersFirst(ts)
  <2>1. PICK vs : vs = ts \o us OBVIOUS
  <2>2. /\ Len(ts) \in Nat /\ Len(us) \in Nat /\ Len(vs) = Len(ts) + Len(us)
        /\ \A k \in 1..Len(ts) : vs[k] = ts[k]
    BY <2>1
  <2>3. \A k \in 1..Len(ts) : k \in 1..Len(vs) /\ \A j \in 1..(k - 1) : j \in 1..Len(ts)
    BY <2>2
  <2>4. \A k \in 1..Len(vs) : vs[k].header # NoHeader
                                \/ \E j \in 1..(k - 1) : vs[j].index = vs[k].index
    BY <1>2, <2>1 DEF HeadersFirst
  <2> QED BY <2>2, <2>3, <2>4 DEF HeadersFirst
<1>3. ASSUME NEW ts \in Seq(Deltas), NEW t \in Deltas, HeadersFirst(Append(ts, t))
      PROVE  HeadersFirst(ts) /\ (t.header # NoHeader \/ t.index \in Called(ts))
  <2>1. <<t>> \in Seq(Deltas) /\ Append(ts, t) = ts \o <<t>>
    OBVIOUS
  <2>2. PICK n \in Nat : n = Len(ts)
    OBVIOUS
  <2>3. PICK us : us = Append(ts, t) OBVIOUS
  <2>4. /\ Len(us) = n + 1 /\ us[n + 1] = t /\ n + 1 \in 1..Len(us)
        /\ \A k \in 1..n : us[k] = ts[k]
    BY <2>2, <2>3, AppendedIs
  <2>5. t.header # NoHeader \/ \E j \in 1..((n + 1) - 1) : us[j].index = t.index
    BY <1>3, <2>3, <2>4 DEF HeadersFirst
  <2>6. (n + 1) - 1 = n
    OBVIOUS
  <2> QED BY <1>2, <1>3, <2>1, <2>2, <2>4, <2>5, <2>6 DEF Called
<1> QED BY <1>1, <1>2, <1>3

-----------------------------------------------------------------------------
(* Beginnings.                                                             *)

LEMMA BeginsIs ==
  ASSUME NEW S, NEW s \in Seq(S)
  PROVE  /\ Begins(S, s, s)
         /\ \A u \in Seq(S) : Begins(S, s, s \o u)
         /\ \A t \in Seq(S) : \A u \in Seq(S) : Begins(S, s, t) => Begins(S, s, t \o u)
<1>1. <<>> \in Seq(S) /\ s \o <<>> = s OBVIOUS
<1>2. Begins(S, s, s) BY <1>1 DEF Begins
<1>3. ASSUME NEW t \in Seq(S), NEW u \in Seq(S), Begins(S, s, t) PROVE Begins(S, s, t \o u)
  <2>1. PICK v \in Seq(S) : t = s \o v BY <1>3 DEF Begins
  <2>2. v \o u \in Seq(S) /\ (s \o v) \o u = s \o (v \o u) OBVIOUS
  <2> QED BY <2>1, <2>2 DEF Begins
<1> QED BY <1>2, <1>3 DEF Begins

LEMMA OutputsAreReports ==
  /\ Outputs \subseteq Reports /\ Failed \in Reports /\ Failed \in Conclusions
  /\ \A r \in Finishes : \A w \in BOOLEAN : Completed(r, w) \in Reports
  /\ \A e \in Seq(Outputs) : e \in Seq(Reports)
  /\ \A t \in Seq(Chars) : [type |-> "text", text |-> t] \in Outputs
  /\ \A t \in Deltas : [type |-> "tool", tool |-> t] \in Outputs
  /\ [type |-> "thought"] \in Outputs /\ [type |-> "thought_ends"] \in Outputs
<1>1. /\ Outputs \subseteq Reports /\ Failed \in Reports /\ Failed \in Conclusions
      /\ \A r \in Finishes : \A w \in BOOLEAN : Completed(r, w) \in Reports
  BY DEF Reports, Conclusions
<1>2. \A e \in Seq(Outputs) : e \in Seq(Reports)
  BY <1>1
<1>3. /\ \A t \in Seq(Chars) : [type |-> "text", text |-> t] \in Outputs
      /\ \A t \in Deltas : [type |-> "tool", tool |-> t] \in Outputs
      /\ [type |-> "thought"] \in Outputs /\ [type |-> "thought_ends"] \in Outputs
  BY DEF Outputs
<1> QED BY <1>1, <1>2, <1>3

LEMMA EmitIs ==
  ASSUME NEW h \in Seq(Reports), NEW d \in Decoders, NEW x \in Reports
  PROVE  /\ Emit(d, x) \in Decoders
         /\ h \o d.queued \in Seq(Reports)
         /\ h \o Emit(d, x).queued = Append(h \o d.queued, x)
         /\ Emit(d, x).finished = d.finished /\ Emit(d, x).finish = d.finish
         /\ Emit(d, x).calls = d.calls /\ Emit(d, x).constraint = d.constraint
         /\ Emit(d, x).thinking = d.thinking /\ Emit(d, x).filter = d.filter
<1>1. d.queued \in Seq(Reports) BY DEF Decoders
<1>2. Append(d.queued, x) \in Seq(Reports) BY <1>1
<1>3. /\ Emit(d, x).queued = Append(d.queued, x)
      /\ Emit(d, x).finished = d.finished /\ Emit(d, x).finish = d.finish
      /\ Emit(d, x).calls = d.calls /\ Emit(d, x).constraint = d.constraint
      /\ Emit(d, x).thinking = d.thinking /\ Emit(d, x).filter = d.filter
  BY DEF Emit, Decoders
<1>4. Emit(d, x) \in Decoders BY <1>2 DEF Emit, Decoders
<1>5. /\ h \o d.queued \in Seq(Reports)
      /\ h \o Append(d.queued, x) = Append(h \o d.queued, x)
  BY <1>1, ConcatAppend
<1> QED BY <1>3, <1>4, <1>5

\* Something that is neither text nor a tool call.
LEMMA RunsOn ==
  ASSUME NEW h \in Seq(Reports), NEW d, NEW text, NEW tools, NEW reason, NEW constraints,
         Runs(h, d, text, tools, reason, constraints),
         NEW x \in Outputs, x.type \notin {"text", "tool"},
         NEW c, c \in Decoders, c.finished = d.finished, c.finish = d.finish, c.calls = d.calls,
         c.constraint = d.constraint, h \o c.queued = Append(h \o d.queued, x)
  PROVE  Runs(h, c, text, tools, reason, constraints)
<1>1. h \o d.queued \in Seq(Outputs) /\ h \o d.queued \in Seq(Reports) /\ x \in Reports
  BY OutputsAreReports DEF Runs
<1>2. h \o c.queued \in Seq(Outputs)
  BY <1>1
<1>3. Words(h \o c.queued) = Words(h \o d.queued) /\ Parts(h \o c.queued) = Parts(h \o d.queued)
  BY <1>1, WordsAre, PartsAre
<1> QED BY <1>2, <1>3 DEF Runs

\* A text, even an empty one.
LEMMA RunsPasses ==
  ASSUME NEW h \in Seq(Reports), NEW d, NEW text, NEW tools, NEW reason, NEW constraints,
         Runs(h, d, text, tools, reason, constraints), NEW t \in Seq(Chars)
  PROVE  Runs(h, Emit(d, [type |-> "text", text |-> t]), text \o t, tools, reason, constraints)
<1>1. d \in Decoders /\ ~d.finished BY DEF Runs
<1>2. h \o d.queued \in Seq(Outputs) /\ h \o d.queued \in Seq(Reports)
  BY OutputsAreReports DEF Runs
<1>3. PICK x : x = [type |-> "text", text |-> t] OBVIOUS
<1>4. x \in Outputs /\ x \in Reports /\ x.type = "text" /\ x.text = t
  BY <1>3, OutputsAreReports
<1>5. PICK c : c = Emit(d, x) OBVIOUS
<1>6. /\ c \in Decoders /\ h \o c.queued = Append(h \o d.queued, x)
      /\ c.finished = d.finished /\ c.finish = d.finish
      /\ c.calls = d.calls /\ c.constraint = d.constraint
  <2>1. /\ Emit(d, x) \in Decoders /\ h \o Emit(d, x).queued = Append(h \o d.queued, x)
        /\ Emit(d, x).finished = d.finished /\ Emit(d, x).finish = d.finish
        /\ Emit(d, x).calls = d.calls /\ Emit(d, x).constraint = d.constraint
    <3>1. d \in Decoders /\ x \in Reports BY <1>1, <1>4
    <3> QED BY <3>1, EmitIs, ZenonT(60)
  <2> QED BY <1>5, <2>1
<1>7. h \o c.queued \in Seq(Outputs)
  BY <1>2, <1>4, <1>6
<1>8. Words(h \o c.queued) = text \o t /\ Parts(h \o c.queued) = tools
  BY <1>2, <1>4, <1>6, WordsAre, PartsAre DEF Runs
<1>9. Runs(h, c, text \o t, tools, reason, constraints)
  BY <1>6, <1>7, <1>8 DEF Runs
<1> QED BY <1>3, <1>5, <1>9

LEMMA RunsText ==
  ASSUME NEW h \in Seq(Reports), NEW d, NEW text, NEW tools, NEW reason, NEW constraints,
         Runs(h, d, text, tools, reason, constraints), NEW t \in Seq(Chars)
  PROVE  Runs(h, Texts(d, t), text \o t, tools, reason, constraints)
<1>1. ~d.finished BY DEF Runs
<1>2. CASE t = <<>>
  <2>1. h \o d.queued \in Seq(Reports) BY OutputsAreReports DEF Runs
  <2>2. text \in Seq(Chars) BY <2>1, WordsAre DEF Runs
  <2>3. text \o t = text BY <1>2, <2>2
  <2> QED BY <1>2, <2>3 DEF Texts
<1>3. CASE t # <<>>
  BY <1>1, <1>3, RunsPasses DEF Texts
<1> QED BY <1>2, <1>3

\* A tool-call delta is passed on, in whatever way it was looked at.
LEMMA RunsTool ==
  ASSUME NEW h \in Seq(Reports), NEW d, NEW text, NEW tools, NEW reason, NEW constraints,
         Runs(h, d, text, tools, reason, constraints), NEW t \in Deltas,
         NEW c, c \in Decoders, ~c.finished, c.finish = d.finish, c.constraint = d.constraint,
         c.queued = d.queued, NEW x, x = [type |-> "tool", tool |-> t],
         request.engine = "llama" =>
           \A i \in Indexes :
             c.calls[i] = [seen |-> i \in Called(tools \o <<t>>),
                           header |-> HeaderOf(i, tools \o <<t>>),
                           args |-> ArgsOf(i, tools \o <<t>>)]
  PROVE  Runs(h, Emit(c, x), text, tools \o <<t>>, reason, constraints)
<1>1. h \o d.queued \in Seq(Outputs) /\ h \o d.queued \in Seq(Reports)
  BY OutputsAreReports DEF Runs
<1>2. x \in Outputs /\ x \in Reports /\ x.type = "tool" /\ x.tool = t
  BY OutputsAreReports
<1>3. PICK e : e = Emit(c, x) OBVIOUS
<1>4. /\ e \in Decoders /\ h \o e.queued = Append(h \o d.queued, x)
      /\ e.finished = c.finished /\ e.finish = d.finish
      /\ e.calls = c.calls /\ e.constraint = d.constraint
  <2>1. /\ Emit(c, x) \in Decoders /\ h \o Emit(c, x).queued = Append(h \o c.queued, x)
        /\ Emit(c, x).finished = c.finished /\ Emit(c, x).finish = c.finish
        /\ Emit(c, x).calls = c.calls /\ Emit(c, x).constraint = c.constraint
    <3>1. x \in Reports BY <1>2
    <3>2. Emit(c, x) \in Decoders /\ h \o Emit(c, x).queued = Append(h \o c.queued, x)
      BY <3>1, EmitIs
    <3>3. Emit(c, x).finished = c.finished /\ Emit(c, x).finish = c.finish
      BY <3>1, EmitIs
    <3>4. Emit(c, x).calls = c.calls /\ Emit(c, x).constraint = c.constraint
      BY <3>1, EmitIs
    <3> QED BY <3>2, <3>3, <3>4
  <2> QED BY <1>3, <2>1
<1>5. h \o e.queued \in Seq(Outputs)
  BY <1>1, <1>2, <1>4
<1>6. Words(h \o e.queued) = text /\ Parts(h \o e.queued) = Append(tools, t)
  BY <1>1, <1>2, <1>4, WordsAre, PartsAre DEF Runs
<1>7. Append(tools, t) = tools \o <<t>>
  <2>1. PICK s \in Seq(Deltas) : s = tools BY <1>1, PartsAre DEF Runs
  <2>2. Append(s, t) = s \o <<t>> OBVIOUS
  <2> QED BY <2>1, <2>2
<1>8. Runs(h, e, text, tools \o <<t>>, reason, constraints)
  BY <1>4, <1>5, <1>6, <1>7 DEF Runs
<1> QED BY <1>3, <1>8

\* What Broke says does not change when more is said.
LEMMA BrokeGrows ==
  ASSUME NEW h, NEW d, NEW text \in Seq(Chars), NEW tools \in Seq(Deltas), Broke(h, d, text, tools),
         NEW t \in Seq(Chars), NEW ts \in Seq(Deltas)
  PROVE  Broke(h, d, text \o t, tools \o ts)
<1>1. PICK e \in Seq(Outputs) :
        /\ h \o d.queued = Append(e, Failed)
        /\ Begins(Chars, Words(e), text)
        /\ Begins(Deltas, Parts(e), tools)
  BY DEF Broke
<1>2. Words(e) \in Seq(Chars) /\ Parts(e) \in Seq(Deltas)
  BY OutputsAreReports, WordsAre, PartsAre
<1>3. Begins(Chars, Words(e), text \o t) /\ Begins(Deltas, Parts(e), tools \o ts)
  BY <1>1, <1>2, BeginsIs
<1> QED BY <1>1, <1>3 DEF Broke

LEMMA RunsType ==
  ASSUME NEW h, NEW d, NEW text, NEW tools, NEW reason, NEW constraints,
         Runs(h, d, text, tools, reason, constraints)
  PROVE  text \in Seq(Chars) /\ tools \in Seq(Deltas) /\ d \in Decoders /\ ~d.finished
  BY OutputsAreReports, WordsAre, PartsAre DEF Runs

LEMMA RunsFail ==
  ASSUME NEW h \in Seq(Reports), NEW d, NEW text, NEW tools, NEW reason, NEW constraints,
         Runs(h, d, text, tools, reason, constraints)
  PROVE  Broke(h, Fail(d), text, tools)
<1>1. text \in Seq(Chars) /\ tools \in Seq(Deltas) /\ d \in Decoders
  BY RunsType
<1>2. PICK c : c = Fail(d) OBVIOUS
<1>3. Append(d.queued, Failed) \in Seq(Reports)
  <2>1. d.queued \in Seq(Reports) BY <1>1 DEF Decoders
  <2> QED BY <2>1, OutputsAreReports
<1>4. c.queued = Append(d.queued, Failed) /\ c.finished
  BY <1>1, <1>2 DEF Fail, Decoders
<1>5. c \in Decoders
  BY <1>1, <1>2, <1>3 DEF Fail, Decoders
<1>6. h \o c.queued = Append(h \o d.queued, Failed)
  <2>1. d.queued \in Seq(Reports) BY <1>1 DEF Decoders
  <2>2. Failed \in Reports BY OutputsAreReports
  <2> QED BY <1>4, <2>1, <2>2, ConcatAppend
<1>7. Broke(h, c, text, tools)
  BY <1>1, <1>4, <1>5, <1>6, BeginsIs DEF Broke, Runs
<1> QED BY <1>2, <1>7

-----------------------------------------------------------------------------
(* What the stages of the decoders pass on.                                *)

\* One that runs or failed.
Tells(h, d, text, tools, reason, constraints) ==
  Runs(h, d, text, tools, reason, constraints) \/ Broke(h, d, text, tools)

\* What is kept of a usage changes nothing that was said.
LEMMA UsageRuns ==
  ASSUME request \in Requests,
         NEW h, NEW d, NEW text, NEW tools, NEW reason, NEW constraints,
         Runs(h, d, text, tools, reason, constraints), NEW f \in Sendable
  PROVE  Runs(h, Usage(d, f), text, tools, reason, constraints)
<1>1. d \in Decoders BY DEF Runs
<1>2. PICK c : c = Usage(d, f) OBVIOUS
<1>3. f.usage \in BOOLEAN BY SendableAre
<1>4. PICK w \in BOOLEAN : w = (d.usage \/ f.usage) OBVIOUS
<1>5. c = [d EXCEPT !.usage = w] BY <1>1, <1>2, <1>4 DEF Usage, Decoders
<1>6. /\ c \in Decoders /\ c.queued = d.queued /\ c.finished = d.finished /\ c.finish = d.finish
      /\ c.calls = d.calls /\ c.constraint = d.constraint
  BY <1>1, <1>5 DEF Decoders
<1>7. Runs(h, c, text, tools, reason, constraints) BY <1>6 DEF Runs
<1> QED BY <1>2, <1>7

LEMMA FinishedOrNot ==
  ASSUME NEW h, NEW d, NEW text, NEW tools, NEW reason, NEW constraints
  PROVE  /\ Runs(h, d, text, tools, reason, constraints) => d \in Decoders /\ d.finished = FALSE
         /\ Broke(h, d, text, tools) => d \in Decoders /\ d.finished = TRUE
  BY DEF Runs, Broke, Decoders

LEMMA TextsTell ==
  ASSUME NEW h \in Seq(Reports), NEW d, NEW text \in Seq(Chars), NEW tools \in Seq(Deltas),
         NEW reason, NEW constraints, Tells(h, d, text, tools, reason, constraints),
         NEW t \in Seq(Chars)
  PROVE  Tells(h, Texts(d, t), text \o t, tools, reason, constraints)
<1>1. CASE Runs(h, d, text, tools, reason, constraints)
  BY <1>1, RunsText DEF Tells
<1>2. CASE Broke(h, d, text, tools)
  <2>1. d.finished BY <1>2, FinishedOrNot
  <2>2. <<>> \in Seq(Deltas) /\ tools \o <<>> = tools OBVIOUS
  <2>3. Broke(h, d, text \o t, tools \o <<>>) BY <1>2, <2>2, BrokeGrows
  <2> QED BY <2>1, <2>2, <2>3 DEF Tells, Texts
<1> QED BY <1>1, <1>2 DEF Tells

LEMMA ToolsTell ==
  ASSUME NEW h \in Seq(Reports), NEW d, NEW text \in Seq(Chars), NEW tools \in Seq(Deltas),
         NEW reason, NEW constraints, Tells(h, d, text, tools, reason, constraints),
         request.engine # "llama",
         NEW ts \in Seq(Deltas), ts = <<>> \/ \E t \in Deltas : ts = <<t>>
  PROVE  Tells(h, Tools(d, ts), text, tools \o ts, reason, constraints)
<1>0. <<>> \in Seq(Chars) /\ text \o <<>> = text /\ tools \o <<>> = tools OBVIOUS
<1>1. CASE Runs(h, d, text, tools, reason, constraints) /\ ts = <<>>
  BY <1>0, <1>1 DEF Tells, Tools
<1>2. CASE Runs(h, d, text, tools, reason, constraints) /\ \E t \in Deltas : ts = <<t>>
  <2>1. PICK t \in Deltas : ts = <<t>> BY <1>2
  <2>2. ts # <<>> /\ ts[1] = t BY <2>1
  <2>3. d \in Decoders /\ ~d.finished BY <1>2, FinishedOrNot
  <2>4. PICK x : x = [type |-> "tool", tool |-> t] OBVIOUS
  <2>5. Tools(d, ts) = Emit(d, x) BY <2>2, <2>3, <2>4 DEF Tools
  <2>6. Runs(h, Emit(d, x), text, tools \o <<t>>, reason, constraints)
    BY <1>2, <2>3, <2>4, RunsTool
  <2> QED BY <2>1, <2>5, <2>6 DEF Tells
<1>3. CASE Broke(h, d, text, tools)
  <2>1. d.finished BY <1>3, FinishedOrNot
  <2>2. Broke(h, d, text \o <<>>, tools \o ts) BY <1>0, <1>3, BrokeGrows
  <2> QED BY <1>0, <2>1, <2>2 DEF Tells, Tools
<1> QED BY <1>1, <1>2, <1>3 DEF Tells

\* StreamCalls.deltas keeps the sums of what it passed on, or fails.
LEMMA TrackedTell ==
  ASSUME NEW h \in Seq(Reports), NEW d, NEW text \in Seq(Chars), NEW tools \in Seq(Deltas),
         NEW reason, NEW constraints, Runs(h, d, text, tools, reason, constraints),
         request.engine = "llama",
         NEW ts \in Seq(Deltas), ts = <<>> \/ \E t \in Deltas : ts = <<t>>
  PROVE  Tells(h, TrackedTools(d, ts), text, tools \o ts, reason, constraints)
<1>0. <<>> \in Seq(Chars) /\ text \o <<>> = text /\ tools \o <<>> = tools OBVIOUS
<1>1. CASE ts = <<>>
  BY <1>0, <1>1 DEF Tells, TrackedTools
<1>2. CASE \E t \in Deltas : ts = <<t>>
  <2>1. PICK t \in Deltas : ts = <<t>> BY <1>2
  <2>2. ts # <<>> /\ ts[1] = t BY <2>1
  <2>3. d \in Decoders /\ ~d.finished BY FinishedOrNot
  <2>4. PICK c : c = d.calls[t.index] OBVIOUS
  <2>5. PICK header : header = IF t.header = NoHeader THEN c.header ELSE t.header OBVIOUS
  <2>6. t.index \in Indexes /\ t.header \in Headers \cup {NoHeader} /\ t.args \in Seq(Chars)
    BY DEF Deltas
  <2>7. c \in [seen : BOOLEAN, header : Headers \cup {NoHeader}, args : Seq(Chars)]
    BY <2>3, <2>4, <2>6 DEF Decoders
  <2>8. PICK new : new = [seen |-> TRUE, header |-> header, args |-> c.args \o t.args] OBVIOUS
  <2>9. PICK x : x = [type |-> "tool", tool |-> t] OBVIOUS
  <2>10. PICK e : e = [d EXCEPT !.calls[t.index] = new] OBVIOUS
  <2>11. TrackedTools(d, ts) = IF c.header \notin {NoHeader, header} THEN Fail(d) ELSE Emit(e, x)
    BY <2>2, <2>3, <2>4, <2>5, <2>8, <2>9, <2>10 DEF TrackedTools
  <2>12. CASE c.header \notin {NoHeader, header}
    <3>1. Broke(h, Fail(d), text, tools) BY RunsFail
    <3>2. Broke(h, Fail(d), text \o <<>>, tools \o ts) BY <1>0, <3>1, BrokeGrows
    <3> QED BY <1>0, <2>11, <2>12, <3>2 DEF Tells
  <2>13. CASE c.header \in {NoHeader, header}
    <3>1. new \in [seen : BOOLEAN, header : Headers \cup {NoHeader}, args : Seq(Chars)]
      BY <2>5, <2>6, <2>7, <2>8
    <3>2. /\ e \in Decoders /\ e.queued = d.queued /\ e.finished = d.finished
          /\ e.finish = d.finish /\ e.constraint = d.constraint
          /\ \A i \in Indexes : e.calls[i] = IF i = t.index THEN new ELSE d.calls[i]
      BY <2>3, <2>6, <2>10, <3>1 DEF Decoders
    <3>3. \A i \in Indexes : d.calls[i] = [seen |-> i \in Called(tools),
                                           header |-> HeaderOf(i, tools), args |-> ArgsOf(i, tools)]
      BY DEF Runs
    <3>4. tools \o <<t>> = Append(tools, t) OBVIOUS
    <3>5. ASSUME NEW i \in Indexes
          PROVE  e.calls[i] = [seen |-> i \in Called(tools \o <<t>>),
                               header |-> HeaderOf(i, tools \o <<t>>),
                               args |-> ArgsOf(i, tools \o <<t>>)]
      <4>1. /\ Called(tools \o <<t>>) = Called(tools) \cup {t.index}
            /\ HeaderOf(i, tools \o <<t>>) =
                 IF t.index = i /\ t.header # NoHeader THEN t.header ELSE HeaderOf(i, tools)
            /\ ArgsOf(i, tools \o <<t>>) =
                 IF t.index = i THEN ArgsOf(i, tools) \o t.args ELSE ArgsOf(i, tools)
        <5>1. Called(Append(tools, t)) = Called(tools) \cup {t.index}
          BY CalledIs
        <5>2. HeaderOf(i, Append(tools, t)) =
                IF t.index = i /\ t.header # NoHeader THEN t.header ELSE HeaderOf(i, tools)
          BY HeaderOfIs
        <5>3. ArgsOf(i, Append(tools, t)) =
                IF t.index = i THEN ArgsOf(i, tools) \o t.args ELSE ArgsOf(i, tools)
          BY ArgsOfIs
        <5> QED BY <3>4, <5>1, <5>2, <5>3
      <4>2. CASE i = t.index
        <5>1. c.header = HeaderOf(i, tools) /\ c.args = ArgsOf(i, tools)
          <6>1. c = [seen |-> i \in Called(tools), header |-> HeaderOf(i, tools),
                     args |-> ArgsOf(i, tools)]
            BY <2>4, <3>3, <4>2
          <6> QED BY <6>1
        <5>2. header = HeaderOf(i, tools \o <<t>>)
          BY <2>5, <4>1, <4>2, <5>1
        <5>3. e.calls[i] = new BY <3>2, <4>2
        <5>4. ArgsOf(i, tools \o <<t>>) = c.args \o t.args
          BY <4>1, <4>2, <5>1
        <5>5. (i \in Called(tools \o <<t>>)) = TRUE
          BY <4>1, <4>2
        <5> QED BY <2>8, <5>2, <5>3, <5>4, <5>5
      <4>3. CASE i # t.index
        <5>1. (i \in Called(tools \o <<t>>)) = (i \in Called(tools))
          BY <4>1, <4>3
        <5>2. /\ HeaderOf(i, tools \o <<t>>) = HeaderOf(i, tools)
              /\ ArgsOf(i, tools \o <<t>>) = ArgsOf(i, tools)
          BY <4>1, <4>3
        <5>3. e.calls[i] = d.calls[i] BY <3>2, <4>3
        <5> QED BY <3>3, <5>1, <5>2, <5>3
      <4> QED BY <4>2, <4>3
    <3>6. Runs(h, Emit(e, x), text, tools \o <<t>>, reason, constraints)
      BY <2>3, <2>9, <3>2, <3>5, RunsTool
    <3> QED BY <2>1, <2>11, <2>13, <3>6 DEF Tells
  <2> QED BY <2>12, <2>13
<1> QED BY <1>1, <1>2

LEMMA ReasonTells ==
  ASSUME NEW h \in Seq(Reports), NEW d, NEW text \in Seq(Chars), NEW tools \in Seq(Deltas),
         NEW reason, NEW constraints, Tells(h, d, text, tools, reason, constraints), NEW r
  PROVE  Tells(h, FinishReason(d, r), text, tools, IF r = "none" THEN reason ELSE r, constraints)
<1>1. CASE Broke(h, d, text, tools)
  BY <1>1, FinishedOrNot DEF Tells, FinishReason
<1>2. CASE Runs(h, d, text, tools, reason, constraints)
  <2>1. d \in Decoders /\ ~d.finished BY <1>2, FinishedOrNot
  <2>2. CASE r = "none"
    BY <1>2, <2>2 DEF Tells, FinishReason
  <2>3. CASE r # "none" /\ r \in Finishes
    <3>1. PICK c : c = [d EXCEPT !.finish = r] OBVIOUS
    <3>2. /\ c \in Decoders /\ c.queued = d.queued /\ c.finished = d.finished /\ c.finish = r
          /\ c.calls = d.calls /\ c.constraint = d.constraint
      BY <2>1, <2>3, <3>1 DEF Decoders
    <3>3. Runs(h, c, text, tools, r, constraints)
      BY <1>2, <3>2 DEF Runs
    <3> QED BY <2>1, <2>3, <3>1, <3>3 DEF Tells, FinishReason
  <2>4. CASE r # "none" /\ r \notin Finishes
    BY <1>2, <2>1, <2>4, RunsFail DEF Tells, FinishReason
  <2> QED BY <2>2, <2>3, <2>4
<1> QED BY <1>1, <1>2 DEF Tells

LEMMA ObservationTells ==
  ASSUME NEW h \in Seq(Reports), NEW d, NEW text \in Seq(Chars), NEW tools \in Seq(Deltas),
         NEW reason, NEW constraints, Runs(h, d, text, tools, reason, constraints),
         NEW c \in Constraints
  PROVE  Tells(h, Observation(d, c), text, tools, reason, constraints \cup {c})
<1>1. d \in Decoders /\ ~d.finished BY FinishedOrNot
<1>2. Runs(h, d, text, tools, reason, constraints \cup {c})
  BY DEF Runs
<1>3. CASE c = "none"
  BY <1>2, <1>3 DEF Tells, Observation
<1>4. CASE c # "none" /\ d.constraint \in {"none", c}
  <2>1. PICK e : e = [d EXCEPT !.constraint = c] OBVIOUS
  <2>2. /\ e \in Decoders /\ e.queued = d.queued /\ e.finished = d.finished /\ e.finish = d.finish
        /\ e.calls = d.calls /\ e.constraint = c
    BY <1>1, <2>1 DEF Decoders
  <2>3. Runs(h, e, text, tools, reason, constraints \cup {c})
    BY <2>2 DEF Runs
  <2> QED BY <1>4, <2>1, <2>3 DEF Tells, Observation
<1>5. CASE c # "none" /\ d.constraint \notin {"none", c}
  BY <1>5, RunsFail DEF Tells, Observation
<1> QED BY <1>3, <1>4, <1>5

LEMMA EmitRunsOn ==
  ASSUME NEW h \in Seq(Reports), NEW d, NEW text, NEW tools, NEW reason, NEW constraints,
         Runs(h, d, text, tools, reason, constraints),
         NEW x \in Outputs, x.type \notin {"text", "tool"},
         NEW c, c \in Decoders, c.queued = d.queued, c.finished = d.finished,
         c.finish = d.finish, c.calls = d.calls, c.constraint = d.constraint
  PROVE  Runs(h, Emit(c, x), text, tools, reason, constraints)
<1>1. x \in Reports BY OutputsAreReports
<1>2. PICK e : e = Emit(c, x) OBVIOUS
<1>3. e \in Decoders /\ h \o e.queued = Append(h \o c.queued, x)
  BY <1>1, <1>2, EmitIs
<1>4. e.finished = c.finished /\ e.finish = c.finish
  BY <1>1, <1>2, EmitIs
<1>5. e.calls = c.calls /\ e.constraint = c.constraint
  BY <1>1, <1>2, EmitIs
<1>6. Runs(h, e, text, tools, reason, constraints)
  BY <1>3, <1>4, <1>5, RunsOn
<1> QED BY <1>2, <1>6

LEMMA ReasoningTells ==
  ASSUME NEW h \in Seq(Reports), NEW d, NEW text, NEW tools, NEW reason, NEW constraints,
         Tells(h, d, text, tools, reason, constraints), NEW f
  PROVE  Tells(h, Reasoning(d, f), text, tools, reason, constraints)
<1>1. CASE Broke(h, d, text, tools)
  BY <1>1, FinishedOrNot DEF Tells, Reasoning
<1>2. CASE Runs(h, d, text, tools, reason, constraints)
  <2>1. d \in Decoders /\ ~d.finished BY <1>2, FinishedOrNot
  <2>2. PICK x, y : x = [type |-> "thought"] /\ y = [type |-> "thought_ends"] OBVIOUS
  <2>3. /\ x \in Outputs /\ x.type \notin {"text", "tool"}
        /\ y \in Outputs /\ y.type \notin {"text", "tool"}
    BY <2>2, OutputsAreReports
  <2>4. PICK c : c = [d EXCEPT !.thinking = TRUE] OBVIOUS
  <2>5. /\ c \in Decoders /\ c.queued = d.queued /\ c.finished = d.finished /\ c.finish = d.finish
        /\ c.calls = d.calls /\ c.constraint = d.constraint
    BY <2>1, <2>4 DEF Decoders
  <2>6. Runs(h, Emit(c, x), text, tools, reason, constraints)
    BY <1>2, <2>3, <2>5, EmitRunsOn
  <2>7. PICK said : said = IF f.thought /\ ~d.finished THEN Emit(c, x) ELSE d OBVIOUS
  <2>8. Runs(h, said, text, tools, reason, constraints)
    BY <1>2, <2>6, <2>7
  <2>9. PICK e : e = [said EXCEPT !.thinking = FALSE] OBVIOUS
  <2>10. said \in Decoders BY <2>8, FinishedOrNot
  <2>11. /\ e \in Decoders /\ e.queued = said.queued /\ e.finished = said.finished
         /\ e.finish = said.finish /\ e.calls = said.calls /\ e.constraint = said.constraint
    BY <2>9, <2>10 DEF Decoders
  <2>12. Runs(h, Emit(e, y), text, tools, reason, constraints)
    BY <2>3, <2>8, <2>11, EmitRunsOn
  <2>13. Reasoning(d, f) \in {Emit(e, y), said}
    BY <2>2, <2>4, <2>7, <2>9 DEF Reasoning
  <2> QED BY <2>8, <2>12, <2>13 DEF Tells
<1> QED BY <1>1, <1>2 DEF Tells

LEMMA TellsMore ==
  ASSUME NEW h, NEW d, NEW text, NEW tools, NEW reason, NEW constraints, NEW c,
         Tells(h, d, text, tools, reason, constraints)
  PROVE  Tells(h, d, text, tools, reason, constraints \cup {c})
  BY DEF Tells, Runs

LEMMA ConcatType ==
  ASSUME NEW E, NEW s \in Seq(E), NEW t \in Seq(E)
  PROVE  s \o t \in Seq(E)
  OBVIOUS

LEMMA LlamaTells ==
  ASSUME request \in Requests, request.engine = "llama",
         NEW h \in Seq(Reports), NEW d, NEW text, NEW tools, NEW reason, NEW constraints,
         Runs(h, d, text, tools, reason, constraints), NEW f \in Sendable
  PROVE  Tells(h, LlamaFrame(d, f), text \o f.text, tools \o f.tools,
               IF f.finish = "none" THEN reason ELSE f.finish, constraints \cup {f.constraint})
<1>1. /\ f.text \in Seq(Chars)
      /\ f.tools \in Seq(Deltas) /\ (f.tools = <<>> \/ \E t \in Deltas : f.tools = <<t>>)
  BY SendableAre
<1>2. text \in Seq(Chars) /\ tools \in Seq(Deltas) BY RunsType
<1>3. PICK a : a = TrackedTools(d, f.tools) OBVIOUS
<1>4. PICK b : b = FinishReason(a, f.finish) OBVIOUS
<1>5. PICK c : c = Texts(b, f.text) OBVIOUS
<1>6. PICK ts \in Seq(Deltas) : ts = tools \o f.tools
  <2>1. tools \o f.tools \in Seq(Deltas) BY <1>1, <1>2, ConcatType
  <2> QED BY <2>1
<1>7. PICK r : r = IF f.finish = "none" THEN reason ELSE f.finish OBVIOUS
<1>8. Tells(h, a, text, ts, reason, constraints)
  BY <1>1, <1>2, <1>3, <1>6, TrackedTell
<1>9. Tells(h, b, text, ts, r, constraints)
  BY <1>2, <1>4, <1>7, <1>8, ReasonTells
<1>10. Tells(h, c, text \o f.text, ts, r, constraints)
  BY <1>1, <1>2, <1>5, <1>9, TextsTell
<1>11. Tells(h, c, text \o f.text, ts, r, constraints \cup {f.constraint})
  BY <1>10, TellsMore
<1> QED BY <1>3, <1>4, <1>5, <1>6, <1>7, <1>11 DEF LlamaFrame

LEMMA Q27Tells ==
  ASSUME request \in Requests, request.engine = "q27", ~Filtered,
         NEW h \in Seq(Reports), NEW d, NEW text, NEW tools, NEW reason, NEW constraints,
         Runs(h, d, text, tools, reason, constraints), NEW f \in Sendable
  PROVE  Tells(h, Q27Frame(d, f), text \o f.text, tools \o f.tools,
               IF f.finish = "none" THEN reason ELSE f.finish, constraints \cup {f.constraint})
<1>1. /\ f.text \in Seq(Chars)
      /\ f.tools \in Seq(Deltas) /\ (f.tools = <<>> \/ \E t \in Deltas : f.tools = <<t>>)
  BY SendableAre
<1>2. text \in Seq(Chars) /\ tools \in Seq(Deltas) BY RunsType
<1>3. PICK a : a = FinishReason(d, f.finish) OBVIOUS
<1>4. PICK b : b = Texts(a, f.text) OBVIOUS
<1>5. PICK c : c = Tools(b, f.tools) OBVIOUS
<1>6. PICK t \in Seq(Chars) : t = text \o f.text
  <2>1. text \o f.text \in Seq(Chars) BY <1>1, <1>2, ConcatType
  <2> QED BY <2>1
<1>7. PICK r : r = IF f.finish = "none" THEN reason ELSE f.finish OBVIOUS
<1>8. Tells(h, a, text, tools, r, constraints)
  BY <1>2, <1>3, <1>7, ReasonTells DEF Tells
<1>9. Tells(h, b, t, tools, r, constraints)
  BY <1>1, <1>2, <1>4, <1>6, <1>8, TextsTell
<1>10. Tells(h, c, t, tools \o f.tools, r, constraints)
  BY <1>1, <1>2, <1>5, <1>9, ToolsTell
<1>11. Tells(h, c, t, tools \o f.tools, r, constraints \cup {f.constraint})
  BY <1>10, TellsMore
<1>12. request.api # "completions" BY DEF Filtered
<1>13. a.finished => b = a BY <1>4 DEF Texts
<1>14. Q27Frame(d, f) = c BY <1>3, <1>4, <1>5, <1>12, <1>13 DEF Q27Frame
<1> QED BY <1>6, <1>7, <1>11, <1>14

LEMMA NinferTells ==
  ASSUME request \in Requests, request.engine = "ninfer",
         NEW h \in Seq(Reports), NEW d, NEW text, NEW tools, NEW reason, NEW constraints,
         Runs(h, d, text, tools, reason, constraints), NEW f \in Sendable
  PROVE  Tells(h, NinferFrame(d, f), text \o f.text, tools \o f.tools,
               IF f.finish = "none" THEN reason ELSE f.finish, constraints \cup {f.constraint})
<1>1. /\ f.text \in Seq(Chars) /\ f.constraint \in Constraints
      /\ f.tools \in Seq(Deltas) /\ (f.tools = <<>> \/ \E t \in Deltas : f.tools = <<t>>)
  BY SendableAre
<1>2. text \in Seq(Chars) /\ tools \in Seq(Deltas) BY RunsType
<1>3. PICK o : o = Observation(d, f.constraint) OBVIOUS
<1>4. PICK a : a = FinishReason(o, f.finish) OBVIOUS
<1>5. PICK s : s = Reasoning(a, f) OBVIOUS
<1>6. PICK b : b = Texts(s, f.text) OBVIOUS
<1>7. PICK c : c = Tools(b, f.tools) OBVIOUS
<1>8. PICK t \in Seq(Chars) : t = text \o f.text
  <2>1. text \o f.text \in Seq(Chars) BY <1>1, <1>2, ConcatType
  <2> QED BY <2>1
<1>9. PICK r : r = IF f.finish = "none" THEN reason ELSE f.finish OBVIOUS
<1>10. PICK cs : cs = constraints \cup {f.constraint} OBVIOUS
<1>11. Tells(h, o, text, tools, reason, cs)
  BY <1>1, <1>2, <1>3, <1>10, ObservationTells
<1>12. Tells(h, a, text, tools, r, cs)
  BY <1>2, <1>4, <1>9, <1>11, ReasonTells
<1>13. Tells(h, s, text, tools, r, cs)
  BY <1>5, <1>12, ReasoningTells
<1>14. Tells(h, b, t, tools, r, cs)
  BY <1>1, <1>2, <1>6, <1>8, <1>13, TextsTell
<1>15. Tells(h, c, t, tools \o f.tools, r, cs)
  BY <1>1, <1>2, <1>7, <1>14, ToolsTell
<1> QED BY <1>3, <1>4, <1>5, <1>6, <1>7, <1>8, <1>9, <1>10, <1>15 DEF NinferFrame

LEMMA VllmTells ==
  ASSUME request \in Requests, request.engine \in {"vllm", "vllm_responses"},
         NEW h \in Seq(Reports), NEW d, NEW text, NEW tools, NEW reason, NEW constraints,
         Runs(h, d, text, tools, reason, constraints), NEW f \in Sendable
  PROVE  Tells(h, VllmFrame(d, f), text \o f.text, tools \o f.tools,
               IF f.finish = "none" THEN reason ELSE f.finish, constraints \cup {f.constraint})
<1>1. f.text \in Seq(Chars) /\ f.tools \in Seq(Deltas)
  BY SendableAre
<1>2. text \in Seq(Chars) /\ tools \in Seq(Deltas) BY RunsType
<1>3. <<>> \in Seq(Chars) /\ <<>> \in Seq(Deltas) OBVIOUS
<1>4. /\ Runs(h, Passes(d, f), text \o f.text, tools, reason, constraints)
      /\ text \o f.text \in Seq(Chars)
  <2>1. CASE f.says BY <1>1, <2>1, RunsPasses, RunsType DEF Passes
  <2>2. CASE ~f.says
    <3>1. f.text = <<>> BY <2>2, SendableAre
    <3>2. text \o f.text = text BY <1>2, <3>1
    <3> QED BY <1>2, <2>2, <3>2 DEF Passes
  <2> QED BY <2>1, <2>2
<1>5. CASE f.tools # <<>>
  <2>1. Broke(h, Fail(d), text, tools) BY RunsFail
  <2>2. Broke(h, Fail(d), text \o f.text, tools \o f.tools) BY <1>1, <1>2, <2>1, BrokeGrows
  <2> QED BY <1>5, <2>2 DEF Tells, VllmFrame
<1>6. CASE f.tools = <<>>
  <2>1. tools \o f.tools = tools
    <3>1. \A s \in Seq(Deltas) : s \o <<>> = s OBVIOUS
    <3> QED BY <1>2, <1>6, <3>1
  <2>2. CASE f.finish = "tools"
    <3>1. Broke(h, Fail(Passes(d, f)), text \o f.text, tools) BY <1>4, RunsFail
    <3> QED BY <1>6, <2>1, <2>2, <3>1 DEF Tells, VllmFrame
  <2>3. CASE f.finish # "tools"
    <3>1. PICK r : r = IF f.finish = "none" THEN reason ELSE f.finish OBVIOUS
    <3>2. Tells(h, Passes(d, f), text \o f.text, tools, reason, constraints) BY <1>4 DEF Tells
    <3>3. Tells(h, FinishReason(Passes(d, f), f.finish), text \o f.text, tools, r, constraints)
      BY <1>2, <1>4, <3>1, <3>2, ReasonTells
    <3>4. VllmFrame(d, f) = FinishReason(Passes(d, f), f.finish)
      BY <1>6, <2>3 DEF VllmFrame
    <3> QED BY <2>1, <3>1, <3>3, <3>4, TellsMore
  <2> QED BY <2>2, <2>3
<1> QED BY <1>5, <1>6

\* A delta, for every engine but the last.
LEMMA FrameTells ==
  ASSUME request \in Requests, ~Filtered, request.engine # "vllm_responses",
         NEW h \in Seq(Reports), NEW d, NEW text, NEW tools, NEW reason, NEW constraints,
         Runs(h, d, text, tools, reason, constraints), NEW f \in Sendable, f.kind = "delta"
  PROVE  Tells(h, DecodeFrame(d, f), text \o f.text, tools \o f.tools,
               IF f.finish = "none" THEN reason ELSE f.finish, constraints \cup {f.constraint})
<1>1. d.finished = FALSE BY FinishedOrNot
<1>2. request.engine \in {"llama", "q27", "ninfer", "vllm"}
  BY StreamAssumption DEF Engines
<1>7. PICK c : c = Usage(d, f) OBVIOUS
<1>8. Runs(h, c, text, tools, reason, constraints) BY <1>7, UsageRuns
<1>9. DecodeFrame(d, f) = DeltaFrame(c, f) BY <1>1, <1>7 DEF DecodeFrame
<1>3. CASE request.engine = "llama"
  <2>1. DecodeFrame(d, f) = LlamaFrame(c, f) BY <1>9, <1>3 DEF DeltaFrame
  <2>2. Tells(h, LlamaFrame(c, f), text \o f.text, tools \o f.tools,
              IF f.finish = "none" THEN reason ELSE f.finish, constraints \cup {f.constraint})
    BY <1>3, <1>8, LlamaTells
  <2> QED BY <2>1, <2>2
<1>4. CASE request.engine = "q27"
  <2>1. DecodeFrame(d, f) = Q27Frame(c, f) BY <1>9, <1>4 DEF DeltaFrame
  <2>2. Tells(h, Q27Frame(c, f), text \o f.text, tools \o f.tools,
              IF f.finish = "none" THEN reason ELSE f.finish, constraints \cup {f.constraint})
    BY <1>4, <1>8, Q27Tells
  <2> QED BY <2>1, <2>2
<1>5. CASE request.engine = "ninfer"
  <2>1. DecodeFrame(d, f) = NinferFrame(c, f) BY <1>9, <1>5 DEF DeltaFrame
  <2>2. Tells(h, NinferFrame(c, f), text \o f.text, tools \o f.tools,
              IF f.finish = "none" THEN reason ELSE f.finish, constraints \cup {f.constraint})
    BY <1>5, <1>8, NinferTells
  <2> QED BY <2>1, <2>2
<1>6. CASE request.engine = "vllm"
  <2>1. DecodeFrame(d, f) = VllmFrame(c, f) BY <1>9, <1>6 DEF DeltaFrame
  <2>2. Tells(h, VllmFrame(c, f), text \o f.text, tools \o f.tools,
              IF f.finish = "none" THEN reason ELSE f.finish, constraints \cup {f.constraint})
    BY <1>6, <1>8, VllmTells
  <2> QED BY <2>1, <2>2
<1> QED BY <1>2, <1>3, <1>4, <1>5, <1>6

-----------------------------------------------------------------------------
(* The end of a decoder.                                                   *)

\* One that has just completed.
Closes(h, d, text, tools, reason, constraints) ==
  /\ d \in Decoders /\ d.finished /\ reason \in Finishes
  /\ \E e \in Seq(Outputs) :
       \E w \in BOOLEAN :
         h \o d.queued = Append(e, Completed(reason, w)) /\ Words(e) = text /\ Parts(e) = tools
  /\ request.engine = "llama" => CallsAreSound(tools, reason)
  /\ request.engine = "ninfer" /\ request.checked /\ reason # "length" => "complete" \in constraints

LEMMA CallsSound ==
  ASSUME NEW h, NEW d, NEW text, NEW tools, NEW reason, NEW constraints,
         Runs(h, d, text, tools, reason, constraints), request.engine = "llama", CallsFinish(d)
  PROVE  CallsAreSound(tools, reason)
<1>1. tools \in Seq(Deltas) BY RunsType
<1>2. PICK seen : seen = {i \in Indexes : d.calls[i].seen} OBVIOUS
<1>3. Called(tools) \subseteq Indexes
  <2>1. \A k \in 1..Len(tools) : tools[k] \in Deltas BY <1>1
  <2>2. \A t \in Deltas : t.index \in Indexes BY DEF Deltas
  <2> QED BY <2>1, <2>2 DEF Called
<1>4. ASSUME NEW i \in Indexes
      PROVE  /\ d.calls[i].seen = (i \in Called(tools))
             /\ d.calls[i].header = HeaderOf(i, tools) /\ d.calls[i].args = ArgsOf(i, tools)
  <2>1. d.calls[i] = [seen |-> i \in Called(tools), header |-> HeaderOf(i, tools),
                      args |-> ArgsOf(i, tools)]
    BY DEF Runs
  <2> QED BY <2>1
<1>5. seen = Called(tools) BY <1>2, <1>3, <1>4
<1>6. /\ \A i \in seen : d.calls[i].header # NoHeader /\ d.calls[i].args \in Objects
      /\ (seen # {}) <=> d.finish = "tools"
  BY <1>2 DEF CallsFinish
<1>7. d.finish = reason BY DEF Runs
<1>8. \A i \in Called(tools) : HeaderOf(i, tools) # NoHeader /\ ArgsOf(i, tools) \in Objects
  BY <1>3, <1>4, <1>5, <1>6
<1> QED BY <1>5, <1>6, <1>7, <1>8 DEF CallsAreSound

LEMMA CompleteCloses ==
  ASSUME NEW h \in Seq(Reports), NEW d, NEW text, NEW tools, NEW reason, NEW constraints,
         Runs(h, d, text, tools, reason, constraints), d.finish # "none",
         request.engine = "llama" => CallsFinish(d),
         request.engine = "ninfer" => ConstraintHolds(d)
  PROVE  Closes(h, Complete(d), text, tools, reason, constraints)
<1>1. d \in Decoders /\ d.finish = reason BY DEF Runs
<1>2. reason \in Finishes BY <1>1 DEF Decoders
<1>13. PICK w \in BOOLEAN : w = d.usage BY <1>1 DEF Decoders
<1>3. PICK x : x = Completed(reason, w) OBVIOUS
<1>4. x \in Reports BY <1>2, <1>3, OutputsAreReports
<1>5. PICK c : c = Emit(d, x) OBVIOUS
<1>6. c \in Decoders /\ h \o c.queued = Append(h \o d.queued, x)
  BY <1>1, <1>4, <1>5, EmitIs
<1>7. PICK e : e = Complete(d) OBVIOUS
<1>8. e = [c EXCEPT !.finished = TRUE] BY <1>1, <1>3, <1>5, <1>7, <1>13 DEF Complete
<1>9. e \in Decoders /\ e.finished /\ e.queued = c.queued
  BY <1>6, <1>8 DEF Decoders
<1>10. \E u \in Seq(Outputs) :
         h \o e.queued = Append(u, Completed(reason, w)) /\ Words(u) = text /\ Parts(u) = tools
  BY <1>3, <1>6, <1>9 DEF Runs
<1>11. request.engine = "llama" => CallsAreSound(tools, reason)
  BY CallsSound
<1>12. request.engine = "ninfer" /\ request.checked /\ reason # "length" => "complete" \in constraints
  <2>1. d.constraint \in Constraints /\ d.constraint \in {"none"} \cup constraints
    BY <1>1 DEF Decoders, Runs
  <2> QED BY <1>1, <2>1 DEF ConstraintHolds, Constraints
<1> QED BY <1>2, <1>7, <1>9, <1>10, <1>11, <1>12 DEF Closes

\* vLLM's own Responses events: a delta, or the event that completes.
LEMMA VllmResponsesTells ==
  ASSUME request \in Requests, request.engine = "vllm_responses",
         NEW h \in Seq(Reports), NEW d, NEW text, NEW tools, NEW constraints,
         Runs(h, d, text, tools, "none", constraints), NEW f \in Sendable, f.kind = "delta",
         NEW t, t = text \o f.text, NEW ts, ts = tools \o f.tools,
         NEW cs, cs = constraints \cup {f.constraint}
  PROVE  \/ Broke(h, DecodeFrame(d, f), t, ts)
         \/ f.finish = "none" /\ Runs(h, DecodeFrame(d, f), t, ts, "none", cs)
         \/ f.finish # "none" /\ Closes(h, DecodeFrame(d, f), t, ts, f.finish, cs)
<1>1. d.finished = FALSE BY FinishedOrNot
<1>9. PICK c : c = Usage(d, f) OBVIOUS
<1>10. Runs(h, c, text, tools, "none", constraints) BY <1>9, UsageRuns
<1>2. DecodeFrame(d, f) = VllmResponsesFrame(c, f) BY <1>1, <1>9 DEF DecodeFrame, DeltaFrame
<1>3. PICK known : known = VllmFrame(c, f) OBVIOUS
<1>4. DecodeFrame(d, f) = IF known.finished \/ known.finish = "none" THEN known ELSE Complete(known)
  BY <1>2, <1>3 DEF VllmResponsesFrame
<1>5. Tells(h, known, t, ts, IF f.finish = "none" THEN "none" ELSE f.finish, cs)
  <2>1. Tells(h, VllmFrame(c, f), text \o f.text, tools \o f.tools,
              IF f.finish = "none" THEN "none" ELSE f.finish, constraints \cup {f.constraint})
    BY <1>10, VllmTells
  <2> QED BY <1>3, <2>1
<1>6. Tells(h, known, t, ts, f.finish, cs) BY <1>5
<1>7. CASE Broke(h, known, t, ts)
  BY <1>4, <1>7, FinishedOrNot
<1>8. CASE Runs(h, known, t, ts, f.finish, cs)
  <2>1. known.finish = f.finish /\ known.finished = FALSE
    BY <1>8, FinishedOrNot DEF Runs
  <2>2. CASE f.finish = "none" BY <1>4, <1>8, <2>1, <2>2
  <2>3. CASE f.finish # "none"
    <3>1. Closes(h, Complete(known), t, ts, f.finish, cs)
      BY <1>8, <2>1, <2>3, CompleteCloses
    <3> QED BY <1>4, <2>1, <2>3, <3>1
  <2> QED BY <2>2, <2>3
<1> QED BY <1>6, <1>7, <1>8 DEF Tells

-----------------------------------------------------------------------------
(* The frames that count.                                                  *)

LEMMA Smallest ==
  ASSUME NEW K, K \subseteq Nat, K # {}
  PROVE  Min(K) \in K /\ \A j \in K : Min(K) <= j
<1>1. \E n \in K : \A m \in K : n <= m BY LeastNatural
<1> QED BY <1>1 DEF Min

LEMMA PrefixIs ==
  ASSUME NEW E, NEW s \in Seq(E), NEW m \in 0..Len(s)
  PROVE  SubSeq(s, 1, m) \in Seq(E) /\ Len(SubSeq(s, 1, m)) = m
         /\ \A k \in 1..m : SubSeq(s, 1, m)[k] = s[k]
  OBVIOUS

LEMMA PrefixOfMore ==
  ASSUME NEW E, NEW s \in Seq(E), NEW x \in E, NEW m \in 0..Len(s)
  PROVE  SubSeq(Append(s, x), 1, m) = SubSeq(s, 1, m)
  OBVIOUS

LEMMA PrefixWhole ==
  ASSUME NEW E, NEW s \in Seq(E), NEW x \in E
  PROVE  /\ SubSeq(Append(s, x), 1, Len(s) + 1) = Append(s, x)
         /\ SubSeq(Append(s, x), 1, Len(s)) = s
  OBVIOUS

Ended(fs) == \E i \in 1..Len(fs) : Ending(fs[i])

LEMMA SaidIs ==
  ASSUME NEW fs \in Seq(Sendable), NEW f \in Sendable
  PROVE  /\ Said(fs) \in Seq(Sendable)
         /\ Ended(fs) => Said(Append(fs, f)) = Said(fs)
         /\ ~Ended(fs) => Said(fs) = fs
         /\ ~Ended(fs) /\ Ending(f) =>
              Said(Append(fs, f)) = IF request.engine = "vllm_responses" THEN Append(fs, f) ELSE fs
<1>1. PICK gs : gs = Append(fs, f) OBVIOUS
<1>2. /\ gs \in Seq(Sendable) /\ Len(fs) \in Nat /\ Len(gs) = Len(fs) + 1
      /\ \A k \in 1..Len(fs) : gs[k] = fs[k]
      /\ gs[Len(fs) + 1] = f /\ 1..Len(gs) = 1..Len(fs) \cup {Len(fs) + 1}
  BY <1>1, AppendedIs
<1>3. PICK K : K = {i \in 1..Len(fs) : Ending(fs[i])} OBVIOUS
<1>4. PICK L : L = {i \in 1..Len(gs) : Ending(gs[i])} OBVIOUS
<1>5. L = K \cup {i \in {Len(fs) + 1} : Ending(f)} BY <1>2, <1>3, <1>4
<1>6. Said(fs) = IF K = {} THEN fs
                 ELSE SubSeq(fs, 1, IF request.engine = "vllm_responses" THEN Min(K) ELSE Min(K) - 1)
  BY <1>3 DEF Said
<1>7. Said(gs) = IF L = {} THEN gs
                 ELSE SubSeq(gs, 1, IF request.engine = "vllm_responses" THEN Min(L) ELSE Min(L) - 1)
  BY <1>4 DEF Said
<1>8. K \subseteq 1..Len(fs) /\ K \subseteq Nat BY <1>3
<1>9. L \subseteq Nat BY <1>4, <1>2
<1>10. CASE K = {}
  <2>1. ~Ended(fs) BY <1>3, <1>10 DEF Ended
  <2>2. CASE Ending(f)
    <3>1. L = {Len(fs) + 1} BY <1>5, <1>10, <2>2
    <3>2. Min(L) = Len(fs) + 1 BY <1>9, <3>1, Smallest
    <3>3. SubSeq(gs, 1, Len(fs) + 1) = gs /\ SubSeq(gs, 1, Len(fs)) = fs BY <1>1, PrefixWhole
    <3>4. Min(L) - 1 = Len(fs) BY <1>2, <3>2
    <3> QED BY <1>1, <1>6, <1>7, <1>10, <2>1, <3>1, <3>2, <3>3, <3>4
  <2> QED BY <1>6, <1>10, <2>1, <2>2
<1>11. CASE K # {}
  <2>1. Ended(fs) BY <1>3, <1>11 DEF Ended
  <2>2. Min(K) \in K /\ \A j \in K : Min(K) <= j BY <1>8, <1>11, Smallest
  <2>3. L # {} BY <1>5, <1>11
  <2>4. Min(L) \in L /\ \A j \in L : Min(L) <= j BY <1>9, <2>3, Smallest
  <2>5. Min(K) \in L /\ Min(K) <= Len(fs) /\ Min(K) \in Nat /\ Min(L) \in Nat
    BY <1>5, <1>8, <1>9, <2>2, <2>4
  <2>6. Min(L) \in K
    <3>1. Min(L) <= Min(K) BY <2>4, <2>5
    <3>2. Min(L) # Len(fs) + 1 BY <1>2, <2>5, <3>1
    <3> QED BY <1>5, <2>4, <3>2
  <2>7. Min(L) = Min(K)
    <3>1. Min(L) <= Min(K) /\ Min(K) <= Min(L) BY <2>2, <2>4, <2>5, <2>6
    <3> QED BY <2>5, <3>1
  <2>8. PICK m : m = IF request.engine = "vllm_responses" THEN Min(K) ELSE Min(K) - 1 OBVIOUS
  <2>9. m \in 0..Len(fs)
    <3>1. PICK k \in 1..Len(fs) : k = Min(K) BY <1>8, <2>2
    <3>2. k \in 0..Len(fs) /\ k - 1 \in 0..Len(fs) BY <1>2
    <3> QED BY <2>8, <3>1, <3>2
  <2>10. Said(fs) = SubSeq(fs, 1, m) /\ Said(gs) = SubSeq(gs, 1, m)
    BY <1>6, <1>7, <1>11, <2>3, <2>7, <2>8
  <2>11. SubSeq(gs, 1, m) = SubSeq(fs, 1, m) BY <1>1, <2>9, PrefixOfMore
  <2>12. SubSeq(fs, 1, m) \in Seq(Sendable) BY <2>9, PrefixIs
  <2> QED BY <1>1, <2>1, <2>10, <2>11, <2>12
<1> QED BY <1>10, <1>11

LEMMA OneMoreFrame ==
  ASSUME NEW fs \in Seq(Sendable), NEW f \in Sendable
  PROVE  /\ Append(fs, f) \in Seq(Sendable)
         /\ Observed(Append(fs, f)) = Observed(fs) \cup {f.constraint}
         /\ Unended(Append(fs, f)) <=> Unended(fs) /\ ~Ending(f) /\ f.kind = "delta"
         /\ Unended(fs) => ~Ended(fs)
         /\ Ended(Append(fs, f)) <=> Ended(fs) \/ Ending(f)
<1>1. PICK gs : gs = Append(fs, f) OBVIOUS
<1>2. /\ gs \in Seq(Sendable) /\ Len(fs) \in Nat /\ Len(gs) = Len(fs) + 1
      /\ \A k \in 1..Len(fs) : gs[k] = fs[k]
      /\ gs[Len(fs) + 1] = f /\ 1..Len(gs) = 1..Len(fs) \cup {Len(fs) + 1}
  BY <1>1, AppendedIs
<1>3. Observed(gs) = Observed(fs) \cup {f.constraint} BY <1>2 DEF Observed
<1>4. Unended(gs) <=> Unended(fs) /\ ~Ending(f) /\ f.kind = "delta" BY <1>2 DEF Unended
<1>5. Ended(gs) <=> Ended(fs) \/ Ending(f) BY <1>2 DEF Ended
<1>6. Unended(fs) => ~Ended(fs) BY DEF Unended, Ended
<1> QED BY <1>1, <1>2, <1>3, <1>4, <1>5, <1>6

LEMMA ClosesConcludes ==
  ASSUME NEW h, NEW d, NEW fs, NEW s, s = Said(fs), Ended(fs),
         \A i \in 1..Len(s) : s[i].kind = "delta",
         Closes(h, d, AllText(s), AllTools(s), LastReason(s), Observed(s))
  PROVE  Concluded(h, d, fs)
<1>1. PICK r : r = LastReason(s) OBVIOUS
<1>2. d \in Decoders /\ d.finished /\ r \in Finishes BY <1>1 DEF Closes
<1>3. PICK e \in Seq(Outputs), w \in BOOLEAN :
        h \o d.queued = Append(e, Completed(r, w)) /\ Words(e) = AllText(s) /\ Parts(e) = AllTools(s)
  BY <1>1 DEF Closes
<1>4. request.engine = "llama" => CallsAreSound(Parts(e), r) BY <1>1, <1>3 DEF Closes
<1>5. request.engine = "ninfer" /\ request.checked /\ r # "length" =>
        \E i \in 1..Len(s) : s[i].constraint = "complete"
  BY <1>1 DEF Closes, Observed
<1>6. \E i \in 1..Len(fs) : Ending(fs[i]) BY DEF Ended
<1>7. \E u \in Seq(Outputs) : \E q \in Finishes : \E v \in BOOLEAN :
       /\ h \o d.queued = Append(u, Completed(q, v))
       /\ Words(u) = AllText(Said(fs))
       /\ Parts(u) = AllTools(Said(fs))
       /\ q = LastReason(Said(fs))
       /\ request.engine = "llama" => CallsAreSound(Parts(u), q)
       /\ request.engine = "ninfer" /\ request.checked /\ q # "length" =>
            \E i \in 1..Len(Said(fs)) : Said(fs)[i].constraint = "complete"
  BY <1>1, <1>2, <1>3, <1>4, <1>5
<1> QED BY <1>2, <1>6, <1>7 DEF Concluded

\* While nothing has ended it.
LEMMA RunningDecodes ==
  ASSUME request \in Requests, ~Filtered, NEW h \in Seq(Reports), NEW d,
         NEW fs \in Seq(Sendable), NEW f \in Sendable, Unended(fs),
         Runs(h, d, AllText(fs), AllTools(fs), LastReason(fs), Observed(fs)),
         request.engine = "vllm_responses" => LastReason(fs) = "none"
  PROVE  Decoded(h, DecodeFrame(d, f), Append(fs, f))
<1>1. PICK gs : gs = Append(fs, f) OBVIOUS
<1>2. gs \in Seq(Sendable) /\ Observed(gs) = Observed(fs) \cup {f.constraint}
  BY <1>1, OneMoreFrame
<1>3. /\ AllText(gs) = AllText(fs) \o f.text /\ AllTools(gs) = AllTools(fs) \o f.tools
      /\ LastReason(gs) = IF f.finish = "none" THEN LastReason(fs) ELSE f.finish
  BY <1>1, AllTextIs, AllToolsAre, LastReasonIs
<1>4. AllText(fs) \in Seq(Chars) /\ AllTools(fs) \in Seq(Deltas)
  BY AllTextIs, AllToolsAre
<1>5. d.finished = FALSE BY FinishedOrNot
<1>6. ~Ended(fs) BY OneMoreFrame
<1>7. Ending(f) => Said(gs) = IF request.engine = "vllm_responses" THEN gs ELSE fs
  BY <1>1, <1>6, SaidIs
<1>8. ~Ending(f) => Said(gs) = gs
  <2>1. ~Ending(f) => ~Ended(gs) BY <1>1, <1>6, OneMoreFrame
  <2> QED BY <1>2, <2>1, SaidIs
<1>9. f.kind # "delta" => AllText(gs) = AllText(fs) /\ AllTools(gs) = AllTools(fs)
  <2>1. f.kind # "delta" => f.text = <<>> /\ f.tools = <<>> BY SendableAre
  <2>2. \A s \in Seq(Chars) : s \o <<>> = s OBVIOUS
  <2>3. \A s \in Seq(Deltas) : s \o <<>> = s OBVIOUS
  <2> QED BY <1>3, <1>4, <2>1, <2>2, <2>3
<1>10. f.kind \in {"delta", "bad", "done"} BY SendableAre
<1>11. Broke(h, Fail(d), AllText(fs), AllTools(fs)) BY RunsFail
<1>12. f.kind # "delta" => AllText(Said(gs)) = AllText(fs) /\ AllTools(Said(gs)) = AllTools(fs)
  BY <1>7, <1>8, <1>9
<1>13. CASE f.kind = "bad"
  <2>1. DecodeFrame(d, f) = Fail(d) BY <1>5, <1>13 DEF DecodeFrame
  <2> QED BY <1>1, <1>11, <1>12, <1>13, <2>1 DEF Decoded
<1>14. CASE f.kind = "done"
  <2>1. DecodeFrame(d, f) = Done(d) BY <1>5, <1>14 DEF DecodeFrame
  <2>2. CASE Done(d) = Fail(d)
    BY <1>1, <1>11, <1>12, <1>14, <2>1, <2>2 DEF Decoded
  <2>3. CASE Done(d) # Fail(d)
    <3>1. /\ Done(d) = Complete(d) /\ d.finish # "none"
          /\ request.engine = "llama" => CallsFinish(d)
          /\ request.engine = "ninfer" => ConstraintHolds(d)
          /\ request.engine # "vllm_responses"
      BY <2>3 DEF Done
    <3>2. Closes(h, Complete(d), AllText(fs), AllTools(fs), LastReason(fs), Observed(fs))
      BY <3>1, CompleteCloses
    <3>3. Ending(f) BY <1>14 DEF Ending
    <3>4. Said(gs) = fs BY <1>7, <3>1, <3>3
    <3>5. Ended(gs) BY <1>1, <3>3, OneMoreFrame
    <3>6. \A i \in 1..Len(fs) : fs[i].kind = "delta" BY DEF Unended
    <3>7. Concluded(h, Complete(d), gs) BY <3>2, <3>4, <3>5, <3>6, ClosesConcludes
    <3> QED BY <1>1, <2>1, <3>1, <3>7 DEF Decoded
  <2> QED BY <2>2, <2>3
<1>15. CASE f.kind = "delta" /\ request.engine # "vllm_responses"
  <2>1. ~Ending(f) BY <1>15 DEF Ending
  <2>2. Unended(gs) BY <1>1, <1>15, <2>1, OneMoreFrame
  <2>3. Tells(h, DecodeFrame(d, f), AllText(fs) \o f.text, AllTools(fs) \o f.tools,
              IF f.finish = "none" THEN LastReason(fs) ELSE f.finish,
              Observed(fs) \cup {f.constraint})
    BY <1>15, FrameTells
  <2>4. Tells(h, DecodeFrame(d, f), AllText(gs), AllTools(gs), LastReason(gs), Observed(gs))
    BY <1>2, <1>3, <2>3
  <2> QED BY <1>1, <1>8, <2>1, <2>2, <2>4 DEF Tells, Decoded
<1>16. CASE f.kind = "delta" /\ request.engine = "vllm_responses"
  <2>1. LastReason(fs) = "none" /\ LastReason(gs) = f.finish BY <1>3, <1>16
  <2>2. Runs(h, d, AllText(fs), AllTools(fs), "none", Observed(fs)) BY <2>1
  <2>3. \/ Broke(h, DecodeFrame(d, f), AllText(gs), AllTools(gs))
        \/ f.finish = "none"
             /\ Runs(h, DecodeFrame(d, f), AllText(gs), AllTools(gs), "none", Observed(gs))
        \/ f.finish # "none"
             /\ Closes(h, DecodeFrame(d, f), AllText(gs), AllTools(gs), f.finish, Observed(gs))
    BY <1>2, <1>3, <1>16, <2>2, VllmResponsesTells
  <2>4. Ending(f) <=> f.finish # "none" BY <1>16 DEF Ending
  <2>5. Said(gs) = gs BY <1>7, <1>8, <1>16
  <2>6. f.finish = "none" => Unended(gs) BY <1>1, <1>16, <2>4, OneMoreFrame
  <2>7. ASSUME f.finish # "none",
               Closes(h, DecodeFrame(d, f), AllText(gs), AllTools(gs), f.finish, Observed(gs))
        PROVE  Concluded(h, DecodeFrame(d, f), gs)
    <3>1. Ended(gs) BY <1>1, <2>4, <2>7, OneMoreFrame
    <3>2. \A i \in 1..Len(gs) : gs[i].kind = "delta"
      <4>1. \A i \in 1..Len(fs) : fs[i].kind = "delta" BY DEF Unended
      <4> QED BY <1>1, <1>16, <4>1, AppendedIs
    <3> QED BY <2>1, <2>5, <2>7, <3>1, <3>2, ClosesConcludes
  <2> QED BY <1>1, <2>1, <2>3, <2>5, <2>6, <2>7 DEF Decoded
<1> QED BY <1>10, <1>13, <1>14, <1>15, <1>16

\* A Responses stream of vLLM that goes on has named no reason.
LEMMA NoReasonYet ==
  ASSUME NEW fs \in Seq(Sendable), Unended(fs), request.engine = "vllm_responses"
  PROVE  LastReason(fs) = "none"
<1>1. \A i \in 1..Len(fs) : fs[i].finish = "none" BY DEF Unended, Ending
<1>2. {k \in 1..Len(fs) : fs[k].finish # "none"} = {} BY <1>1
<1> QED BY <1>2 DEF LastReason

\* One frame more, whatever the decoder has come to.
LEMMA FrameDecodes ==
  ASSUME request \in Requests, ~Filtered, NEW h \in Seq(Reports), NEW d,
         NEW fs \in Seq(Sendable), NEW f \in Sendable, Decoded(h, d, fs)
  PROVE  Decoded(h, DecodeFrame(d, f), Append(fs, f))
<1>1. CASE Unended(fs) /\ Runs(h, d, AllText(fs), AllTools(fs), LastReason(fs), Observed(fs))
  BY <1>1, NoReasonYet, RunningDecodes
<1>2. PICK gs : gs = Append(fs, f) OBVIOUS
<1>3. CASE Broke(h, d, AllText(Said(fs)), AllTools(Said(fs)))
  <2>1. DecodeFrame(d, f) = d BY <1>3, FinishedOrNot DEF DecodeFrame
  <2>2. Said(fs) \in Seq(Sendable) BY SaidIs
  <2>3. Said(gs) = Said(fs) \/ Said(gs) = Append(Said(fs), f)
    <3>1. CASE Ended(fs) BY <1>2, <3>1, SaidIs
    <3>2. CASE ~Ended(fs) /\ Ending(f) BY <1>2, <3>2, SaidIs
    <3>3. CASE ~Ended(fs) /\ ~Ending(f)
      <4>1. ~Ended(gs) /\ gs \in Seq(Sendable) BY <1>2, <3>3, OneMoreFrame
      <4>2. Said(gs) = gs BY <4>1, SaidIs
      <4>3. Said(fs) = fs BY <3>3, SaidIs
      <4> QED BY <1>2, <4>2, <4>3
    <3> QED BY <3>1, <3>2, <3>3
  <2>4. f.text \in Seq(Chars) /\ f.tools \in Seq(Deltas) BY SendableAre
  <2>5. AllText(Said(fs)) \in Seq(Chars) /\ AllTools(Said(fs)) \in Seq(Deltas)
    BY <2>2, AllTextIs, AllToolsAre
  <2>6. Broke(h, d, AllText(Said(fs)) \o f.text, AllTools(Said(fs)) \o f.tools)
    BY <1>3, <2>4, <2>5, BrokeGrows
  <2>7. /\ AllText(Append(Said(fs), f)) = AllText(Said(fs)) \o f.text
        /\ AllTools(Append(Said(fs), f)) = AllTools(Said(fs)) \o f.tools
    BY <2>2, AllTextIs, AllToolsAre
  <2>8. Broke(h, d, AllText(Said(gs)), AllTools(Said(gs)))
    BY <1>3, <2>3, <2>6, <2>7
  <2> QED BY <1>2, <2>1, <2>8 DEF Decoded
<1>4. CASE Concluded(h, d, fs)
  <2>1. d.finished BY <1>4 DEF Concluded
  <2>2. DecodeFrame(d, f) = d BY <2>1 DEF DecodeFrame
  <2>3. Ended(fs) BY <1>4 DEF Concluded, Ended
  <2>4. Said(gs) = Said(fs) /\ Ended(gs) BY <1>2, <2>3, SaidIs, OneMoreFrame
  <2>5. \E i \in 1..Len(gs) : Ending(gs[i]) BY <2>4 DEF Ended
  <2>6. Concluded(h, d, gs) BY <1>4, <2>4, <2>5 DEF Concluded
  <2> QED BY <1>2, <2>2, <2>6 DEF Decoded
<1> QED BY <1>1, <1>3, <1>4 DEF Decoded

-----------------------------------------------------------------------------
(* Reads.                                                                  *)

\* The recursion of DecodeAll, over the first n frames.
Decoding(g, d, fs, n) == g = [k \in 0..n |-> IF k = 0 THEN d ELSE DecodeFrame(g[k - 1], fs[k])]

LEMMA DecodingStep ==
  ASSUME NEW d, NEW fs, NEW n \in Nat, NEW f, Decoding(f, d, fs, n),
         NEW v, v = DecodeFrame(f[n], fs[n + 1]),
         NEW g, g = [k \in 0..(n + 1) |-> IF k = n + 1 THEN v ELSE f[k]]
  PROVE  Decoding(g, d, fs, n + 1)
<1>1. \A k \in 0..n : f[k] = IF k = 0 THEN d ELSE DecodeFrame(f[k - 1], fs[k])
  BY DEF Decoding
<1>2. /\ \A k \in 0..n : g[k] = f[k]
      /\ g[n + 1] = v
  <2>1. \A k \in 0..(n + 1) : g[k] = IF k = n + 1 THEN v ELSE f[k] OBVIOUS
  <2>2. \A k \in 0..n : k \in 0..(n + 1) /\ k # n + 1 OBVIOUS
  <2>3. n + 1 \in 0..(n + 1) OBVIOUS
  <2> QED BY <2>1, <2>2, <2>3
<1>3. ASSUME NEW k \in 0..(n + 1)
      PROVE  g[k] = IF k = 0 THEN d ELSE DecodeFrame(g[k - 1], fs[k])
  <2>1. CASE k = n + 1
    <3>1. k # 0 /\ k - 1 = n /\ n \in 0..n BY <2>1
    <3> QED BY <1>2, <2>1, <3>1
  <2>2. CASE k = 0
    <3>1. 0 \in 0..n OBVIOUS
    <3> QED BY <1>1, <1>2, <2>2, <3>1
  <2>3. CASE k # 0 /\ k # n + 1
    <3>1. k \in 0..n /\ k - 1 \in 0..n BY <2>3
    <3> QED BY <1>1, <1>2, <2>3, <3>1
  <2> QED BY <2>1, <2>2, <2>3
<1> QED BY <1>3 DEF Decoding

LEMMA DecodingExists ==
  ASSUME NEW d, NEW fs, NEW N \in Nat
  PROVE  \E f : Decoding(f, d, fs, N)
<1> DEFINE T == {n \in Nat : \E f : Decoding(f, d, fs, n)}
<1>1. 0 \in T
  <2>1. PICK f : f = [k \in 0..0 |-> d] OBVIOUS
  <2>2. f = [k \in 0..0 |-> IF k = 0 THEN d ELSE DecodeFrame(f[k - 1], fs[k])]
    <3>1. \A k \in 0..0 : k = 0 OBVIOUS
    <3> QED BY <2>1, <3>1
  <2>3. Decoding(f, d, fs, 0) BY <2>2 DEF Decoding
  <2> QED BY <2>3
<1>2. ASSUME NEW n \in T PROVE n + 1 \in T
  <2>1. PICK f : Decoding(f, d, fs, n) OBVIOUS
  <2>2. PICK v : v = DecodeFrame(f[n], fs[n + 1]) OBVIOUS
  <2>3. PICK g : g = [k \in 0..(n + 1) |-> IF k = n + 1 THEN v ELSE f[k]] OBVIOUS
  <2>4. Decoding(g, d, fs, n + 1) BY <2>1, <2>2, <2>3, DecodingStep
  <2> QED BY <2>4
<1>3. T = Nat
  <2> HIDE DEF T
  <2> QED BY <1>1, <1>2, SetInduction DEF T
<1> QED BY <1>3

LEMMA DecodeAllIs ==
  ASSUME NEW d, NEW fs, Len(fs) \in Nat
  PROVE  \E g : Decoding(g, d, fs, Len(fs)) /\ DecodeAll(d, fs) = g[Len(fs)]
<1>1. PICK n \in Nat : n = Len(fs) OBVIOUS
<1>2. PICK g : g = CHOOSE f : Decoding(f, d, fs, n) OBVIOUS
<1>3. Decoding(g, d, fs, n) BY <1>2, DecodingExists
<1>4. DecodeAll(d, fs) = g[n] BY <1>1, <1>2 DEF DecodeAll, Decoding
<1> QED BY <1>1, <1>3, <1>4

\* The frames of one read.
LEMMA ReadDecodes ==
  ASSUME request \in Requests, ~Filtered, NEW h \in Seq(Reports), NEW d,
         NEW ss \in Seq(Sendable), Decoded(h, d, ss),
         NEW n \in Nat, NEW fs \in [1..n -> Sendable]
  PROVE  ss \o fs \in Seq(Sendable) /\ Decoded(h, DecodeAll(d, fs), ss \o fs)
<1>1. fs \in Seq(Sendable) /\ Len(fs) = n BY FunctionIsSeq
<1>2. PICK g : Decoding(g, d, fs, n) /\ DecodeAll(d, fs) = g[n]
  <2>1. \E f : Decoding(f, d, fs, Len(fs)) /\ DecodeAll(d, fs) = f[Len(fs)]
    BY <1>1, DecodeAllIs
  <2> QED BY <1>1, <2>1
<1>3. \A k \in 0..n : g[k] = IF k = 0 THEN d ELSE DecodeFrame(g[k - 1], fs[k])
  BY <1>2 DEF Decoding
<1> DEFINE P(k) == [i \in 1..k |-> fs[i]]
           T == {k \in Nat : k <= n => ss \o P(k) \in Seq(Sendable) /\ Decoded(h, g[k], ss \o P(k))}
<1>4. 0 \in T
  <2>1. P(0) = <<>> OBVIOUS
  <2>2. ss \o <<>> = ss OBVIOUS
  <2>3. g[0] = d
    <3>1. 0 \in 0..n OBVIOUS
    <3> QED BY <1>3, <3>1
  <2> QED BY <2>1, <2>2, <2>3
<1>5. ASSUME NEW k \in T PROVE k + 1 \in T
  <2> SUFFICES ASSUME k + 1 <= n
               PROVE  ss \o P(k + 1) \in Seq(Sendable) /\ Decoded(h, g[k + 1], ss \o P(k + 1))
    OBVIOUS
  <2>1. k \in Nat /\ k <= n /\ k + 1 \in 1..n /\ k + 1 \in 0..n /\ (k + 1) - 1 = k /\ k + 1 # 0
    OBVIOUS
  <2>2. ss \o P(k) \in Seq(Sendable) /\ Decoded(h, g[k], ss \o P(k)) BY <2>1
  <2>3. PICK p : p = P(k) OBVIOUS
  <2>4. PICK q : q = P(k + 1) OBVIOUS
  <2>5. PICK x \in Sendable : x = fs[k + 1] BY <2>1
  <2>6. p \in Seq(Sendable) /\ Len(p) = k
    <3>1. \A i \in 1..k : i \in 1..n BY <2>1
    <3>2. p \in [1..k -> Sendable] BY <2>3, <3>1
    <3> QED BY <2>1, <3>2, FunctionIsSeq
  <2>7. q \in Seq(Sendable) /\ Len(q) = k + 1
    <3>1. \A i \in 1..(k + 1) : i \in 1..n BY <2>1
    <3>2. q \in [1..(k + 1) -> Sendable] BY <2>4, <3>1
    <3>3. k + 1 \in Nat BY <2>1
    <3> QED BY <3>2, <3>3, FunctionIsSeq
  <2>8. q = Append(p, x)
    <3>1. \A i \in 1..(k + 1) : q[i] = fs[i] BY <2>4
    <3>2. \A i \in 1..k : p[i] = fs[i] BY <2>3
    <3> HIDE DEF P, T
    <3>3. \A i \in 1..(k + 1) : q[i] = IF i = k + 1 THEN x ELSE p[i]
      BY <2>1, <2>5, <3>1, <3>2
    <3> QED BY <2>1, <2>6, <2>7, <3>3
  <2>9. ss \o p \in Seq(Sendable) /\ Decoded(h, g[k], ss \o p) BY <2>2, <2>3
  <2>10. g[k + 1] = DecodeFrame(g[k], x) BY <1>3, <2>1, <2>5
  <2> HIDE DEF P, T
  <2>11. ss \o q = Append(ss \o p, x) BY <2>6, <2>8, ConcatAppend
  <2>12. Decoded(h, DecodeFrame(g[k], x), Append(ss \o p, x)) BY <2>9, FrameDecodes
  <2>13. Append(ss \o p, x) \in Seq(Sendable) BY <2>9, AppendedIs
  <2> QED BY <2>4, <2>10, <2>11, <2>12, <2>13
<1>6. T = Nat
  <2> HIDE DEF T
  <2> QED BY <1>4, <1>5, SetInduction DEF T
<1>7. ss \o P(n) \in Seq(Sendable) /\ Decoded(h, g[n], ss \o P(n))
  <2>1. n \in T
    <3> HIDE DEF T
    <3> QED BY <1>6
  <2>2. n <= n OBVIOUS
  <2> QED BY <2>1, <2>2
<1>8. P(n) = fs OBVIOUS
<1> QED BY <1>2, <1>7, <1>8

\* The connection breaks.
LEMMA FailDecodes ==
  ASSUME request \in Requests, NEW h \in Seq(Reports), NEW d, NEW fs \in Seq(Sendable),
         Decoded(h, d, fs), ~d.finished
  PROVE  Decoded(h, Fail(d), fs)
<1>1. Unended(fs) /\ Runs(h, d, AllText(fs), AllTools(fs), LastReason(fs), Observed(fs))
  BY FinishedOrNot DEF Decoded, Concluded
<1>2. Said(fs) = fs
  <2>1. ~Ended(fs) BY <1>1 DEF Unended, Ended
  <2>2. CASE Sendable = {}
    <3>1. fs = <<>> BY <2>2
    <3>2. {i \in 1..Len(fs) : Ending(fs[i])} = {} BY <2>1 DEF Ended
    <3> QED BY <3>2 DEF Said
  <2>3. CASE Sendable # {}
    BY <2>1, <2>3, SaidIs
  <2> QED BY <2>2, <2>3
<1> QED BY <1>1, <1>2, RunsFail DEF Decoded

\* What is passed on moves from the queue to what was passed on.
LEMMA TakenDecodes ==
  ASSUME NEW h \in Seq(Reports), NEW d, NEW fs, Decoded(h, d, fs), d.queued # <<>>,
         NEW x, x = Head(d.queued), NEW c, c = [d EXCEPT !.queued = Tail(@)]
  PROVE  x \in Reports /\ Append(h, x) \in Seq(Reports) /\ Decoded(Append(h, x), c, fs)
<1>1. d \in Decoders BY DEF Decoded, Runs, Broke, Concluded
<1>2. PICK q \in Seq(Reports) : q = d.queued BY <1>1 DEF Decoders
<1>3. x \in Reports /\ Append(h, x) \in Seq(Reports) /\ Tail(q) \in Seq(Reports)
      /\ Append(h, x) \o Tail(q) = h \o q
  <2>1. q # <<>> /\ x = Head(q) BY <1>2
  <2>2. Head(q) \in Reports /\ Tail(q) \in Seq(Reports) BY <2>1
  <2>3. PICK y \in Reports : y = x BY <2>1, <2>2
  <2>4. PICK t \in Seq(Reports) : t = Tail(q) BY <2>2
  <2>5. Append(h, y) \in Seq(Reports) BY <2>3
  <2>6. q = <<y>> \o t BY <2>1, <2>3, <2>4
  <2>7. Append(h, y) \o t = h \o (<<y>> \o t) OBVIOUS
  <2> QED BY <2>2, <2>3, <2>4, <2>5, <2>6, <2>7
<1>4. /\ c \in Decoders /\ c.queued = Tail(q)
      /\ c.finished = d.finished /\ c.finish = d.finish /\ c.calls = d.calls
      /\ c.constraint = d.constraint
  BY <1>1, <1>2, <1>3 DEF Decoders
<1>5. Append(h, x) \o c.queued = h \o d.queued BY <1>2, <1>3, <1>4
<1>6. CASE Unended(fs) /\ Runs(h, d, AllText(fs), AllTools(fs), LastReason(fs), Observed(fs))
  <2>1. Runs(Append(h, x), c, AllText(fs), AllTools(fs), LastReason(fs), Observed(fs))
    BY <1>4, <1>5, <1>6 DEF Runs
  <2> QED BY <1>3, <1>6, <2>1 DEF Decoded
<1>7. CASE Broke(h, d, AllText(Said(fs)), AllTools(Said(fs)))
  <2>1. Broke(Append(h, x), c, AllText(Said(fs)), AllTools(Said(fs)))
    BY <1>4, <1>5, <1>7 DEF Broke
  <2> QED BY <1>3, <2>1 DEF Decoded
<1>8. CASE Concluded(h, d, fs)
  <2>1. Concluded(Append(h, x), c, fs) BY <1>4, <1>5, <1>8 DEF Concluded
  <2> QED BY <1>3, <2>1 DEF Decoded
<1> QED BY <1>3, <1>6, <1>7, <1>8 DEF Decoded

Markers ==
  {"created", "in_progress", "role", "thought", "message_added", "part_added",
   "call_added", "args_delta", "text_done", "part_done", "message_done",
   "args_done", "call_done", "completed", "incomplete", "failed", "usage", "done"}

LEMMA EventIs ==
  ASSUME NEW type, NEW at, NEW body
  PROVE  /\ Event(type, at, body).type = type /\ Event(type, at, body).at = at
         /\ Event(type, at, body).body = body
         /\ type \in Markers /\ at \in Nat /\ body \in Bodies => Event(type, at, body) \in Messages
         /\ type = "text_delta" /\ at \in Nat /\ body \in Seq(Chars) => Event(type, at, body) \in Messages
         /\ type = "tool_delta" /\ at \in Nat /\ body \in Deltas => Event(type, at, body) \in Messages
  BY DEF Event, Messages, Markers

LEMMA BodiesAre ==
  /\ Seq(Chars) \subseteq Bodies /\ Headers \subseteq Bodies /\ NoHeader \in Bodies
  /\ Finishes \subseteq Bodies /\ "none" \in Bodies /\ Deltas \subseteq Bodies
  /\ <<>> \in Bodies
<1>1. <<>> \in Seq(Chars) OBVIOUS
<1> QED BY <1>1 DEF Bodies

LEMMA EncodersPush ==
  ASSUME NEW p \in Encoders, NEW fs \in Seq(Messages)
  PROVE  /\ Pushed(p, fs) \in Encoders /\ Pushed(p, fs).queue = p.queue \o fs
         /\ Pushed(p, fs).terminal = p.terminal /\ Pushed(p, fs).text = p.text
         /\ Pushed(p, fs).textAt = p.textAt /\ Pushed(p, fs).calls = p.calls
         /\ Pushed(p, fs).next = p.next
<1>1. p.queue \in Seq(Messages) BY DEF Encoders
<1>2. p.queue \o fs \in Seq(Messages) BY <1>1, ConcatType
<1> QED BY <1>2 DEF Pushed, Encoders

LEMMA EncodersEnd ==
  ASSUME NEW p \in Encoders, NEW fs \in Seq(Messages), NEW q, q = Terminated(p, fs)
  PROVE  q \in Encoders /\ q.queue = p.queue \o fs /\ q.terminal
<1>1. PICK r : r = Pushed(p, fs) OBVIOUS
<1>2. r \in Encoders /\ r.queue = p.queue \o fs BY <1>1, EncodersPush
<1> QED BY <1>1, <1>2 DEF Encoders, Terminated

LEMMA ConcatParts ==
  ASSUME NEW E, NEW s \in Seq(E), NEW t \in Seq(E), NEW k \in 1..Len(s \o t)
  PROVE  \/ k \in 1..Len(s) /\ (s \o t)[k] = s[k]
         \/ \E j \in 1..Len(t) : k = Len(s) + j /\ (s \o t)[k] = t[j]
<1>1. CASE k \in 1..Len(s) BY <1>1
<1>2. CASE k \notin 1..Len(s)
  <2>1. k - Len(s) \in 1..Len(t) /\ k = Len(s) + (k - Len(s)) BY <1>2
  <2>2. (s \o t)[k] = t[k - Len(s)] BY <1>2
  <2> QED BY <2>1, <2>2
<1> QED BY <1>1, <1>2

-----------------------------------------------------------------------------
(* One message more in an ordered stream.                                  *)

LEMMA RegularGrows ==
  ASSUME NEW es \in Seq(Messages), NEW m \in Messages, Regular(es),
         IsItem(m) =>
           /\ m.type \in Added <=> \A j \in 1..Len(es) : IsItem(es[j]) => es[j].at # m.at
           /\ \A j \in 1..Len(es) : IsItem(es[j]) /\ es[j].type \in Closed => es[j].at # m.at
  PROVE  Regular(Append(es, m))
<1>1. PICK fs : fs = Append(es, m) OBVIOUS
<1>2. /\ Len(es) \in Nat /\ Len(fs) = Len(es) + 1
      /\ \A k \in 1..Len(es) : fs[k] = es[k]
      /\ fs[Len(es) + 1] = m /\ 1..Len(fs) = 1..Len(es) \cup {Len(es) + 1}
  BY <1>1, AppendedIs
<1>3. ASSUME NEW i \in 1..Len(fs), IsItem(fs[i])
      PROVE  /\ fs[i].type \in Added <=> \A j \in 1..(i - 1) : IsItem(fs[j]) => fs[j].at # fs[i].at
             /\ \A j \in 1..(i - 1) : IsItem(fs[j]) /\ fs[j].type \in Closed => fs[j].at # fs[i].at
  <2>1. CASE i \in 1..Len(es)
    <3>1. \A j \in 1..(i - 1) : fs[j] = es[j] BY <1>2, <2>1
    <3>2. fs[i] = es[i] BY <1>2, <2>1
    <3>3. /\ es[i].type \in Added <=> \A j \in 1..(i - 1) : IsItem(es[j]) => es[j].at # es[i].at
          /\ \A j \in 1..(i - 1) : IsItem(es[j]) /\ es[j].type \in Closed => es[j].at # es[i].at
      BY <1>3, <2>1, <3>2 DEF Regular
    <3> QED BY <3>1, <3>2, <3>3
  <2>2. CASE i = Len(es) + 1
    <3>1. i - 1 = Len(es) /\ fs[i] = m BY <1>2, <2>2
    <3>2. IsItem(m) BY <1>3, <3>1
    <3> QED BY <1>2, <3>1, <3>2
  <2> QED BY <1>2, <2>1, <2>2
<1> QED BY <1>1, <1>3 DEF Regular

\* What is no item changes nothing.
LEMMA RegularAside ==
  ASSUME NEW es \in Seq(Messages), NEW m \in Messages, Regular(es),
         m.type \in Endings \cup {"created", "in_progress"}
  PROVE  Regular(Append(es, m))
  BY RegularGrows DEF IsItem

-----------------------------------------------------------------------------
(* Failures.                                                               *)

LEMMA ConcatOne ==
  ASSUME NEW E, NEW s \in Seq(E), NEW x \in E
  PROVE  s \o <<x>> = Append(s, x) /\ <<x>> \in Seq(E)
  OBVIOUS

LEMMA ConcatNothing ==
  ASSUME NEW E, NEW s \in Seq(E)
  PROVE  s \o <<>> = s /\ <<>> \o s = s /\ <<>> \in Seq(E)
  OBVIOUS

LEMMA PassedMore ==
  ASSUME NEW h \in Seq(Outputs), NEW x \in Reports
  PROVE  /\ h \in Seq(Reports) /\ Append(h, x) \in Seq(Reports)
         /\ x \in Outputs => Append(h, x) \in Seq(Outputs)
         /\ Words(h) \in Seq(Chars) /\ Parts(h) \in Seq(Deltas)
         /\ Words(Append(h, x)) = IF x.type = "text" THEN Words(h) \o x.text ELSE Words(h)
         /\ Parts(Append(h, x)) = IF x.type = "tool" THEN Append(Parts(h), x.tool) ELSE Parts(h)
<1>1. h \in Seq(Reports) BY OutputsAreReports
<1>2. Append(h, x) \in Seq(Reports) BY <1>1
<1>3. x \in Outputs => Append(h, x) \in Seq(Outputs) OBVIOUS
<1> QED BY <1>1, <1>2, <1>3, WordsAre, PartsAre

\* An earlier part of the calls had its headers first too.
LEMMA HeadersWereFirst ==
  ASSUME NEW h \in Seq(Outputs), NEW x \in Reports, HeadersFirst(Parts(Append(h, x)))
  PROVE  HeadersFirst(Parts(h))
<1>1. CASE x.type # "tool" BY <1>1, PassedMore
<1>2. CASE x.type = "tool"
  <2>1. Parts(h) \in Seq(Deltas) /\ x.tool \in Deltas BY <1>2, PassedMore, ReportsAre
  <2>2. HeadersFirst(Append(Parts(h), x.tool)) BY <1>2, PassedMore
  <2> QED BY <2>1, <2>2, HeadersFirstIs
<1> QED BY <1>1, <1>2

LEMMA Apologises ==
  ASSUME NEW h, NEW es, NEW p, NEW ch, Speaks(h, es, p, ch),
         NEW x \in Reports, x.type # "text",
         NEW fs \in Seq(Messages), \A k \in 1..Len(fs) : fs[k].type \in {"failed", "done"},
         request.api = "responses" => \E m \in Messages : m.type = "failed" /\ fs = <<m>>,
         NEW q, q \in Encoders, q.terminal
  PROVE  Apologised(Append(h, x), es \o fs, q)
<1>1. /\ h \in Seq(Outputs) /\ es \in Seq(Messages) /\ TextOf(es) = Words(h)
      /\ \A k \in 1..Len(es) : es[k].type \notin CloseTypes \cup Lasts
  BY DEF Speaks
<1>2. Append(h, x) \in Seq(Reports) /\ Words(Append(h, x)) = Words(h) BY <1>1, PassedMore
<1>3. es \o fs \in Seq(Messages) BY <1>1, ConcatType
<1>4. TextOf(es \o fs) = Words(h)
  <2>1. TextOf(fs) = <<>> BY TextOfIs
  <2>2. TextOf(es \o fs) = TextOf(es) \o TextOf(fs) BY <1>1, TextOfIs
  <2>3. TextOf(es) \in Seq(Chars) BY <1>1, TextOfIs
  <2>4. TextOf(es) \o <<>> = TextOf(es) BY <2>3, ConcatNothing
  <2> QED BY <1>1, <2>1, <2>2, <2>4
<1>5. \A k \in 1..Len(es \o fs) : (es \o fs)[k].type \notin Success
  <2> TAKE k \in 1..Len(es \o fs)
  <2>1. CASE k \in 1..Len(es) /\ (es \o fs)[k] = es[k]
    BY <1>1, <2>1 DEF Lasts, Endings, Success
  <2>2. CASE \E j \in 1..Len(fs) : k = Len(es) + j /\ (es \o fs)[k] = fs[j]
    BY <2>2 DEF Success
  <2> QED BY <1>1, <2>1, <2>2, ConcatParts
<1>6. ASSUME request.api = "responses", HeadersFirst(Parts(Append(h, x)))
      PROVE  Regular(es \o fs)
  <2>1. PICK m \in Messages : m.type = "failed" /\ fs = <<m>> BY <1>6
  <2>2. HeadersFirst(Parts(h)) BY <1>1, <1>6, HeadersWereFirst
  <2>3. Regular(es) BY <1>6, <2>2 DEF Speaks, InOrder
  <2>4. Regular(Append(es, m)) BY <1>1, <2>1, <2>3, RegularAside DEF Endings
  <2> QED BY <1>1, <2>1, <2>4, ConcatOne
<1> QED BY <1>2, <1>3, <1>4, <1>5, <1>6 DEF Apologised

LEMMA SaidMore ==
  ASSUME NEW es \in Seq(Messages), NEW m \in Messages
  PROVE  /\ TextOf(Append(es, m)) = IF m.type = "text_delta" THEN TextOf(es) \o m.body ELSE TextOf(es)
         /\ ToolsOf(Append(es, m)) = IF m.type = "tool_delta" THEN Append(ToolsOf(es), m.body) ELSE ToolsOf(es)
<1>1. PICK ms : ms = <<m>> OBVIOUS
<1>2. ms \in Seq(Messages) /\ es \o ms = Append(es, m) BY <1>1, ConcatOne
<1>3. Len(ms) = 1 /\ ms[1] = m /\ \A k \in 1..1 : k = 1 BY <1>1
<1>4. TextOf(es \o ms) = TextOf(es) \o TextOf(ms) BY <1>2, TextOfIs
<1>5. ToolsOf(es \o ms) = ToolsOf(es) \o ToolsOf(ms) BY <1>2, ToolsOfAre
<1>6. TextOf(es) \in Seq(Chars) /\ ToolsOf(es) \in Seq(Deltas) BY TextOfIs, ToolsOfAre
<1>7. TextOf(ms) = IF m.type = "text_delta" THEN m.body ELSE <<>>
  <2>1. m.type = "text_delta" => TextOf(ms) = m.body BY <1>1, TextOfIs
  <2>2. m.type # "text_delta" => TextOf(ms) = <<>> BY <1>2, <1>3, TextOfIs
  <2> QED BY <2>1, <2>2
<1>8. ToolsOf(ms) = IF m.type = "tool_delta" THEN <<m.body>> ELSE <<>>
  <2>1. m.type = "tool_delta" => ToolsOf(ms) = <<m.body>> BY <1>1, ToolsOfAre
  <2>2. m.type # "tool_delta" => ToolsOf(ms) = <<>> BY <1>2, <1>3, ToolsOfAre
  <2> QED BY <2>1, <2>2
<1>9. TextOf(es) \o <<>> = TextOf(es) BY <1>6, ConcatNothing
<1>10. ToolsOf(es) \o <<>> = ToolsOf(es) BY <1>6, ConcatNothing
<1>11. m.type = "tool_delta" => ToolsOf(es) \o <<m.body>> = Append(ToolsOf(es), m.body)
  BY <1>6, MessagesAre, ConcatOne
<1>12. TextOf(Append(es, m)) = IF m.type = "text_delta" THEN TextOf(es) \o m.body ELSE TextOf(es)
  BY <1>2, <1>4, <1>7, <1>9
<1>13. ToolsOf(Append(es, m)) = IF m.type = "tool_delta" THEN Append(ToolsOf(es), m.body) ELSE ToolsOf(es)
  BY <1>2, <1>5, <1>8, <1>10, <1>11
<1> QED BY <1>12, <1>13

LEMMA CheckedIs ==
  ASSUME NEW x \in Reports, NEW e, e = Checked(x)
  PROVE  /\ x.type \in {"text", "thought", "thought_ends", "failed"} => e = x
         /\ x.type = "tool" => e = IF Structured THEN Failed ELSE x
         /\ x.type = "completed" =>
              \/ Structured /\ e = Failed
              \/ e = x /\ (Structured => x.finish = "stop" /\ checked \in Objects)
         /\ Failed.type = "failed" /\ Failed.finish = "none"
  BY DEF Checked, Failed

\* An event that an encoder but that of Responses passes on or keeps to itself.
LEMMA SpeaksOn ==
  ASSUME request.api # "responses", NEW h, NEW es, NEW p, NEW ch, Speaks(h, es, p, ch),
         NEW x \in Outputs, NEW q \in Encoders, ~q.terminal,
         NEW fs \in Seq(Messages),
         \A k \in 1..Len(fs) : fs[k].type \notin CloseTypes \cup Lasts,
         NEW text, text = (IF x.type = "text" THEN TextOf(es) \o x.text ELSE TextOf(es)),
         TextOf(fs) = text,
         request.api = "chat" =>
           ToolsOf(fs) = IF x.type = "tool" THEN Append(ToolsOf(es), x.tool) ELSE ToolsOf(es),
         request.api = "completions" => x.type # "tool",
         Structured => x.type # "tool",
         NEW c, Structured => c = IF x.type = "text" THEN ch \o x.text ELSE ch
  PROVE  Speaks(Append(h, x), fs, q, c)
<1>1. /\ h \in Seq(Outputs) /\ TextOf(es) = Words(h)
      /\ request.api = "chat" => ToolsOf(es) = Parts(h)
      /\ request.api = "completions" => Parts(h) = <<>>
      /\ Structured => ch = Words(h) /\ Parts(h) = <<>>
  BY DEF Speaks
<1>2. x \in Reports BY OutputsAreReports
<1>3. PICK g : g = Append(h, x) OBVIOUS
<1>4. g \in Seq(Outputs) BY <1>1, <1>3
<1>5. Words(g) = IF x.type = "text" THEN Words(h) \o x.text ELSE Words(h)
  BY <1>1, <1>2, <1>3, PassedMore
<1>6. Parts(g) = IF x.type = "tool" THEN Append(Parts(h), x.tool) ELSE Parts(h)
  BY <1>1, <1>2, <1>3, PassedMore
<1>7. TextOf(fs) = Words(g) BY <1>1, <1>5
<1>8. request.api = "chat" => ToolsOf(fs) = Parts(g) BY <1>1, <1>6
<1>9. request.api = "completions" => Parts(g) = <<>> BY <1>1, <1>6
<1>10. Structured => c = Words(g) /\ Parts(g) = <<>> BY <1>1, <1>5, <1>6
<1>11. Speaks(g, fs, q, c) BY <1>4, <1>7, <1>8, <1>9, <1>10 DEF Speaks
<1> QED BY <1>3, <1>11

\* One message for an event.
LEMMA SpeaksOne ==
  ASSUME request.api # "responses", NEW h, NEW es, NEW p, NEW ch, Speaks(h, es, p, ch),
         p.queue = <<>>,
         NEW x \in Outputs, NEW m \in Messages, m.type \notin CloseTypes \cup Lasts,
         m.type = "text_delta" <=> x.type = "text", x.type = "text" => m.body = x.text,
         m.type = "tool_delta" <=> x.type = "tool", x.type = "tool" => m.body = x.tool,
         request.api = "completions" => x.type # "tool",
         Structured => x.type # "tool",
         NEW c, Structured => c = IF x.type = "text" THEN ch \o x.text ELSE ch,
         NEW q, q = Pushed(p, <<m>>)
  PROVE  Speaks(Append(h, x), es \o q.queue, q, c)
<1>1. /\ p \in Encoders /\ ~p.terminal /\ es \in Seq(Messages)
      /\ \A k \in 1..Len(es) : es[k].type \notin CloseTypes \cup Lasts
  BY DEF Speaks
<1>2. PICK ms : ms = <<m>> OBVIOUS
<1>3. ms \in Seq(Messages) /\ es \o ms = Append(es, m) BY <1>1, <1>2, ConcatOne
<1>4. q \in Encoders /\ ~q.terminal /\ q.queue = p.queue \o ms
  <2>1. Pushed(p, ms) \in Encoders /\ Pushed(p, ms).queue = p.queue \o ms
    BY <1>1, <1>3, EncodersPush
  <2>2. Pushed(p, ms).terminal = p.terminal
    BY <1>1, <1>3, EncodersPush
  <2>3. q = Pushed(p, ms) BY <1>2
  <2> QED BY <1>1, <2>1, <2>2, <2>3
<1>5. p.queue \o ms = ms BY <1>3, ConcatNothing
<1>6. PICK fs : fs = Append(es, m) OBVIOUS
<1>7. es \o q.queue = fs BY <1>3, <1>4, <1>5, <1>6
<1>8. fs \in Seq(Messages) /\ \A k \in 1..Len(fs) : fs[k].type \notin CloseTypes \cup Lasts
  BY <1>1, <1>6, AppendedIs
<1>9. TextOf(fs) = IF x.type = "text" THEN TextOf(es) \o x.text ELSE TextOf(es)
  BY <1>1, <1>6, SaidMore
<1>10. ToolsOf(fs) = IF x.type = "tool" THEN Append(ToolsOf(es), x.tool) ELSE ToolsOf(es)
  BY <1>1, <1>6, SaidMore
<1>11. Speaks(Append(h, x), fs, q, c)
  BY <1>4, <1>8, <1>9, <1>10, SpeaksOn
<1> QED BY <1>7, <1>11

\* No message for an event.
LEMMA SpeaksNothing ==
  ASSUME request.api # "responses", NEW h, NEW es, NEW p, NEW ch, Speaks(h, es, p, ch),
         p.queue = <<>>, NEW x \in Outputs, x.type \notin {"text", "tool"}
  PROVE  Speaks(Append(h, x), es \o p.queue, p, ch)
<1>1. /\ p \in Encoders /\ ~p.terminal /\ es \in Seq(Messages)
      /\ \A k \in 1..Len(es) : es[k].type \notin CloseTypes \cup Lasts
  BY DEF Speaks
<1>2. es \o p.queue = es BY <1>1, ConcatNothing
<1>3. Speaks(Append(h, x), es, p, ch) BY <1>1, SpeaksOn
<1> QED BY <1>2, <1>3

\* The error, or the finish chunk, and what follows it.
LEMMA LastOnes ==
  ASSUME NEW es \in Seq(Messages), NEW p \in Encoders, p.queue = <<>>,
         NEW fs \in Seq(Messages),
         \A k \in 1..Len(fs) : fs[k].type \in {"completed", "failed", "usage", "done"},
         NEW q, q = Terminated(p, fs)
  PROVE  /\ q \in Encoders /\ q.terminal /\ q.queue = fs
         /\ TextOf(es \o fs) = TextOf(es) /\ ToolsOf(es \o fs) = ToolsOf(es)
<1>5. q \in Encoders /\ q.queue = p.queue \o fs /\ q.terminal
  BY EncodersEnd
<1>6. p.queue \o fs = fs BY ConcatNothing
<1>7. TextOf(fs) = <<>> BY TextOfIs
<1>8. ToolsOf(fs) = <<>> BY ToolsOfAre
<1>9. TextOf(es \o fs) = TextOf(es) \o <<>> /\ TextOf(es) \in Seq(Chars)
  <2>1. TextOf(es \o fs) = TextOf(es) \o TextOf(fs) BY TextOfIs
  <2>2. TextOf(es) \in Seq(Chars) BY TextOfIs
  <2> QED BY <1>7, <2>1, <2>2
<1>10. ToolsOf(es \o fs) = ToolsOf(es) \o <<>> /\ ToolsOf(es) \in Seq(Deltas)
  <2>1. ToolsOf(es \o fs) = ToolsOf(es) \o ToolsOf(fs) BY ToolsOfAre
  <2>2. ToolsOf(es) \in Seq(Deltas) BY ToolsOfAre
  <2> QED BY <1>8, <2>1, <2>2
<1> QED BY <1>5, <1>6, <1>9, <1>10, ConcatNothing

LEMMA NoCalls == Calls(<<>>) = {}
<1>1. Called(<<>>) = {} BY CalledIs
<1> QED BY <1>1 DEF Calls

\* The finish chunk, the usage and [DONE].
LEMMA Succeeds ==
  ASSUME request \in Requests, request.api # "responses",
         NEW h, NEW es, NEW p, NEW ch, Speaks(h, es, p, ch), p.queue = <<>>,
         NEW r \in Finishes, Structured => r = "stop" /\ ch \in Objects,
         NEW w \in BOOLEAN, NEW x, x.finish = r, NEW q, q = Terminated(p, Succeeding(x))
  PROVE  Succeeded(Append(h, Completed(r, w)), es \o q.queue, q)
<1>17. PICK e, u, f : /\ e = Event("completed", 0, r) /\ u = Event("usage", 0, <<>>)
                      /\ f = Event("done", 0, <<>>)
  OBVIOUS
<1>1. PICK fs : fs = Succeeding(x) OBVIOUS
<1>2. /\ p \in Encoders /\ es \in Seq(Messages) /\ h \in Seq(Outputs)
      /\ \A k \in 1..Len(es) : es[k].type \notin CloseTypes \cup Lasts
      /\ TextOf(es) = Words(h)
  BY DEF Speaks
<1>3. /\ e \in Messages /\ e.type = "completed" /\ e.body = r
      /\ u \in Messages /\ u.type = "usage"
      /\ f \in Messages /\ f.type = "done"
  BY <1>17, EventIs, BodiesAre DEF Markers
<1>18. fs = <<e, f>> \/ fs = <<e, u, f>> BY <1>1, <1>17, SucceedingIs
<1>5. /\ fs \in Seq(Messages)
      /\ \A k \in 1..Len(fs) : fs[k] = e \/ fs[k].type \in {"usage", "done"}
  <2>1. CASE fs = <<e, f>>
    <3>1. fs \in Seq(Messages) /\ Len(fs) = 2 /\ fs[1] = e /\ fs[2] = f BY <1>3, <2>1
    <3>2. \A k \in 1..2 : k = 1 \/ k = 2 OBVIOUS
    <3> QED BY <1>3, <3>1, <3>2
  <2>2. CASE fs = <<e, u, f>>
    <3>1. /\ fs \in Seq(Messages) /\ Len(fs) = 3
          /\ fs[1] = e /\ fs[2] = u /\ fs[3] = f
      BY <1>3, <2>2
    <3>2. \A k \in 1..3 : k = 1 \/ k = 2 \/ k = 3 OBVIOUS
    <3> QED BY <1>3, <3>1, <3>2
  <2> QED BY <1>18, <2>1, <2>2
<1>19. \A k \in 1..Len(fs) : fs[k].type \in {"completed", "failed", "usage", "done"}
  BY <1>3, <1>5
<1>4. q \in Encoders /\ q.terminal /\ q.queue = fs
  BY <1>1, <1>2, <1>5, <1>19, LastOnes
<1>6. TextOf(es \o fs) = TextOf(es) /\ ToolsOf(es \o fs) = ToolsOf(es)
  BY <1>1, <1>2, <1>5, <1>19, LastOnes
<1>7. PICK gs : gs = es \o fs OBVIOUS
<1>8. gs \in Seq(Messages) BY <1>2, <1>5, <1>7, ConcatType
<1>9. ASSUME NEW k \in 1..Len(gs)
      PROVE  /\ gs[k].type \notin CloseTypes
             /\ gs[k].type \in Success => gs[k].body = r
  <2>1. CASE k \in 1..Len(es) /\ gs[k] = es[k]
    BY <1>2, <2>1 DEF Lasts, Endings, Success
  <2>2. CASE \E j \in 1..Len(fs) : k = Len(es) + j /\ gs[k] = fs[j]
    <3>1. PICK j \in 1..Len(fs) : gs[k] = fs[j] BY <2>2
    <3> QED BY <1>3, <1>5, <3>1 DEF CloseTypes, Success
  <2> QED BY <1>2, <1>5, <1>7, <2>1, <2>2, ConcatParts
<1>10. request.api = "chat" => ToolsOf(gs) = Parts(h) BY <1>6, <1>7 DEF Speaks
<1>11. request.api # "chat" =>
         {gs[k].body : k \in {j \in 1..Len(gs) : gs[j].type = "call_done"}} = Calls(Parts(h))
  <2> SUFFICES ASSUME request.api # "chat"
               PROVE  {gs[k].body : k \in {j \in 1..Len(gs) : gs[j].type = "call_done"}} = Calls(Parts(h))
    OBVIOUS
  <2>1. request.api = "completions" BY StreamAssumption DEF Apis
  <2>2. Parts(h) = <<>> BY <2>1 DEF Speaks
  <2>3. {j \in 1..Len(gs) : gs[j].type = "call_done"} = {} BY <1>9 DEF CloseTypes
  <2> QED BY <2>2, <2>3, NoCalls
<1>12. Structured => Words(h) \in Objects /\ r = "stop" BY DEF Speaks
<1>13. \A k \in 1..Len(gs) : gs[k].type \in {"text_done", "part_done", "message_done"} => gs[k].body = Words(h)
  BY <1>9 DEF CloseTypes
<1>14. TextOf(gs) = Words(h) BY <1>2, <1>6, <1>7
<1>15. PICK g : g = Append(h, Completed(r, w)) OBVIOUS
<1>16. Succeeded(g, gs, q)
  BY <1>2, <1>4, <1>8, <1>9, <1>10, <1>11, <1>12, <1>13, <1>14, <1>15 DEF Succeeded
<1> QED BY <1>4, <1>7, <1>15, <1>16

LEMMA Fails ==
  ASSUME request.api # "responses",
         NEW h, NEW es, NEW p, NEW ch, Speaks(h, es, p, ch), p.queue = <<>>,
         NEW x \in Reports, x.type # "text",
         NEW q, q = Terminated(p, Failing)
  PROVE  Apologised(Append(h, x), es \o q.queue, q)
<1>1. PICK e, f : e = Event("failed", 0, "none") /\ f = Event("done", 0, <<>>) OBVIOUS
<1>2. e \in Messages /\ e.type = "failed" /\ f \in Messages /\ f.type = "done"
  BY <1>1, EventIs, BodiesAre DEF Markers
<1>3. PICK fs : fs = <<e, f>> OBVIOUS
<1>4. p \in Encoders /\ es \in Seq(Messages) BY DEF Speaks
<1>5. q \in Encoders /\ q.terminal /\ q.queue = fs /\ fs \in Seq(Messages)
  <2>1. q = Terminated(p, fs) BY <1>1, <1>3 DEF Failing
  <2>2. fs \in Seq(Messages) /\ Len(fs) = 2 /\ fs[1] = e /\ fs[2] = f BY <1>2, <1>3
  <2>3. \A k \in 1..2 : k = 1 \/ k = 2 OBVIOUS
  <2>4. \A k \in 1..Len(fs) : fs[k].type \in {"completed", "failed", "usage", "done"}
    BY <1>2, <2>2, <2>3
  <2> QED BY <1>4, <2>1, <2>2, <2>4, LastOnes
<1>6. \A k \in 1..Len(fs) : fs[k].type \in {"failed", "done"}
  <2>1. \A k \in 1..2 : k = 1 \/ k = 2 OBVIOUS
  <2> QED BY <1>2, <1>3, <2>1
<1>7. Apologised(Append(h, x), es \o fs, q)
  <2>1. request.api = "responses" => \E m \in Messages : m.type = "failed" /\ fs = <<m>> OBVIOUS
  <2>2. q \in Encoders /\ q.terminal /\ fs \in Seq(Messages) BY <1>5
  <2> QED BY <1>6, <2>1, <2>2, Apologises
<1> QED BY <1>5, <1>7

ChecksOn(e) == IF Structured /\ e.type = "text" THEN checked \o e.text ELSE checked

LEMMA ChatPasses ==
  ASSUME request \in Requests, request.api = "chat", NEW h, NEW es, NEW p,
         Speaks(h, es, p, checked), p.queue = <<>>,
         NEW x \in Reports, NEW e, e = Checked(x), NEW q, q = Chat(p, e)
  PROVE  Passed(Append(h, x), es \o q.queue, q, ChecksOn(e))
<1>1. CASE x.type = "text"
  <2>1. e = x /\ x \in Outputs /\ x.text \in Seq(Chars) BY <1>1, CheckedIs, ReportsAre
  <2>2. PICK m : m = Event("text_delta", 0, x.text) OBVIOUS
  <2>3. m \in Messages /\ m.type = "text_delta" /\ m.body = x.text BY <2>1, <2>2, EventIs
  <2>4. q = Pushed(p, <<m>>) BY <1>1, <2>1, <2>2 DEF Chat
  <2>5. m.type \notin CloseTypes \cup Lasts BY <2>3 DEF CloseTypes, Lasts, Endings
  <2>6. Structured => ChecksOn(e) = checked \o x.text BY <1>1, <2>1 DEF ChecksOn
  <2>7. Speaks(Append(h, x), es \o q.queue, q, ChecksOn(e))
    BY <1>1, <2>1, <2>3, <2>4, <2>5, <2>6, SpeaksOne
  <2> QED BY <2>7 DEF Passed
<1>2. CASE x.type = "tool" /\ ~Structured
  <2>1. e = x /\ x \in Outputs /\ x.tool \in Deltas BY <1>2, CheckedIs, ReportsAre
  <2>2. PICK m : m = Event("tool_delta", x.tool.index, x.tool) OBVIOUS
  <2>3. x.tool.index \in Nat BY <2>1, StreamAssumption DEF Deltas
  <2>4. m \in Messages /\ m.type = "tool_delta" /\ m.body = x.tool BY <2>1, <2>2, <2>3, EventIs
  <2>5. q = Pushed(p, <<m>>) BY <1>2, <2>1, <2>2 DEF Chat
  <2>6. m.type \notin CloseTypes \cup Lasts BY <2>4 DEF CloseTypes, Lasts, Endings
  <2>7. Speaks(Append(h, x), es \o q.queue, q, ChecksOn(e))
    BY <1>2, <2>1, <2>4, <2>5, <2>6, SpeaksOne
  <2> QED BY <2>7 DEF Passed
<1>3. CASE x.type \in {"thought", "thought_ends"}
  <2>1. e = x /\ x \in Outputs BY <1>3, CheckedIs, ReportsAre
  <2>2. ChecksOn(e) = checked BY <1>3, <2>1 DEF ChecksOn
  <2>3. CASE x.type = "thought" /\ request.thoughts
    <3>1. PICK m : m = Event("thought", 0, <<>>) OBVIOUS
    <3>2. m \in Messages /\ m.type = "thought" BY <3>1, EventIs, BodiesAre DEF Markers
    <3>3. q = Pushed(p, <<m>>) BY <2>1, <2>3, <3>1 DEF Chat
    <3>4. m.type \notin CloseTypes \cup Lasts BY <3>2 DEF CloseTypes, Lasts, Endings
    <3>5. Speaks(Append(h, x), es \o q.queue, q, checked)
      BY <2>1, <2>3, <3>2, <3>3, <3>4, SpeaksOne
    <3> QED BY <2>2, <3>5 DEF Passed
  <2>4. CASE ~(x.type = "thought" /\ request.thoughts)
    <3>1. q = p BY <1>3, <2>1, <2>4 DEF Chat
    <3>2. Speaks(Append(h, x), es \o p.queue, p, checked) BY <1>3, <2>1, SpeaksNothing
    <3> QED BY <2>2, <3>1, <3>2 DEF Passed
  <2> QED BY <2>3, <2>4
<1>4. CASE e = Failed /\ x.type # "text"
  <2>1. e.type = "failed" /\ e.finish = "none" BY <1>4, CheckedIs
  <2>2. q = Terminated(p, Failing) BY <2>1 DEF Chat
  <2>3. Apologised(Append(h, x), es \o q.queue, q) BY <1>4, <2>2, Fails
  <2> QED BY <2>3 DEF Passed
<1>5. CASE x.type = "completed" /\ e = x
  <2>1. PICK r \in Finishes, w \in BOOLEAN : x = Completed(r, w) BY <1>5, ReportsAre
  <2>2. e.type = "completed" /\ e.finish = r BY <1>5, <2>1 DEF Completed
  <2>3. Structured => r = "stop" /\ checked \in Objects
    <3>1. Structured => e # Failed BY <1>5, CheckedIs
    <3> QED BY <1>5, <2>2, <3>1, CheckedIs
  <2>4. q = Terminated(p, Succeeding(e)) BY <2>2 DEF Chat
  <2>5. Succeeded(Append(h, x), es \o q.queue, q) BY <2>1, <2>2, <2>3, <2>4, Succeeds
  <2> QED BY <2>5 DEF Passed
<1>6. x.type = "failed" => e = Failed BY CheckedIs, ReportsAre
<1>7. x.type = "completed" => e = Failed \/ e = x BY CheckedIs
<1>8. x.type = "tool" /\ Structured => e = Failed BY CheckedIs
<1>9. x.type \in {"text", "tool", "thought", "thought_ends", "failed", "completed"} BY ReportsAre
<1> QED BY <1>1, <1>2, <1>3, <1>4, <1>5, <1>6, <1>7, <1>8, <1>9

LEMMA CompletionsPass ==
  ASSUME request \in Requests, request.api = "completions", NEW h, NEW es, NEW p,
         Speaks(h, es, p, checked), p.queue = <<>>,
         NEW x \in Reports, NEW e, e = Checked(x), NEW q, q = Completions(p, e)
  PROVE  Passed(Append(h, x), es \o q.queue, q, ChecksOn(e))
<1>1. CASE x.type = "text"
  <2>1. e = x /\ x \in Outputs /\ x.text \in Seq(Chars) BY <1>1, CheckedIs, ReportsAre
  <2>2. PICK m : m = Event("text_delta", 0, x.text) OBVIOUS
  <2>3. m \in Messages /\ m.type = "text_delta" /\ m.body = x.text BY <2>1, <2>2, EventIs
  <2>4. q = Pushed(p, <<m>>) BY <1>1, <2>1, <2>2 DEF Completions
  <2>5. m.type \notin CloseTypes \cup Lasts BY <2>3 DEF CloseTypes, Lasts, Endings
  <2>6. Structured => ChecksOn(e) = checked \o x.text BY <1>1, <2>1 DEF ChecksOn
  <2>7. Speaks(Append(h, x), es \o q.queue, q, ChecksOn(e))
    BY <1>1, <2>1, <2>3, <2>4, <2>5, <2>6, SpeaksOne
  <2> QED BY <2>7 DEF Passed
<1>2. CASE x.type \in {"thought", "thought_ends"}
  <2>1. e = x /\ x \in Outputs BY <1>2, CheckedIs, ReportsAre
  <2>2. ChecksOn(e) = checked BY <1>2, <2>1 DEF ChecksOn
  <2>3. q = p BY <1>2, <2>1 DEF Completions
  <2>4. Speaks(Append(h, x), es \o p.queue, p, checked) BY <1>2, <2>1, SpeaksNothing
  <2> QED BY <2>2, <2>3, <2>4 DEF Passed
<1>3. CASE /\ x.type \notin {"text", "thought", "thought_ends"}
           /\ e.type = "completed" /\ e.finish # "tools"
  <2>1. e = x /\ x.type = "completed"
    <3>1. Failed.type # e.type BY <1>3, CheckedIs
    <3>2. x.type \in {"tool", "failed", "completed"} BY <1>3, ReportsAre
    <3> QED BY <1>3, <3>1, <3>2, CheckedIs
  <2>2. PICK r \in Finishes, w \in BOOLEAN : x = Completed(r, w) BY <2>1, ReportsAre
  <2>3. e.finish = r BY <2>1, <2>2 DEF Completed
  <2>4. Structured => r = "stop" /\ checked \in Objects
    <3>1. e # Failed BY <1>3, CheckedIs
    <3> QED BY <2>1, <2>3, <3>1, CheckedIs
  <2>5. q = Terminated(p, Succeeding(e)) BY <1>3 DEF Completions
  <2>6. Succeeded(Append(h, x), es \o q.queue, q) BY <2>2, <2>3, <2>4, <2>5, Succeeds
  <2> QED BY <2>6 DEF Passed
<1>4. CASE /\ x.type \notin {"text", "thought", "thought_ends"}
           /\ ~(e.type = "completed" /\ e.finish # "tools")
  <2>1. e.type \notin {"text", "thought", "thought_ends"}
    BY <1>4, CheckedIs, ReportsAre
  <2>2. q = Terminated(p, Failing) BY <1>4, <2>1 DEF Completions
  <2>3. Apologised(Append(h, x), es \o q.queue, q) BY <1>4, <2>2, Fails
  <2> QED BY <2>3 DEF Passed
<1> QED BY <1>1, <1>2, <1>3, <1>4

-----------------------------------------------------------------------------
(* Items in order: those at A were announced, all below n.                 *)

Listed(es, A, n) ==
  /\ Regular(es)
  /\ \A k \in 1..Len(es) : IsItem(es[k]) => es[k].at \in A /\ es[k].type \notin Closed
  /\ \A a \in A : a < n /\ \E k \in 1..Len(es) : IsItem(es[k]) /\ es[k].at = a

LEMMA ListedNew ==
  ASSUME NEW es \in Seq(Messages), NEW A, A \subseteq Nat, NEW n \in Nat, Listed(es, A, n),
         NEW m \in Messages, m.type \in Added, m.at = n
  PROVE  Append(es, m) \in Seq(Messages) /\ Listed(Append(es, m), A \cup {n}, n + 1)
<1>1. PICK fs : fs = Append(es, m) OBVIOUS
<1>2. /\ fs \in Seq(Messages) /\ Len(es) \in Nat /\ Len(fs) = Len(es) + 1
      /\ \A k \in 1..Len(es) : fs[k] = es[k]
      /\ fs[Len(es) + 1] = m /\ 1..Len(fs) = 1..Len(es) \cup {Len(es) + 1}
  BY <1>1, AppendedIs
<1>3. IsItem(m) /\ m.type \notin Closed BY DEF IsItem, Added, Closed, Endings
<1>4. \A k \in 1..Len(es) : IsItem(es[k]) => es[k].at # n /\ es[k].at \in A /\ es[k].type \notin Closed
  BY DEF Listed
<1>5. Regular(es) BY DEF Listed
<1>6. Regular(fs) BY <1>1, <1>4, <1>5, RegularGrows
<1>7. \A k \in 1..Len(fs) : IsItem(fs[k]) => fs[k].at \in A \cup {n} /\ fs[k].type \notin Closed
  BY <1>2, <1>3, <1>4
<1>8. ASSUME NEW a \in A \cup {n}
      PROVE  a < n + 1 /\ \E k \in 1..Len(fs) : IsItem(fs[k]) /\ fs[k].at = a
  <2>1. CASE a = n
    <3>1. Len(es) + 1 \in 1..Len(fs) BY <1>2
    <3> QED BY <1>2, <1>3, <2>1, <3>1
  <2>2. CASE a \in A
    <3>1. a < n /\ \E k \in 1..Len(es) : IsItem(es[k]) /\ es[k].at = a BY <2>2 DEF Listed
    <3>2. a < n + 1 BY <2>2, <3>1
    <3>3. PICK k \in 1..Len(es) : IsItem(es[k]) /\ es[k].at = a BY <3>1
    <3>4. k \in 1..Len(fs) /\ fs[k] = es[k] BY <1>2
    <3> QED BY <3>2, <3>3, <3>4
  <2> QED BY <2>1, <2>2
<1> QED BY <1>1, <1>2, <1>6, <1>7, <1>8 DEF Listed

LEMMA ListedOn ==
  ASSUME NEW es \in Seq(Messages), NEW A, A \subseteq Nat, NEW n \in Nat, Listed(es, A, n),
         NEW m \in Messages, m.type \notin Added \cup Closed, IsItem(m) => m.at \in A
  PROVE  Append(es, m) \in Seq(Messages) /\ Listed(Append(es, m), A, n)
<1>1. PICK fs : fs = Append(es, m) OBVIOUS
<1>2. /\ fs \in Seq(Messages) /\ Len(es) \in Nat /\ Len(fs) = Len(es) + 1
      /\ \A k \in 1..Len(es) : fs[k] = es[k]
      /\ fs[Len(es) + 1] = m /\ 1..Len(fs) = 1..Len(es) \cup {Len(es) + 1}
  BY <1>1, AppendedIs
<1>3. \A k \in 1..Len(es) : IsItem(es[k]) => es[k].at \in A /\ es[k].type \notin Closed
  BY DEF Listed
<1>4. \A a \in A : a < n /\ \E k \in 1..Len(es) : IsItem(es[k]) /\ es[k].at = a
  BY DEF Listed
<1>5. Regular(es) BY DEF Listed
<1>6. IsItem(m) => ~(\A j \in 1..Len(es) : IsItem(es[j]) => es[j].at # m.at) BY <1>4
<1>7. Regular(fs) BY <1>1, <1>3, <1>5, <1>6, RegularGrows
<1>8. \A k \in 1..Len(fs) : IsItem(fs[k]) => fs[k].at \in A /\ fs[k].type \notin Closed
  BY <1>2, <1>3
<1>9. \A a \in A : a < n /\ \E k \in 1..Len(fs) : IsItem(fs[k]) /\ fs[k].at = a
  <2> TAKE a \in A
  <2>1. PICK k \in 1..Len(es) : IsItem(es[k]) /\ es[k].at = a BY <1>4
  <2>2. k \in 1..Len(fs) /\ fs[k] = es[k] BY <1>2
  <2> QED BY <1>4, <2>1, <2>2
<1> QED BY <1>1, <1>2, <1>7, <1>8, <1>9 DEF Listed

LEMMA OpenAtsAre ==
  ASSUME NEW p \in Encoders
  PROVE  /\ OpenAts(p) \subseteq Nat
         /\ \A n \in Nat : p.textAt = <<n>> => n \in OpenAts(p)
         /\ \A i \in Indexes : p.calls[i].seen => p.calls[i].at \in OpenAts(p)
         /\ p.textAt = <<>> \/ \E n \in Nat : p.textAt = <<n>>
         /\ p.next \in Nat
  BY DEF OpenAts, Encoders

\* Calls never share an item, nor with the message.
Apart(p) ==
  /\ \A i, j \in Indexes : p.calls[i].seen /\ p.calls[j].seen /\ p.calls[i].at = p.calls[j].at => i = j
  /\ \A i \in Indexes : p.calls[i].seen => p.calls[i].added /\ p.textAt # <<p.calls[i].at>>

LEMMA InOrderIs ==
  ASSUME NEW es, NEW p, \A k \in 1..Len(es) : es[k].type \notin Closed
  PROVE  InOrder(es, p) <=> Listed(es, OpenAts(p), p.next) /\ Apart(p)
  BY DEF InOrder, Listed, Apart

-----------------------------------------------------------------------------
(* What the encoder of Responses makes of text.                            *)

Started(p, n) == [p EXCEPT !.textAt = <<n>>, !.next = n + 1]
Heard(p, t) == [p EXCEPT !.text = @ \o t]

LEMMA StartedIs ==
  ASSUME NEW p \in Encoders, NEW n \in Nat, NEW q, q = Started(p, n)
  PROVE  /\ q \in Encoders /\ q.queue = p.queue /\ q.text = p.text /\ q.textAt = <<n>>
         /\ q.calls = p.calls /\ q.next = n + 1 /\ q.terminal = p.terminal
<1>1. n + 1 \in Nat /\ <<n>> \in {<<k>> : k \in Nat} OBVIOUS
<1> QED BY <1>1 DEF Encoders, Started

LEMMA HeardIs ==
  ASSUME NEW p \in Encoders, NEW t \in Seq(Chars), NEW r, r = Heard(p, t)
  PROVE  /\ r \in Encoders /\ r.queue = p.queue /\ r.text = p.text \o t /\ r.textAt = p.textAt
         /\ r.calls = p.calls /\ r.next = p.next /\ r.terminal = p.terminal
<1>1. p.text \in Seq(Chars) BY DEF Encoders
<1>2. p.text \o t \in Seq(Chars) BY <1>1, ConcatType
<1> QED BY <1>2 DEF Encoders, Heard

TextEvents(p, t) ==
  IF p.textAt = <<>>
  THEN <<Event("message_added", p.next, <<>>), Event("part_added", p.next, <<>>)>>
         \o <<Event("text_delta", p.next, t)>>
  ELSE <<Event("text_delta", p.textAt[1], t)>>

LEMMA TextPushes ==
  ASSUME NEW p \in Encoders, p.queue = <<>>, NEW t \in Seq(Chars), NEW r, r = ResponsesText(p, t)
  PROVE  /\ r \in Encoders /\ r.terminal = p.terminal /\ r.text = p.text \o t /\ r.calls = p.calls
         /\ r.queue = TextEvents(p, t)
         /\ r.textAt = IF p.textAt = <<>> THEN <<p.next>> ELSE p.textAt
         /\ r.next = IF p.textAt = <<>> THEN p.next + 1 ELSE p.next
<1>17. PICK n \in Nat : n = p.next BY OpenAtsAre
<1>18. PICK at \in Nat : (p.textAt = <<>> => at = n) /\ (p.textAt # <<>> => p.textAt = <<at>>)
  BY <1>17, OpenAtsAre
<1>19. PICK e, f, g : /\ e = Event("message_added", n, <<>>) /\ f = Event("part_added", n, <<>>)
                      /\ g = Event("text_delta", at, t)
  OBVIOUS
<1>1. e \in Messages /\ f \in Messages /\ g \in Messages BY <1>19, EventIs, BodiesAre DEF Markers
<1>2. PICK pushed : pushed = Pushed(p, <<e, f>>) OBVIOUS
<1>3. PICK opened : opened = Started(pushed, n) OBVIOUS
<1>4. PICK q : q = IF p.textAt = <<>> THEN opened ELSE p OBVIOUS
<1>5. <<e, f>> \in Seq(Messages) /\ <<g>> \in Seq(Messages) BY <1>1
<1>6. /\ pushed \in Encoders /\ pushed.queue = <<e, f>> /\ pushed.terminal = p.terminal
      /\ pushed.text = p.text /\ pushed.calls = p.calls /\ pushed.next = n
  <2>1. /\ pushed \in Encoders /\ pushed.queue = p.queue \o <<e, f>> /\ pushed.terminal = p.terminal
        /\ pushed.text = p.text /\ pushed.calls = p.calls /\ pushed.next = n
    BY <1>2, <1>5, <1>17, EncodersPush
  <2>2. <<>> \o <<e, f>> = <<e, f>> BY <1>5, ConcatNothing
  <2> QED BY <2>1, <2>2
<1>7. /\ opened \in Encoders /\ opened.queue = <<e, f>> /\ opened.terminal = p.terminal
      /\ opened.text = p.text /\ opened.calls = p.calls /\ opened.next = n + 1 /\ opened.textAt = <<n>>
  <2>1. opened \in Encoders /\ opened.queue = pushed.queue /\ opened.text = pushed.text
    BY <1>3, <1>6, StartedIs
  <2>2. opened.textAt = <<n>> /\ opened.calls = pushed.calls
    BY <1>3, <1>6, StartedIs
  <2>3. opened.next = n + 1 /\ opened.terminal = pushed.terminal
    BY <1>3, <1>6, StartedIs, ZenonT(60)
  <2> QED BY <1>6, <2>1, <2>2, <2>3
<1>8. PICK said : said = Pushed(q, <<g>>) OBVIOUS
<1>9. q \in Encoders BY <1>4, <1>7
<1>10. q.textAt[1] = at BY <1>4, <1>7, <1>18
<1>11. /\ said \in Encoders /\ said.queue = q.queue \o <<g>> /\ said.terminal = q.terminal
       /\ said.text = q.text /\ said.calls = q.calls /\ said.next = q.next /\ said.textAt = q.textAt
  BY <1>5, <1>8, <1>9, EncodersPush
<1>12. r = Heard(said, t)
  <2>1. opened = [pushed EXCEPT !.textAt = <<p.next>>, !.next = @ + 1] BY <1>3, <1>6, <1>17 DEF Started
  <2> QED BY <1>2, <1>4, <1>8, <1>10, <1>17, <1>19, <2>1 DEF ResponsesText, Heard
<1>13. /\ r \in Encoders /\ r.queue = said.queue /\ r.text = said.text \o t /\ r.textAt = said.textAt
       /\ r.calls = said.calls /\ r.next = said.next /\ r.terminal = said.terminal
  BY <1>11, <1>12, HeardIs
<1>14. <<>> \o <<g>> = <<g>> BY <1>5, ConcatNothing
<1>15. CASE p.textAt = <<>>
  <2>1. q = opened BY <1>4, <1>15
  <2>2. TextEvents(p, t) = <<e, f>> \o <<g>> BY <1>15, <1>17, <1>18, <1>19 DEF TextEvents
  <2> QED BY <1>7, <1>11, <1>13, <1>15, <1>17, <2>1, <2>2
<1>16. CASE p.textAt # <<>>
  <2>1. q = p BY <1>4, <1>16
  <2>2. p.textAt[1] = at BY <1>16, <1>18
  <2>3. TextEvents(p, t) = <<g>> BY <1>16, <1>19, <2>2 DEF TextEvents
  <2> QED BY <1>11, <1>13, <1>14, <1>16, <1>17, <2>1, <2>3
<1> QED BY <1>15, <1>16

LEMMA ThreeMore ==
  ASSUME NEW E, NEW s \in Seq(E), NEW e \in E, NEW f \in E, NEW g \in E
  PROVE  s \o (<<e, f>> \o <<g>>) = Append(Append(Append(s, e), f), g)
  OBVIOUS

LEMMA TypesMore ==
  ASSUME NEW es \in Seq(Messages), NEW m \in Messages, NEW S, m.type \notin S,
         \A k \in 1..Len(es) : es[k].type \notin S
  PROVE  /\ Append(es, m) \in Seq(Messages)
         /\ \A k \in 1..Len(Append(es, m)) : Append(es, m)[k].type \notin S
  BY AppendedIs

\* What Speaks says of a Responses stream beside its text.
Follows(h, es, p) ==
  /\ p.text = Words(h)
  /\ p.textAt = <<>> => Words(h) = <<>>
  /\ \A i \in Indexes :
       /\ p.calls[i].seen <=> i \in Called(Parts(h))
       /\ p.calls[i].header = HeaderOf(i, Parts(h))
       /\ p.calls[i].args = ArgsOf(i, Parts(h))
       /\ p.calls[i].added => p.calls[i].seen
  /\ HeadersFirst(Parts(h)) => InOrder(es, p)

LEMMA SpeaksIs ==
  ASSUME request.api = "responses", NEW h, NEW es, NEW p, NEW ch
  PROVE  Speaks(h, es, p, ch) <=>
           /\ p \in Encoders /\ ~p.terminal
           /\ h \in Seq(Outputs) /\ es \in Seq(Messages)
           /\ \A k \in 1..Len(es) : es[k].type \notin CloseTypes \cup Lasts
           /\ TextOf(es) = Words(h)
           /\ Structured => ch = Words(h) /\ Parts(h) = <<>>
           /\ Follows(h, es, p)
  BY DEF Speaks, Follows

Quiet == CloseTypes \cup Lasts

LEMMA TextSpeaks ==
  ASSUME request.api = "responses", NEW h, NEW es, NEW p, NEW ch, Speaks(h, es, p, ch), p.queue = <<>>,
         NEW x \in Reports, x.type = "text",
         NEW r, r = ResponsesText(p, x.text),
         NEW c, Structured => c = ch \o x.text
  PROVE  Speaks(Append(h, x), es \o r.queue, r, c)
<1>1. /\ p \in Encoders /\ ~p.terminal /\ h \in Seq(Outputs) /\ es \in Seq(Messages)
      /\ \A k \in 1..Len(es) : es[k].type \notin Quiet
      /\ TextOf(es) = Words(h)
      /\ Structured => ch = Words(h) /\ Parts(h) = <<>>
      /\ Follows(h, es, p)
  BY SpeaksIs DEF Quiet
<1>2. x \in Outputs BY ReportsAre
<1>3. PICK t \in Seq(Chars) : t = x.text BY ReportsAre
<1>4. PICK g : g = Append(h, x) OBVIOUS
<1>5. g \in Seq(Outputs) /\ Words(g) = Words(h) \o t /\ Parts(g) = Parts(h)
  BY <1>1, <1>2, <1>3, <1>4, PassedMore
<1>6. PICK n \in Nat : n = p.next BY <1>1, OpenAtsAre
<1>7. PICK at \in Nat : /\ p.textAt = <<>> => at = n
                        /\ p.textAt # <<>> => p.textAt = <<at>>
  BY <1>1, <1>6, OpenAtsAre
<1>8. PICK e, f, m : /\ e = Event("message_added", n, <<>>) /\ f = Event("part_added", n, <<>>)
                     /\ m = Event("text_delta", at, t)
  OBVIOUS
<1>9. r = ResponsesText(p, t) BY <1>3
<1>30. p \in Encoders BY <1>1
<1>10. /\ r \in Encoders /\ r.terminal = p.terminal /\ r.text = p.text \o t /\ r.calls = p.calls
  BY <1>30, <1>9, TextPushes
<1>31. /\ r.queue = TextEvents(p, t)
       /\ r.textAt = IF p.textAt = <<>> THEN <<p.next>> ELSE p.textAt
       /\ r.next = IF p.textAt = <<>> THEN p.next + 1 ELSE p.next
  BY <1>30, <1>9, TextPushes
<1>11. e \in Messages /\ f \in Messages /\ m \in Messages
  BY <1>6, <1>8, EventIs, BodiesAre DEF Markers
<1>12. p.textAt = <<>> => r.queue = <<e, f>> \o <<m>> /\ r.textAt = <<n>> /\ r.next = n + 1
  <2>1. p.textAt = <<>> => TextEvents(p, t) = <<e, f>> \o <<m>> BY <1>6, <1>7, <1>8 DEF TextEvents
  <2> QED BY <1>6, <1>31, <2>1
<1>13. p.textAt # <<>> => r.queue = <<m>> /\ r.textAt = p.textAt /\ r.next = n
  <2>1. p.textAt # <<>> => p.textAt[1] = at BY <1>7
  <2>2. p.textAt # <<>> => TextEvents(p, t) = <<m>> BY <1>8, <2>1 DEF TextEvents
  <2> QED BY <1>6, <1>31, <2>2
<1>14. /\ e.type = "message_added" /\ e.at = n /\ f.type = "part_added" /\ f.at = n
       /\ m.type = "text_delta" /\ m.at = at /\ m.body = t
  BY <1>8, EventIs
<1>15. e.type \notin Quiet /\ f.type \notin Quiet /\ m.type \notin Quiet
  BY <1>14 DEF Quiet, CloseTypes, Lasts, Endings
<1>16. PICK es1 : es1 = Append(es, e) OBVIOUS
<1>17. PICK es2 : es2 = Append(es1, f) OBVIOUS
<1>18. es1 \in Seq(Messages) /\ (\A k \in 1..Len(es1) : es1[k].type \notin Quiet) /\ TextOf(es1) = TextOf(es)
  BY <1>1, <1>11, <1>14, <1>15, <1>16, TypesMore, SaidMore
<1>19. es2 \in Seq(Messages) /\ (\A k \in 1..Len(es2) : es2[k].type \notin Quiet) /\ TextOf(es2) = TextOf(es)
  BY <1>11, <1>14, <1>15, <1>17, <1>18, TypesMore, SaidMore
<1>20. PICK base : base = IF p.textAt = <<>> THEN es2 ELSE es OBVIOUS
<1>21. base \in Seq(Messages) /\ (\A k \in 1..Len(base) : base[k].type \notin Quiet) /\ TextOf(base) = Words(h)
  BY <1>1, <1>19, <1>20
<1>22. PICK fs : fs = Append(base, m) OBVIOUS
<1>23. es \o r.queue = fs
  <2>1. CASE p.textAt = <<>>
    <3>1. es \o (<<e, f>> \o <<m>>) = Append(Append(Append(es, e), f), m)
      BY <1>1, <1>11, ThreeMore
    <3> QED BY <1>12, <1>16, <1>17, <1>20, <1>22, <2>1, <3>1
  <2>2. CASE p.textAt # <<>>
    <3>1. es \o <<m>> = Append(es, m) BY <1>1, <1>11, ConcatOne
    <3> QED BY <1>13, <1>20, <1>22, <2>2, <3>1
  <2> QED BY <2>1, <2>2
<1>24. fs \in Seq(Messages) /\ \A k \in 1..Len(fs) : fs[k].type \notin Quiet
  BY <1>11, <1>15, <1>21, <1>22, TypesMore
<1>25. TextOf(fs) = Words(g)
  <2>1. TextOf(fs) = TextOf(base) \o m.body BY <1>11, <1>14, <1>21, <1>22, SaidMore
  <2> QED BY <1>5, <1>14, <1>21, <2>1
<1>26. Structured => c = Words(g) /\ Parts(g) = <<>> BY <1>1, <1>3, <1>5
<1>27. ASSUME HeadersFirst(Parts(g)) PROVE InOrder(fs, r)
  <2>1. Quiet \cap Closed = Closed BY DEF Quiet, CloseTypes, Closed
  <2>2. \A k \in 1..Len(es) : es[k].type \notin Closed BY <1>1, <2>1
  <2>3. \A k \in 1..Len(fs) : fs[k].type \notin Closed BY <1>24, <2>1
  <2>4. InOrder(es, p) BY <1>1, <1>5, <1>27 DEF Follows
  <2>5. Listed(es, OpenAts(p), n) /\ Apart(p) BY <1>6, <2>2, <2>4, InOrderIs
  <2>6. OpenAts(p) \subseteq Nat BY <1>1, OpenAtsAre
  <2>7. m.type \notin Added \cup Closed /\ f.type \notin Added \cup Closed /\ e.type \in Added
    BY <1>14 DEF Added, Closed
  <2>8. CASE p.textAt = <<>>
    <3>1. OpenAts(r) = OpenAts(p) \cup {n}
      <4>1. {k \in Nat : r.textAt = <<k>>} = {n}
        <5>1. \A k \in Nat : <<n>> = <<k>> => k = n
          <6> TAKE k \in Nat
          <6>1. <<n>>[1] = n /\ <<k>>[1] = k OBVIOUS
          <6> QED BY <6>1
        <5> QED BY <1>12, <2>8, <5>1
      <4>2. {k \in Nat : p.textAt = <<k>>} = {}
        <5>1. \A k \in Nat : <<>> # <<k>> OBVIOUS
        <5> QED BY <2>8, <5>1
      <4> QED BY <1>10, <4>1, <4>2 DEF OpenAts
    <3>2. Listed(es1, OpenAts(p) \cup {n}, n + 1)
      BY <1>1, <1>11, <1>14, <1>16, <2>5, <2>6, <2>7, ListedNew
    <3>3. OpenAts(r) \subseteq Nat /\ n \in OpenAts(r) /\ n + 1 \in Nat BY <2>6, <3>1
    <3>4. Listed(es1, OpenAts(r), n + 1) BY <3>1, <3>2
    <3>5. Listed(es2, OpenAts(r), n + 1)
      BY <1>11, <1>14, <1>17, <1>18, <2>7, <3>3, <3>4, ListedOn
    <3>6. at = n /\ base = es2 BY <1>7, <1>20, <2>8
    <3>7. Listed(fs, OpenAts(r), n + 1)
      BY <1>11, <1>14, <1>19, <1>22, <2>7, <3>3, <3>5, <3>6, ListedOn
    <3>8. Apart(r)
      <4>1. \A i \in Indexes : p.calls[i].seen => p.calls[i].added /\ p.calls[i].at < n /\ p.calls[i].at \in Nat
        BY <1>1, <2>5, <2>6, OpenAtsAre DEF Apart, Listed
      <4>2. \A i \in Indexes : p.calls[i].seen => <<n>> # <<p.calls[i].at>>
        <5> SUFFICES ASSUME NEW i \in Indexes, p.calls[i].seen, <<n>> = <<p.calls[i].at>> PROVE FALSE
          OBVIOUS
        <5>1. n = p.calls[i].at
          <6>1. <<n>>[1] = n /\ <<p.calls[i].at>>[1] = p.calls[i].at OBVIOUS
          <6> QED BY <6>1
        <5> QED BY <4>1, <5>1
      <4>3. \A i, j \in Indexes :
              p.calls[i].seen /\ p.calls[j].seen /\ p.calls[i].at = p.calls[j].at => i = j
        BY <2>5 DEF Apart
      <4> QED BY <1>10, <1>12, <2>8, <4>1, <4>2, <4>3 DEF Apart
    <3> QED BY <1>12, <2>3, <2>8, <3>7, <3>8, InOrderIs
  <2>9. CASE p.textAt # <<>>
    <3>1. OpenAts(r) = OpenAts(p) BY <1>10, <1>13, <2>9 DEF OpenAts
    <3>2. base = es /\ at \in OpenAts(p) BY <1>1, <1>7, <1>20, <2>9, OpenAtsAre
    <3>3. Listed(fs, OpenAts(p), n)
      BY <1>1, <1>11, <1>14, <1>22, <2>5, <2>6, <2>7, <3>2, ListedOn
    <3>4. Apart(r) BY <1>10, <1>13, <2>5, <2>9 DEF Apart
    <3> QED BY <1>13, <2>3, <2>9, <3>1, <3>3, <3>4, InOrderIs
  <2> QED BY <2>8, <2>9
<1>28. Follows(g, fs, r)
  <2>1. r.text = Words(g) BY <1>1, <1>5, <1>10 DEF Follows
  <2>2. r.textAt # <<>>
    <3>1. <<n>> # <<>> OBVIOUS
    <3> QED BY <1>12, <1>13, <3>1
  <2> QED BY <1>1, <1>5, <1>10, <1>27, <2>1, <2>2 DEF Follows
<1>29. Speaks(g, fs, r, c)
  BY <1>1, <1>5, <1>10, <1>24, <1>25, <1>26, <1>28, SpeaksIs DEF Quiet
<1> QED BY <1>4, <1>23, <1>29

ItemOf(p, t) == IF p.calls[t.index].seen THEN p.calls[t.index].at ELSE p.next
HeaderKnown(p, t) == IF t.header = NoHeader THEN p.calls[t.index].header ELSE t.header
Announces(p, t) == ~p.calls[t.index].added /\ HeaderKnown(p, t) # NoHeader
CallAfter(p, t) ==
  [seen |-> TRUE, header |-> HeaderKnown(p, t), args |-> p.calls[t.index].args \o t.args,
   at |-> ItemOf(p, t), added |-> p.calls[t.index].added \/ Announces(p, t)]
Announcement(p, t) ==
  IF Announces(p, t) THEN <<Event("call_added", ItemOf(p, t), HeaderKnown(p, t))>> ELSE <<>>
Arguments(p, t) ==
  IF t.args # <<>> THEN <<Event("args_delta", ItemOf(p, t), t.args)>> ELSE <<>>

Call == [seen : BOOLEAN, header : Headers \cup {NoHeader}, args : Seq(Chars), at : Nat, added : BOOLEAN]

LEMMA CallsAre ==
  ASSUME NEW p \in Encoders, NEW i \in Indexes
  PROVE  /\ p.calls[i] \in Call
         /\ p.calls[i].seen \in BOOLEAN /\ p.calls[i].added \in BOOLEAN
         /\ p.calls[i].header \in Headers \cup {NoHeader} /\ p.calls[i].args \in Seq(Chars)
         /\ p.calls[i].at \in Nat
  BY DEF Encoders, Call

LEMMA DeltasAre ==
  ASSUME NEW t \in Deltas
  PROVE  /\ t.index \in Indexes /\ t.index \in Nat /\ t.header \in Headers \cup {NoHeader}
         /\ t.args \in Seq(Chars)
  BY StreamAssumption DEF Deltas

LEMMA ToolTypes ==
  ASSUME NEW p \in Encoders, NEW t \in Deltas
  PROVE  /\ ItemOf(p, t) \in Nat /\ HeaderKnown(p, t) \in Headers \cup {NoHeader}
         /\ CallAfter(p, t) \in Call
         /\ Event("call_added", ItemOf(p, t), HeaderKnown(p, t)) \in Messages
         /\ Event("args_delta", ItemOf(p, t), t.args) \in Messages
         /\ Announcement(p, t) \in Seq(Messages) /\ Arguments(p, t) \in Seq(Messages)
<1>1. PICK i \in Indexes : i = t.index BY DeltasAre
<1>2. t.header \in Headers \cup {NoHeader} /\ t.args \in Seq(Chars) BY DeltasAre
<1>3. /\ p.calls[i].header \in Headers \cup {NoHeader} /\ p.calls[i].args \in Seq(Chars)
      /\ p.calls[i].at \in Nat /\ p.calls[i].added \in BOOLEAN
  BY CallsAre
<1>4. p.next \in Nat BY OpenAtsAre
<1>5. ItemOf(p, t) \in Nat /\ HeaderKnown(p, t) \in Headers \cup {NoHeader}
  BY <1>1, <1>2, <1>3, <1>4 DEF ItemOf, HeaderKnown
<1>6. CallAfter(p, t) \in Call
  <2>1. p.calls[i].args \o t.args \in Seq(Chars) BY <1>2, <1>3, ConcatType
  <2>2. (p.calls[i].added \/ Announces(p, t)) \in BOOLEAN OBVIOUS
  <2> QED BY <1>1, <1>5, <2>1, <2>2 DEF CallAfter, Call
<1>7. HeaderKnown(p, t) \in Bodies /\ t.args \in Bodies BY <1>2, <1>5, BodiesAre
<1>8. PICK e : e = Event("call_added", ItemOf(p, t), HeaderKnown(p, t)) OBVIOUS
<1>9. PICK f : f = Event("args_delta", ItemOf(p, t), t.args) OBVIOUS
<1>10. e \in Messages /\ f \in Messages BY <1>5, <1>7, <1>8, <1>9, EventIs DEF Markers
<1>11. Announcement(p, t) \in Seq(Messages) BY <1>8, <1>10 DEF Announcement
<1>12. Arguments(p, t) \in Seq(Messages) BY <1>9, <1>10 DEF Arguments
<1> QED BY <1>5, <1>6, <1>8, <1>9, <1>10, <1>11, <1>12

\* The call of t as it is after t, in place.
Placed(p, t, n, call) == [p EXCEPT !.next = n, !.calls[t.index] = call]

LEMMA PlacedIs ==
  ASSUME NEW p \in Encoders, NEW t \in Deltas, NEW n \in Nat, NEW c \in Call,
         NEW r, r = Placed(p, t, n, c)
  PROVE  /\ r \in Encoders /\ r.terminal = p.terminal /\ r.text = p.text /\ r.textAt = p.textAt
         /\ r.queue = p.queue /\ r.next = n
         /\ \A j \in Indexes : r.calls[j] = IF j = t.index THEN c ELSE p.calls[j]
<1>1. t.index \in Indexes BY DeltasAre
<1>2. PICK calls : calls = [p.calls EXCEPT ![t.index] = c] OBVIOUS
<1>3. p.calls \in [Indexes -> Call] BY DEF Encoders, Call
<1>4. calls \in [Indexes -> Call] BY <1>1, <1>2, <1>3
<1>5. \A j \in Indexes : calls[j] = IF j = t.index THEN c ELSE p.calls[j] BY <1>1, <1>2, <1>3
<1>6. r = [p EXCEPT !.next = n, !.calls = calls] BY <1>2 DEF Placed
<1>7. /\ r.terminal = p.terminal /\ r.text = p.text /\ r.textAt = p.textAt
      /\ r.queue = p.queue /\ r.next = n /\ r.calls = calls
  BY <1>6 DEF Encoders
<1>8. r \in Encoders BY <1>4, <1>6 DEF Encoders, Call
<1> QED BY <1>5, <1>7, <1>8

LEMMA ToolPushes ==
  ASSUME NEW p \in Encoders, p.queue = <<>>, NEW t \in Deltas, NEW r, r = ResponsesTool(p, t)
  PROVE  /\ r \in Encoders /\ r.terminal = p.terminal /\ r.text = p.text /\ r.textAt = p.textAt
         /\ r.queue = Announcement(p, t) \o Arguments(p, t)
         /\ r.next = IF p.calls[t.index].seen THEN p.next ELSE p.next + 1
         /\ \A j \in Indexes : r.calls[j] = IF j = t.index THEN CallAfter(p, t) ELSE p.calls[j]
<1>1. PICK ms : ms = Announcement(p, t) \o Arguments(p, t) OBVIOUS
<1>2. ms \in Seq(Messages)
  <2>1. Announcement(p, t) \in Seq(Messages) /\ Arguments(p, t) \in Seq(Messages) BY ToolTypes
  <2> QED BY <1>1, <2>1, ConcatType
<1>3. PICK said : said = Pushed(p, ms) OBVIOUS
<1>4. /\ said \in Encoders /\ said.queue = p.queue \o ms /\ said.terminal = p.terminal
      /\ said.text = p.text /\ said.textAt = p.textAt /\ said.calls = p.calls /\ said.next = p.next
  BY <1>2, <1>3, EncodersPush
<1>5. p.queue \o ms = ms BY <1>2, ConcatNothing
<1>6. PICK n \in Nat : n = IF p.calls[t.index].seen THEN p.next ELSE p.next + 1
  <2>1. p.next \in Nat BY OpenAtsAre
  <2> QED BY <2>1
<1>7. PICK c \in Call : c = CallAfter(p, t) BY ToolTypes
<1>8. r = Placed(said, t, n, c)
  <2>1. ResponsesTool(p, t) =
          [Pushed(p, Announcement(p, t) \o Arguments(p, t))
             EXCEPT !.next = IF p.calls[t.index].seen THEN @ ELSE @ + 1,
                    !.calls[t.index] = CallAfter(p, t)]
    BY DEF ResponsesTool, Announcement, Arguments, CallAfter, ItemOf, HeaderKnown, Announces
  <2>2. ResponsesTool(p, t) =
          [said EXCEPT !.next = IF p.calls[t.index].seen THEN @ ELSE @ + 1, !.calls[t.index] = c]
    BY <1>1, <1>3, <1>7, <2>1
  <2>3. said.next = p.next BY <1>4
  <2> QED BY <1>6, <2>2, <2>3 DEF Placed
<1>9. /\ r \in Encoders /\ r.terminal = said.terminal /\ r.text = said.text
      /\ r.textAt = said.textAt /\ r.queue = said.queue /\ r.next = n
      /\ \A j \in Indexes : r.calls[j] = IF j = t.index THEN c ELSE said.calls[j]
  <2>1. said \in Encoders BY <1>4
  <2>2. r \in Encoders /\ r.terminal = said.terminal /\ r.text = said.text BY <1>8, <2>1, PlacedIs
  <2>3. r.textAt = said.textAt /\ r.queue = said.queue /\ r.next = n BY <1>8, <2>1, PlacedIs
  <2>4. \A j \in Indexes : r.calls[j] = IF j = t.index THEN c ELSE said.calls[j]
    BY <1>8, <2>1, PlacedIs
  <2> QED BY <2>2, <2>3, <2>4
<1> QED BY <1>1, <1>4, <1>5, <1>6, <1>7, <1>9

LEMMA AtMostTwo ==
  ASSUME NEW E, NEW s \in Seq(E), NEW e \in E, NEW f \in E
  PROVE  /\ s \o (<<>> \o <<>>) = s /\ s \o (<<e>> \o <<>>) = Append(s, e)
         /\ s \o (<<>> \o <<f>>) = Append(s, f)
         /\ s \o (<<e>> \o <<f>>) = Append(Append(s, e), f)
  OBVIOUS

\* The calls of the encoder stay what the deltas add up to.
CallsAfter(r, p, t) ==
  \A j \in Indexes : r.calls[j] = IF j = t.index THEN CallAfter(p, t) ELSE p.calls[j]

CallsFollow(r, h) ==
  \A j \in Indexes :
    /\ r.calls[j].seen <=> j \in Called(Parts(h))
    /\ r.calls[j].header = HeaderOf(j, Parts(h))
    /\ r.calls[j].args = ArgsOf(j, Parts(h))
    /\ r.calls[j].added => r.calls[j].seen

LEMMA ToolFollows ==
  ASSUME NEW h \in Seq(Outputs), NEW x \in Reports, x.type = "tool",
         NEW p \in Encoders, NEW r, NEW es, Follows(h, es, p), CallsAfter(r, p, x.tool)
  PROVE  Parts(Append(h, x)) = Append(Parts(h), x.tool) /\ CallsFollow(r, Append(h, x))
<1> DEFINE t == x.tool
           g == Append(h, x)
<1>4. t \in Deltas BY ReportsAre
<1>0. \A j \in Indexes : r.calls[j] = IF j = t.index THEN CallAfter(p, t) ELSE p.calls[j]
  BY DEF CallsAfter
<1>1. PICK ts \in Seq(Deltas) : ts = Parts(h) BY PassedMore
<1>2. Parts(g) = Append(ts, t) BY <1>1, <1>4, PassedMore
<1> HIDE DEF t, g
<1>3. ASSUME NEW j \in Indexes
      PROVE  /\ r.calls[j].seen <=> j \in Called(Parts(g))
             /\ r.calls[j].header = HeaderOf(j, Parts(g))
             /\ r.calls[j].args = ArgsOf(j, Parts(g))
             /\ r.calls[j].added => r.calls[j].seen
  <2>1. /\ p.calls[j].seen <=> j \in Called(ts)
        /\ p.calls[j].header = HeaderOf(j, ts) /\ p.calls[j].args = ArgsOf(j, ts)
        /\ p.calls[j].added => p.calls[j].seen
    BY <1>1 DEF Follows
  <2>2. Called(Parts(g)) = Called(ts) \cup {t.index}
    <3>1. Called(Append(ts, t)) = Called(ts) \cup {t.index} BY <1>4, CalledIs
    <3> QED BY <1>2, <3>1
  <2>3. HeaderOf(j, Parts(g)) = IF t.index = j /\ t.header # NoHeader THEN t.header ELSE HeaderOf(j, ts)
    <3>1. HeaderOf(j, Append(ts, t)) =
            IF t.index = j /\ t.header # NoHeader THEN t.header ELSE HeaderOf(j, ts)
      BY <1>4, HeaderOfIs
    <3> QED BY <1>2, <3>1
  <2>4. ArgsOf(j, Parts(g)) = IF t.index = j THEN ArgsOf(j, ts) \o t.args ELSE ArgsOf(j, ts)
    <3>1. ArgsOf(j, Append(ts, t)) = IF t.index = j THEN ArgsOf(j, ts) \o t.args ELSE ArgsOf(j, ts)
      BY <1>4, ArgsOfIs
    <3> QED BY <1>2, <3>1
  <2>5. CASE j = t.index
    <3>1. r.calls[j] = CallAfter(p, t) BY <1>0, <2>5
    <3>2. /\ CallAfter(p, t).seen = TRUE /\ CallAfter(p, t).header = HeaderKnown(p, t)
          /\ CallAfter(p, t).args = p.calls[t.index].args \o t.args
      BY DEF CallAfter
    <3>3. HeaderKnown(p, t) = HeaderOf(j, Parts(g)) BY <2>1, <2>3, <2>5 DEF HeaderKnown
    <3> QED BY <2>1, <2>2, <2>4, <2>5, <3>1, <3>2, <3>3
  <2>6. CASE j # t.index
    BY <1>0, <2>1, <2>2, <2>3, <2>4, <2>6
  <2> QED BY <2>5, <2>6
<1>5. CallsFollow(r, g) BY <1>3 DEF CallsFollow
<1> QED BY <1>1, <1>2, <1>5 DEF t, g

\* Delta t makes of the messages es and the encoder p the messages fs and r: es1
\* is es once e has announced the call, and f carries arguments.
Continues(es, p, t, r, e, f, es1, fs) ==
  /\ p \in Encoders /\ t \in Deltas /\ es \in Seq(Messages) /\ r \in Encoders
  /\ InOrder(es, p)
  /\ \A k \in 1..Len(es) : es[k].type \notin Closed
  /\ p.calls[t.index].seen \/ t.header # NoHeader
  /\ p.calls[t.index].added => p.calls[t.index].seen
  /\ r.textAt = p.textAt
  /\ r.next = IF p.calls[t.index].seen THEN p.next ELSE p.next + 1
  /\ \A j \in Indexes : r.calls[j] = IF j = t.index THEN CallAfter(p, t) ELSE p.calls[j]
  /\ e \in Messages /\ e.type = "call_added" /\ e.at = ItemOf(p, t)
  /\ f \in Messages /\ f.type = "args_delta" /\ f.at = ItemOf(p, t)
  /\ es1 = IF Announces(p, t) THEN Append(es, e) ELSE es
  /\ fs = IF t.args # <<>> THEN Append(es1, f) ELSE es1
  /\ \A k \in 1..Len(fs) : fs[k].type \notin Closed

LEMMA ToolInOrder ==
  ASSUME NEW es, NEW p, NEW t, NEW r, NEW e, NEW f, NEW es1, NEW fs,
         Continues(es, p, t, r, e, f, es1, fs)
  PROVE  InOrder(fs, r)
<1> /\ p \in Encoders /\ t \in Deltas /\ es \in Seq(Messages) /\ r \in Encoders
    /\ InOrder(es, p)
    /\ \A k \in 1..Len(es) : es[k].type \notin Closed
    /\ p.calls[t.index].seen \/ t.header # NoHeader
    /\ p.calls[t.index].added => p.calls[t.index].seen
    /\ r.textAt = p.textAt
    /\ r.next = IF p.calls[t.index].seen THEN p.next ELSE p.next + 1
    /\ \A j \in Indexes : r.calls[j] = IF j = t.index THEN CallAfter(p, t) ELSE p.calls[j]
    /\ e \in Messages /\ e.type = "call_added" /\ e.at = ItemOf(p, t)
    /\ f \in Messages /\ f.type = "args_delta" /\ f.at = ItemOf(p, t)
    /\ es1 = IF Announces(p, t) THEN Append(es, e) ELSE es
    /\ fs = IF t.args # <<>> THEN Append(es1, f) ELSE es1
    /\ \A k \in 1..Len(fs) : fs[k].type \notin Closed
  BY DEF Continues
<1>1. PICK i \in Indexes : i = t.index BY DeltasAre
<1>2. PICK n \in Nat : n = p.next BY OpenAtsAre
<1>3. PICK A : A = OpenAts(p) OBVIOUS
<1>4. A \subseteq Nat BY <1>3, OpenAtsAre
<1>5. Listed(es, A, n) /\ Apart(p) BY <1>2, <1>3, InOrderIs
<1>6. PICK at \in Nat : at = ItemOf(p, t) BY ToolTypes
<1>7. CallAfter(p, t).seen = TRUE /\ CallAfter(p, t).at = at
      /\ CallAfter(p, t).added = (p.calls[i].added \/ Announces(p, t))
  BY <1>1, <1>6 DEF CallAfter
<1>8. \A j \in Indexes : p.calls[j].at \in Nat /\ (p.calls[j].seen => p.calls[j].at \in A)
  BY <1>3, CallsAre, OpenAtsAre
<1>9. \A j, k \in Indexes :
        p.calls[j].seen /\ p.calls[k].seen /\ p.calls[j].at = p.calls[k].at => j = k
  BY <1>5 DEF Apart
<1>10. \A j \in Indexes : p.calls[j].seen => p.calls[j].added /\ p.textAt # <<p.calls[j].at>>
  BY <1>5 DEF Apart
<1>11. e.type \in Added /\ f.type \notin Added \cup Closed BY DEF Added, Closed
<1>12. r.calls[i] = CallAfter(p, t) /\ \A j \in Indexes : j # i => r.calls[j] = p.calls[j]
  BY <1>1
<1>13. \A a \in A : a < n BY <1>5 DEF Listed
<1>14. CASE p.calls[i].seen
  <2>1. at = p.calls[i].at /\ at \in A BY <1>1, <1>6, <1>8, <1>14 DEF ItemOf
  <2>2. ~Announces(p, t) BY <1>1, <1>10, <1>14 DEF Announces
  <2>3. r.next = n BY <1>1, <1>2, <1>14
  <2>4. \A j \in Indexes : r.calls[j].seen = p.calls[j].seen /\ r.calls[j].at = p.calls[j].at
                           /\ (r.calls[j].seen => r.calls[j].added)
    <3> TAKE j \in Indexes
    <3>1. CASE j = i
      <4>1. p.calls[i].seen = TRUE BY <1>14, CallsAre
      <4> QED BY <1>7, <1>10, <1>12, <2>1, <3>1, <4>1
    <3>2. CASE j # i
      BY <1>10, <1>12, <3>2
    <3> QED BY <3>1, <3>2
  <2>5. OpenAts(r) = A BY <1>3, <2>4 DEF OpenAts
  <2>6. Apart(r) BY <1>9, <1>10, <2>4 DEF Apart
  <2>7. es1 = es BY <2>2
  <2>8. Listed(fs, A, n)
    <3>1. CASE t.args = <<>> BY <1>5, <2>7, <3>1
    <3>2. CASE t.args # <<>>
      <4>1. fs = Append(es, f) BY <2>7, <3>2
      <4>2. f.at \in A BY <1>6, <2>1
      <4> QED BY <1>4, <1>5, <1>11, <4>1, <4>2, ListedOn, ZenonT(60)
    <3> QED BY <3>1, <3>2
  <2> QED BY <2>3, <2>5, <2>6, <2>8, InOrderIs
<1>15. CASE ~p.calls[i].seen
  <2>1. at = n BY <1>1, <1>2, <1>6, <1>15 DEF ItemOf
  <2>2. Announces(p, t) BY <1>1, <1>15 DEF Announces, HeaderKnown
  <2>3. r.next = n + 1 BY <1>1, <1>2, <1>15
  <2>4. OpenAts(r) = A \cup {n}
    <3>1. \A j \in Indexes : r.calls[j].seen <=> p.calls[j].seen \/ j = i BY <1>7, <1>12
    <3>2. {r.calls[j].at : j \in {k \in Indexes : r.calls[k].seen}}
            = {p.calls[j].at : j \in {k \in Indexes : p.calls[k].seen}} \cup {n}
      BY <1>7, <1>12, <1>15, <2>1, <3>1
    <3> QED BY <1>3, <3>2 DEF OpenAts
  <2>5. \A j \in Indexes : p.calls[j].seen => p.calls[j].at # n
    BY <1>2, <1>8, <1>13
  <2>6. p.textAt # <<n>>
    <3>1. ~(n \in A) BY <1>2, <1>13
    <3> QED BY <1>3, <3>1, OpenAtsAre
  <2>7. Apart(r)
    <3>1. ASSUME NEW j \in Indexes, NEW k \in Indexes, r.calls[j].seen, r.calls[k].seen,
                 r.calls[j].at = r.calls[k].at
          PROVE  j = k
      <4>1. CASE j = i /\ k # i
        BY <1>7, <1>12, <2>1, <2>5, <3>1, <4>1
      <4>2. CASE j # i /\ k = i
        BY <1>7, <1>12, <2>1, <2>5, <3>1, <4>2
      <4>3. CASE j # i /\ k # i
        BY <1>9, <1>12, <3>1, <4>3
      <4> QED BY <4>1, <4>2, <4>3
    <3>2. ASSUME NEW j \in Indexes, r.calls[j].seen
          PROVE  r.calls[j].added /\ r.textAt # <<r.calls[j].at>>
      <4>1. CASE j = i
        BY <1>7, <1>12, <2>1, <2>2, <2>6, <4>1
      <4>2. CASE j # i
        BY <1>10, <1>12, <3>2, <4>2
      <4> QED BY <4>1, <4>2
    <3> QED BY <3>1, <3>2 DEF Apart
  <2>8. es1 = Append(es, e) BY <2>2
  <2>9. es1 \in Seq(Messages) /\ Listed(es1, A \cup {n}, n + 1)
    <3>1. e.at = n /\ e.type \in Added BY <1>6, <1>11, <2>1
    <3>2. Listed(es, A, n) BY <1>5
    <3>3. Append(es, e) \in Seq(Messages) BY <1>4, <3>1, <3>2, ListedNew
    <3>4. Listed(Append(es, e), A \cup {n}, n + 1) BY <1>4, <3>1, <3>2, ListedNew
    <3> QED BY <2>8, <3>3, <3>4
  <2>10. Listed(fs, A \cup {n}, n + 1)
    <3>1. CASE t.args = <<>> BY <2>9, <3>1
    <3>2. CASE t.args # <<>>
      <4>1. fs = Append(es1, f) BY <3>2
      <4>2. f.at \in A \cup {n} BY <1>6, <2>1
      <4>3. PICK B : B = A \cup {n} OBVIOUS
      <4>4. PICK k \in Nat : k = n + 1 OBVIOUS
      <4>5. B \subseteq Nat /\ f.at \in B BY <1>4, <4>2, <4>3
      <4>6. es1 \in Seq(Messages) BY <2>9
      <4>7. Listed(es1, B, k) BY <2>9, <4>3, <4>4
      <4>8. f.type \notin Added \cup Closed BY <1>11
      <4>9. Listed(Append(es1, f), B, k) BY <4>5, <4>6, <4>7, <4>8, ListedOn
      <4> QED BY <4>1, <4>3, <4>4, <4>9
    <3> QED BY <3>1, <3>2
  <2> QED BY <2>3, <2>4, <2>7, <2>10, InOrderIs
<1> QED BY <1>14, <1>15

LEMMA ToolSpeaks ==
  ASSUME request.api = "responses", ~Structured, NEW h, NEW es, NEW p, NEW ch, Speaks(h, es, p, ch),
         p.queue = <<>>, NEW x \in Reports, x.type = "tool",
         NEW r, r = ResponsesTool(p, x.tool), NEW c
  PROVE  Speaks(Append(h, x), es \o r.queue, r, c)
<1>1. /\ p \in Encoders /\ ~p.terminal /\ h \in Seq(Outputs) /\ es \in Seq(Messages)
      /\ \A k \in 1..Len(es) : es[k].type \notin Quiet
      /\ TextOf(es) = Words(h)
      /\ Follows(h, es, p)
  BY SpeaksIs DEF Quiet
<1>2. x \in Outputs BY ReportsAre
<1>3. PICK t \in Deltas : t = x.tool BY ReportsAre
<1>4. PICK g : g = Append(h, x) OBVIOUS
<1>5. g \in Seq(Outputs) /\ Words(g) = Words(h)
  BY <1>1, <1>2, <1>4, PassedMore
<1>6. r = ResponsesTool(p, t) /\ p \in Encoders BY <1>1, <1>3
<1>7. r \in Encoders /\ r.terminal = p.terminal /\ r.text = p.text /\ r.textAt = p.textAt
  BY <1>6, ToolPushes
<1>8. /\ r.queue = Announcement(p, t) \o Arguments(p, t)
      /\ r.next = IF p.calls[t.index].seen THEN p.next ELSE p.next + 1
  BY <1>6, ToolPushes
<1>9. \A j \in Indexes : r.calls[j] = IF j = t.index THEN CallAfter(p, t) ELSE p.calls[j]
  BY <1>6, ToolPushes
<1>10. PICK e : e = Event("call_added", ItemOf(p, t), HeaderKnown(p, t)) OBVIOUS
<1>11. PICK f : f = Event("args_delta", ItemOf(p, t), t.args) OBVIOUS
<1>12. e \in Messages /\ f \in Messages BY <1>1, <1>10, <1>11, ToolTypes
<1>13. e.type = "call_added" /\ e.at = ItemOf(p, t) /\ f.type = "args_delta" /\ f.at = ItemOf(p, t)
  BY <1>10, <1>11, EventIs
<1>14. e.type \notin Quiet /\ f.type \notin Quiet
  BY <1>13 DEF Quiet, CloseTypes, Lasts, Endings
<1>15. PICK es1 : es1 = IF Announces(p, t) THEN Append(es, e) ELSE es OBVIOUS
<1>16. PICK fs : fs = IF t.args # <<>> THEN Append(es1, f) ELSE es1 OBVIOUS
<1>17. es \o r.queue = fs
  <2>1. Announcement(p, t) = (IF Announces(p, t) THEN <<e>> ELSE <<>>)
        /\ Arguments(p, t) = IF t.args # <<>> THEN <<f>> ELSE <<>>
    BY <1>10, <1>11 DEF Announcement, Arguments
  <2>2. /\ es \o (<<>> \o <<>>) = es /\ es \o (<<e>> \o <<>>) = Append(es, e)
        /\ es \o (<<>> \o <<f>>) = Append(es, f)
        /\ es \o (<<e>> \o <<f>>) = Append(Append(es, e), f)
    BY <1>1, <1>12, AtMostTwo
  <2> QED BY <1>8, <1>15, <1>16, <2>1, <2>2
<1>18. es1 \in Seq(Messages) /\ (\A k \in 1..Len(es1) : es1[k].type \notin Quiet) /\ TextOf(es1) = TextOf(es)
  BY <1>1, <1>12, <1>13, <1>14, <1>15, TypesMore, SaidMore
<1>19. fs \in Seq(Messages) /\ (\A k \in 1..Len(fs) : fs[k].type \notin Quiet) /\ TextOf(fs) = TextOf(es)
  BY <1>12, <1>13, <1>14, <1>16, <1>18, TypesMore, SaidMore
<1>25. CallsAfter(r, p, t) BY <1>9 DEF CallsAfter
<1>26. h \in Seq(Outputs) /\ p \in Encoders BY <1>1
<1>27. Follows(h, es, p) BY <1>1
<1>28. CallsAfter(r, p, x.tool) BY <1>3, <1>25
<1>29. Parts(Append(h, x)) = Append(Parts(h), x.tool) /\ CallsFollow(r, Append(h, x))
  BY <1>26, <1>27, <1>28, ToolFollows
<1>20. Parts(g) = Append(Parts(h), t)
  BY <1>3, <1>4, <1>29
<1>21. \A j \in Indexes :
         /\ r.calls[j].seen <=> j \in Called(Parts(g))
         /\ r.calls[j].header = HeaderOf(j, Parts(g))
         /\ r.calls[j].args = ArgsOf(j, Parts(g))
         /\ r.calls[j].added => r.calls[j].seen
  BY <1>4, <1>29 DEF CallsFollow
<1>22. ASSUME HeadersFirst(Parts(g)) PROVE InOrder(fs, r)
  <2>1. Closed \subseteq Quiet BY DEF Quiet, CloseTypes, Closed
  <2>2. \A k \in 1..Len(es) : es[k].type \notin Closed BY <1>1, <2>1
  <2>3. \A k \in 1..Len(fs) : fs[k].type \notin Closed BY <1>19, <2>1
  <2>4. PICK ts \in Seq(Deltas) : ts = Parts(h) BY <1>1, <1>2, PassedMore, OutputsAreReports
  <2>5. HeadersFirst(ts) /\ (t.header # NoHeader \/ t.index \in Called(ts))
    <3>1. HeadersFirst(Append(ts, t)) BY <1>20, <1>22, <2>4
    <3> QED BY <3>1, HeadersFirstIs
  <2>6. InOrder(es, p) BY <1>1, <2>4, <2>5 DEF Follows
  <2>7. t.index \in Indexes BY DeltasAre
  <2>8. /\ p.calls[t.index].seen <=> t.index \in Called(ts)
        /\ p.calls[t.index].added => p.calls[t.index].seen
    BY <1>1, <2>4, <2>7 DEF Follows
  <2>9. p.calls[t.index].seen \/ t.header # NoHeader BY <2>5, <2>8
  <2>10. p \in Encoders /\ es \in Seq(Messages) BY <1>1
  <2>11. Continues(es, p, t, r, e, f, es1, fs)
    BY <1>7, <1>8, <1>9, <1>12, <1>13, <1>15, <1>16, <2>2, <2>3, <2>6, <2>8, <2>9, <2>10 DEF Continues
  <2> QED BY <2>11, ToolInOrder
<1>23. Follows(g, fs, r)
  <2>1. r.text = Words(g) /\ (r.textAt = <<>> => Words(g) = <<>>) BY <1>1, <1>5, <1>7 DEF Follows
  <2> QED BY <1>21, <1>22, <2>1 DEF Follows
<1>24. Speaks(g, fs, r, c)
  BY <1>1, <1>5, <1>7, <1>19, <1>23, SpeaksIs DEF Quiet
<1> QED BY <1>4, <1>17, <1>24

-----------------------------------------------------------------------------
(* The calls of a stream by their index.                                   *)

Rank(S, i) == Cardinality({j \in S : j < i})

LEMMA RankIs ==
  ASSUME NEW S, S \subseteq Nat, IsFiniteSet(S)
  PROVE  /\ Cardinality(S) \in Nat
         /\ \A i \in S : Rank(S, i) \in Nat /\ Rank(S, i) < Cardinality(S)
         /\ \A i, j \in S : Rank(S, i) = Rank(S, j) => i = j
<1>1. Cardinality(S) \in Nat BY FS_CardinalityType
<1>2. ASSUME NEW i \in S PROVE Rank(S, i) \in Nat /\ Rank(S, i) < Cardinality(S)
  <2>1. PICK T : T = {j \in S : j < i} OBVIOUS
  <2>2. T \in SUBSET S /\ i \notin T BY <2>1
  <2>3. IsFiniteSet(T) /\ Cardinality(T) <= Cardinality(S) BY <2>2, FS_Subset
  <2>4. Cardinality(T) # Cardinality(S) BY <2>2, FS_Subset
  <2>5. Cardinality(T) \in Nat BY <2>3, FS_CardinalityType
  <2> QED BY <1>1, <2>1, <2>3, <2>4, <2>5 DEF Rank
<1>3. ASSUME NEW i \in S, NEW j \in S, i < j PROVE Rank(S, i) # Rank(S, j)
  <2>1. PICK T, U : T = {k \in S : k < i} /\ U = {k \in S : k < j} OBVIOUS
  <2>0. i \in Nat /\ j \in Nat /\ \A k \in S : k \in Nat /\ (k < i => k < j) /\ ~(i < i) BY <1>3
  <2>5. T \in SUBSET U BY <2>0, <2>1
  <2>2. U \in SUBSET S /\ T \in SUBSET U /\ i \in U /\ i \notin T BY <1>3, <2>0, <2>1, <2>5
  <2>3. IsFiniteSet(U) BY <2>2, FS_Subset
  <2>4. Cardinality(U) # Cardinality(T) BY <2>2, <2>3, FS_Subset
  <2> QED BY <2>1, <2>4 DEF Rank
<1>4. ASSUME NEW i \in S, NEW j \in S, Rank(S, i) = Rank(S, j) PROVE i = j
  <2>1. i \in Nat /\ j \in Nat OBVIOUS
  <2>2. i < j \/ j < i \/ i = j BY <2>1
  <2> QED BY <1>3, <1>4, <2>2
<1> QED BY <1>1, <1>2, <1>4

LEMMA NthIs ==
  ASSUME NEW S, S \subseteq Nat, IsFiniteSet(S)
  PROVE  /\ \A n \in 1..Cardinality(S) : Nth(S, n) \in S /\ Rank(S, Nth(S, n)) = n - 1
         /\ \A i \in S : Rank(S, i) + 1 \in 1..Cardinality(S) /\ Nth(S, Rank(S, i) + 1) = i
<1>1. PICK c \in Nat : c = Cardinality(S) BY RankIs
<1>2. \A i \in S : Rank(S, i) \in Nat /\ Rank(S, i) < c BY <1>1, RankIs
<1>3. \A i, j \in S : Rank(S, i) = Rank(S, j) => i = j BY RankIs
<1>4. ASSUME NEW n \in 1..c PROVE \E i \in S : Rank(S, i) = n - 1
  <2>1. PICK H : H = {i \in S : ~(Rank(S, i) < n - 1)} OBVIOUS
  <2>2. ASSUME NEW T, T \subseteq S, \A i \in T : Rank(S, i) < n - 1
        PROVE  Cardinality(T) <= n - 1
    <3>1. PICK f : f = [i \in T |-> Rank(S, i)] OBVIOUS
    <3>2. f \in [T -> 0..(n - 2)] BY <1>2, <2>2, <3>1
    <3>3. \A i, j \in T : f[i] = f[j] => i = j BY <1>3, <2>2, <3>1
    <3>4. f \in Injection(T, 0..(n - 2)) BY <3>2, <3>3 DEF Injection, IsInjective
    <3>5. IsFiniteSet(0..(n - 2)) /\ Cardinality(0..(n - 2)) = n - 1
      <4>1. 0 \in Int /\ n - 2 \in Int /\ (n - 2) - 0 + 1 = n - 1 /\ (0 > n - 2 <=> n = 1) OBVIOUS
      <4>2. IsFiniteSet(0..(n - 2)) BY <4>1, FS_Interval
      <4>3. Cardinality(0..(n - 2)) = IF 0 > n - 2 THEN 0 ELSE (n - 2) - 0 + 1 BY <4>1, FS_Interval
      <4>4. n - 1 = IF 0 > n - 2 THEN 0 ELSE (n - 2) - 0 + 1 BY <4>1
      <4> QED BY <4>2, <4>3, <4>4
    <3>6. Cardinality(T) <= Cardinality(0..(n - 2)) BY <3>4, <3>5, FS_Injection
    <3> QED BY <3>5, <3>6
  <2>3. H # {}
    <3> SUFFICES ASSUME H = {} PROVE FALSE OBVIOUS
    <3>1. Cardinality(S) <= n - 1 BY <2>1, <2>2
    <3> QED BY <1>1, <3>1
  <2>4. H \subseteq Nat BY <2>1
  <2>5. PICK i \in H : \A j \in H : i <= j BY <2>3, <2>4, LeastNatural
  <2>6. i \in S /\ ~(Rank(S, i) < n - 1) BY <2>1
  <2>7. PICK T : T = {j \in S : j < i} OBVIOUS
  <2>8. \A j \in T : j \in S /\ j \in Nat /\ i \in Nat /\ j < i BY <2>4, <2>7
  <2>9. \A j \in T : j \notin H BY <2>5, <2>8
  <2>10. T \subseteq S /\ \A j \in T : Rank(S, j) < n - 1 BY <2>1, <2>8, <2>9
  <2>11. Rank(S, i) <= n - 1 BY <2>2, <2>7, <2>10 DEF Rank
  <2>12. Rank(S, i) \in Nat BY <1>2, <2>6
  <2> QED BY <2>6, <2>11, <2>12
<1>5. ASSUME NEW n \in 1..c PROVE Nth(S, n) \in S /\ Rank(S, Nth(S, n)) = n - 1
  BY <1>4 DEF Nth, Rank
<1>6. ASSUME NEW i \in S PROVE Rank(S, i) + 1 \in 1..c /\ Nth(S, Rank(S, i) + 1) = i
  <2>1. PICK n : n = Rank(S, i) + 1 OBVIOUS
  <2>2. n \in 1..c /\ n - 1 = Rank(S, i) BY <1>2, <2>1
  <2>3. Nth(S, n) \in S /\ Rank(S, Nth(S, n)) = Rank(S, i) BY <1>5, <2>2
  <2> QED BY <1>3, <2>1, <2>2, <2>3
<1> QED BY <1>1, <1>5, <1>6

Seen(p) == {i \in Indexes : p.calls[i].seen}
CallOf(p, i) == [index |-> i, header |-> p.calls[i].header, args |-> p.calls[i].args]
MessageEnds(p) ==
  IF p.textAt = <<>> THEN <<>>
  ELSE <<Event("text_done", p.textAt[1], p.text), Event("part_done", p.textAt[1], p.text),
         Event("message_done", p.textAt[1], p.text)>>
ArgsEnd(p, i) == Event("args_done", p.calls[i].at, p.calls[i].args)
CallEnd(p, i) == Event("call_done", p.calls[i].at, CallOf(p, i))
CallEnds(p) ==
  [k \in 1..(2 * Cardinality(Seen(p))) |->
     IF k % 2 = 1 THEN ArgsEnd(p, Nth(Seen(p), (k + 1) \div 2))
     ELSE CallEnd(p, Nth(Seen(p), (k + 1) \div 2))]
Finale(r) == <<Event(IF r = "length" THEN "incomplete" ELSE "completed", 0, r)>>

LEMMA CompletePushes ==
  ASSUME NEW p, NEW r
  PROVE  ResponsesComplete(p, r) = Pushed(p, MessageEnds(p) \o CallEnds(p) \o Finale(r))
<1>1. PICK c : c = CallEnds(p) OBVIOUS
<1>2. c = [k \in 1..(2 * Cardinality(Seen(p))) |->
             LET i == Nth(Seen(p), (k + 1) \div 2)
             IN  IF k % 2 = 1 THEN Event("args_done", p.calls[i].at, p.calls[i].args)
                 ELSE Event("call_done", p.calls[i].at,
                            [index |-> i, header |-> p.calls[i].header, args |-> p.calls[i].args])]
  BY <1>1 DEF CallEnds, ArgsEnd, CallEnd, CallOf
<1>3. ResponsesComplete(p, r) = Pushed(p, MessageEnds(p) \o c \o Finale(r))
  BY <1>2 DEF ResponsesComplete, MessageEnds, Finale, Seen
<1> QED BY <1>1, <1>3

\* The k-th end of a call is of one that was seen, a later end of another call.
LEMMA HalfOf ==
  ASSUME NEW k \in Nat, NEW c \in Nat, k \in 1..(2 * c)
  PROVE  /\ (k + 1) \div 2 \in 1..c
         /\ k % 2 \in {0, 1}
         /\ k = 2 * ((k + 1) \div 2) - (k % 2)
  OBVIOUS

Turn(p, k) == Nth(Seen(p), (k + 1) \div 2)

LEMMA SeenAre ==
  ASSUME NEW p
  PROVE  /\ Seen(p) \subseteq Nat /\ Seen(p) \subseteq Indexes /\ IsFiniteSet(Seen(p))
         /\ Cardinality(Seen(p)) \in Nat
<1>1. Seen(p) \in SUBSET Indexes BY DEF Seen
<1>2. IsFiniteSet(Indexes) /\ Indexes \subseteq Nat BY StreamAssumption
<1>3. IsFiniteSet(Seen(p)) BY <1>1, <1>2, FS_Subset
<1>4. Cardinality(Seen(p)) \in Nat BY <1>3, FS_CardinalityType
<1> QED BY <1>1, <1>2, <1>3, <1>4

LEMMA TurnsAre ==
  ASSUME NEW p
  PROVE  /\ \A k \in 1..(2 * Cardinality(Seen(p))) : Turn(p, k) \in Seen(p)
         /\ \A i \in Seen(p) : \E k \in 1..(2 * Cardinality(Seen(p))) : k % 2 = 0 /\ Turn(p, k) = i
         /\ \A k \in 1..(2 * Cardinality(Seen(p))) : \A j \in 1..(k - 1) :
              j % 2 = 0 => Turn(p, j) # Turn(p, k)
<1>1. PICK S : S = Seen(p) OBVIOUS
<1>2. PICK c \in Nat : c = Cardinality(S) BY <1>1, SeenAre
<1>3. S \subseteq Nat /\ IsFiniteSet(S) BY <1>1, SeenAre
<1>4. \A n \in 1..c : Nth(S, n) \in S /\ Rank(S, Nth(S, n)) = n - 1
  BY <1>2, <1>3, NthIs
<1>5. \A i \in S : Rank(S, i) + 1 \in 1..c /\ Nth(S, Rank(S, i) + 1) = i
  BY <1>2, <1>3, NthIs
<1>6. \A k \in 1..(2 * c) : (k + 1) \div 2 \in 1..c /\ k % 2 \in {0, 1}
                            /\ k = 2 * ((k + 1) \div 2) - (k % 2)
  BY <1>2, HalfOf
<1>7. \A k \in 1..(2 * c) : Turn(p, k) \in S /\ Rank(S, Turn(p, k)) = ((k + 1) \div 2) - 1
  BY <1>1, <1>4, <1>6 DEF Turn
<1>8. ASSUME NEW i \in S PROVE \E k \in 1..(2 * c) : k % 2 = 0 /\ Turn(p, k) = i
  <2>1. PICK n \in 1..c : n = Rank(S, i) + 1 BY <1>5
  <2>2. Nth(S, n) = i BY <1>5, <2>1
  <2>3. 2 * n \in 1..(2 * c) /\ (2 * n) % 2 = 0 /\ (2 * n + 1) \div 2 = n BY <1>2
  <2>4. Turn(p, 2 * n) = i BY <1>1, <2>2, <2>3 DEF Turn
  <2> QED BY <2>3, <2>4
<1>9. ASSUME NEW k \in 1..(2 * c), NEW j \in 1..(k - 1), j % 2 = 0
      PROVE  Turn(p, j) # Turn(p, k)
  <2>1. j \in 1..(2 * c) /\ j < k /\ j \in Nat /\ k \in Nat BY <1>2
  <2>2. PICK m \in 1..c : m = (j + 1) \div 2 BY <1>6, <2>1
  <2>3. PICK n \in 1..c : n = (k + 1) \div 2 BY <1>6
  <2>4. j = 2 * m BY <1>6, <1>9, <2>1, <2>2
  <2>5. k = 2 * n - (k % 2) /\ k % 2 \in {0, 1} BY <1>6, <2>3
  <2>6. m # n BY <2>1, <2>4, <2>5
  <2>7. Rank(S, Turn(p, j)) = m - 1 /\ Rank(S, Turn(p, k)) = n - 1 BY <1>7, <2>1, <2>2, <2>3
  <2> QED BY <2>6, <2>7
<1> QED BY <1>1, <1>2, <1>7, <1>8, <1>9

LEMMA CallEndsAre ==
  ASSUME NEW p \in Encoders
  PROVE  /\ CallEnds(p) \in Seq(Messages)
         /\ Len(CallEnds(p)) = 2 * Cardinality(Seen(p)) /\ Len(CallEnds(p)) \in Nat
         /\ \A k \in 1..Len(CallEnds(p)) :
              /\ k % 2 \in {0, 1}
              /\ CallEnds(p)[k] = IF k % 2 = 1 THEN ArgsEnd(p, Turn(p, k)) ELSE CallEnd(p, Turn(p, k))
         /\ \A i \in Seen(p) : /\ ArgsEnd(p, i) \in Messages /\ CallEnd(p, i) \in Messages
                               /\ ArgsEnd(p, i).type = "args_done" /\ ArgsEnd(p, i).at = p.calls[i].at
                               /\ CallEnd(p, i).type = "call_done" /\ CallEnd(p, i).at = p.calls[i].at
                               /\ CallEnd(p, i).body = CallOf(p, i)
<1>1. PICK n \in Nat : n = 2 * Cardinality(Seen(p))
  <2>1. Cardinality(Seen(p)) \in Nat BY SeenAre
  <2> QED BY <2>1
<1>2. ASSUME NEW i \in Seen(p)
      PROVE  /\ ArgsEnd(p, i) \in Messages /\ CallEnd(p, i) \in Messages
             /\ ArgsEnd(p, i).type = "args_done" /\ ArgsEnd(p, i).at = p.calls[i].at
             /\ CallEnd(p, i).type = "call_done" /\ CallEnd(p, i).at = p.calls[i].at
             /\ CallEnd(p, i).body = CallOf(p, i)
  <2>1. i \in Indexes BY SeenAre
  <2>2. /\ p.calls[i].header \in Headers \cup {NoHeader} /\ p.calls[i].args \in Seq(Chars)
        /\ p.calls[i].at \in Nat
    BY <2>1, CallsAre
  <2>3. CallOf(p, i) \in Deltas BY <2>1, <2>2 DEF CallOf, Deltas
  <2>4. PICK b : b = CallOf(p, i) OBVIOUS
  <2>5. b \in Bodies /\ p.calls[i].args \in Bodies BY <2>2, <2>3, <2>4, BodiesAre
  <2>6. PICK at : at = p.calls[i].at OBVIOUS
  <2>7. PICK e, f : e = Event("args_done", at, p.calls[i].args) /\ f = Event("call_done", at, b)
    OBVIOUS
  <2>8. e \in Messages /\ f \in Messages BY <2>2, <2>5, <2>6, <2>7, EventIs DEF Markers
  <2>9. /\ e.type = "args_done" /\ e.at = at /\ f.type = "call_done" /\ f.at = at /\ f.body = b
    BY <2>7, EventIs
  <2>10. ArgsEnd(p, i) = e /\ CallEnd(p, i) = f BY <2>4, <2>6, <2>7 DEF ArgsEnd, CallEnd
  <2> QED BY <2>4, <2>6, <2>8, <2>9, <2>10
<1>3. \A k \in 1..n : /\ k % 2 \in {0, 1}
                      /\ CallEnds(p)[k] = IF k % 2 = 1 THEN ArgsEnd(p, Turn(p, k)) ELSE CallEnd(p, Turn(p, k))
  <2> TAKE k \in 1..n
  <2>1. k % 2 \in {0, 1} OBVIOUS
  <2>2. CallEnds(p)[k] = IF k % 2 = 1 THEN ArgsEnd(p, Turn(p, k)) ELSE CallEnd(p, Turn(p, k))
    BY <1>1 DEF CallEnds, Turn
  <2> QED BY <2>1, <2>2
<1>4. \A k \in 1..n : Turn(p, k) \in Seen(p) BY <1>1, TurnsAre
<1>5. \A k \in 1..n : CallEnds(p)[k] \in Messages BY <1>2, <1>3, <1>4
<1>6. CallEnds(p) \in [1..n -> Messages]
  <2>1. PICK f : f = CallEnds(p) OBVIOUS
  <2>2. f = [k \in 1..n |-> f[k]] BY <1>1, <2>1 DEF CallEnds
  <2> QED BY <1>5, <2>1, <2>2
<1>7. CallEnds(p) \in Seq(Messages) /\ Len(CallEnds(p)) = n BY <1>6, FunctionIsSeq
<1> QED BY <1>1, <1>2, <1>3, <1>7

Closings(p) == MessageEnds(p) \o CallEnds(p)

LEMMA MessageEndsAre ==
  ASSUME NEW p \in Encoders
  PROVE  /\ MessageEnds(p) \in Seq(Messages) /\ Len(MessageEnds(p)) \in Nat
         /\ \A k \in 1..Len(MessageEnds(p)) :
              /\ p.textAt = <<MessageEnds(p)[k].at>> /\ MessageEnds(p)[k].at \in Nat
              /\ MessageEnds(p)[k].type \in {"text_done", "part_done", "message_done"}
              /\ MessageEnds(p)[k].body = p.text
              /\ MessageEnds(p)[k].type = "message_done" => k = Len(MessageEnds(p))
         /\ p.textAt # <<>> => \E k \in 1..Len(MessageEnds(p)) : MessageEnds(p)[k].type = "message_done"
<1>1. CASE p.textAt = <<>>
  <2>1. MessageEnds(p) = <<>> BY <1>1 DEF MessageEnds
  <2>2. <<>> \in Seq(Messages) /\ Len(<<>>) = 0 OBVIOUS
  <2> QED BY <1>1, <2>1, <2>2
<1>2. CASE p.textAt # <<>>
  <2>1. PICK n \in Nat : p.textAt = <<n>> BY <1>2, OpenAtsAre
  <2>2. p.textAt[1] = n BY <2>1
  <2>3. PICK t : t = p.text OBVIOUS
  <2>4. t \in Seq(Chars) BY <2>3 DEF Encoders
  <2>5. PICK e, f, g : /\ e = Event("text_done", n, t) /\ f = Event("part_done", n, t)
                       /\ g = Event("message_done", n, t)
    OBVIOUS
  <2>6. e \in Messages /\ f \in Messages /\ g \in Messages
    BY <2>4, <2>5, EventIs, BodiesAre DEF Markers
  <2>7. /\ e.type = "text_done" /\ e.at = n /\ e.body = t /\ f.type = "part_done" /\ f.at = n
        /\ f.body = t /\ g.type = "message_done" /\ g.at = n /\ g.body = t
    BY <2>5, EventIs
  <2>8. PICK M : M = <<e, f, g>> OBVIOUS
  <2>9. MessageEnds(p) = M BY <1>2, <2>2, <2>3, <2>5, <2>8 DEF MessageEnds
  <2>10. M \in Seq(Messages) /\ Len(M) = 3 /\ M[1] = e /\ M[2] = f /\ M[3] = g BY <2>6, <2>8
  <2>11. \A k \in 1..Len(M) : k = 1 \/ k = 2 \/ k = 3 BY <2>10
  <2>12. \A k \in 1..Len(M) : /\ M[k].at = n /\ M[k].body = t
                              /\ M[k].type \in {"text_done", "part_done", "message_done"}
                              /\ M[k].type = "message_done" => k = 3
    BY <2>7, <2>10, <2>11
  <2>13. 3 \in 1..Len(M) /\ M[3].type = "message_done" BY <2>7, <2>10
  <2>14. Len(M) \in Nat BY <2>10
  <2> QED BY <2>1, <2>3, <2>9, <2>10, <2>12, <2>13, <2>14
<1> QED BY <1>1, <1>2

\* What closes the items of p, by the call it is about.
LEMMA ClosingsAre ==
  ASSUME NEW p \in Encoders
  PROVE  /\ Closings(p) \in Seq(Messages)
         /\ \A k \in 1..Len(Closings(p)) :
              \/ /\ Closings(p)[k].type \in {"text_done", "part_done", "message_done"}
                 /\ Closings(p)[k].body = p.text /\ p.textAt = <<Closings(p)[k].at>>
                 /\ Closings(p)[k].at \in Nat
              \/ \E i \in Seen(p) : /\ Closings(p)[k].type \in {"args_done", "call_done"}
                                    /\ Closings(p)[k].at = p.calls[i].at
                                    /\ Closings(p)[k].type = "call_done" => Closings(p)[k].body = CallOf(p, i)
         /\ p.textAt # <<>> => \E k \in 1..Len(Closings(p)) : Closings(p)[k].type = "message_done"
         /\ \A i \in Seen(p) : \E k \in 1..Len(Closings(p)) :
              /\ Closings(p)[k].type = "call_done" /\ Closings(p)[k].at = p.calls[i].at
              /\ Closings(p)[k].body = CallOf(p, i)
<1>1. PICK M \in Seq(Messages) : M = MessageEnds(p) BY MessageEndsAre
<1>2. PICK C \in Seq(Messages) : C = CallEnds(p) BY CallEndsAre
<1>3. PICK X \in Seq(Messages) : X = M \o C BY ConcatType
<1>4. Closings(p) = X BY <1>1, <1>2, <1>3 DEF Closings
<1>5. /\ Len(X) = Len(M) + Len(C) /\ Len(M) \in Nat /\ Len(C) \in Nat
      /\ \A k \in 1..Len(M) : X[k] = M[k] /\ k \in 1..Len(X)
      /\ \A k \in 1..Len(C) : X[Len(M) + k] = C[k] /\ Len(M) + k \in 1..Len(X)
  BY <1>3
<1>6. \A k \in 1..Len(C) : /\ k % 2 \in {0, 1}
                           /\ C[k] = IF k % 2 = 1 THEN ArgsEnd(p, Turn(p, k)) ELSE CallEnd(p, Turn(p, k))
  BY <1>2, CallEndsAre
<1>7. PICK n \in Nat : n = Len(C) /\ n = 2 * Cardinality(Seen(p)) BY <1>2, CallEndsAre
<1>8. \A k \in 1..n : Turn(p, k) \in Seen(p) BY <1>7, TurnsAre
<1>9. \A i \in Seen(p) : /\ ArgsEnd(p, i).type = "args_done" /\ ArgsEnd(p, i).at = p.calls[i].at
                         /\ CallEnd(p, i).type = "call_done" /\ CallEnd(p, i).at = p.calls[i].at
                         /\ CallEnd(p, i).body = CallOf(p, i)
  BY CallEndsAre
<1>10. \A k \in 1..Len(M) : /\ p.textAt = <<M[k].at>> /\ M[k].at \in Nat
                            /\ M[k].type \in {"text_done", "part_done", "message_done"}
                            /\ M[k].body = p.text
  BY <1>1, MessageEndsAre
<1>11. ASSUME NEW k \in 1..Len(X)
       PROVE \/ /\ X[k].type \in {"text_done", "part_done", "message_done"}
                /\ X[k].body = p.text /\ p.textAt = <<X[k].at>> /\ X[k].at \in Nat
             \/ \E i \in Seen(p) : /\ X[k].type \in {"args_done", "call_done"}
                                   /\ X[k].at = p.calls[i].at
                                   /\ X[k].type = "call_done" => X[k].body = CallOf(p, i)
  <2>1. CASE k \in 1..Len(M) /\ X[k] = M[k] BY <1>10, <2>1
  <2>2. CASE \E j \in 1..Len(C) : k = Len(M) + j /\ X[k] = C[j]
    <3>1. PICK j \in 1..Len(C) : X[k] = C[j] BY <2>2
    <3>2. PICK i \in Seen(p) : i = Turn(p, j) BY <1>7, <1>8
    <3>3. C[j] = ArgsEnd(p, i) \/ C[j] = CallEnd(p, i) BY <1>6, <3>2
    <3>4. /\ X[k].type \in {"args_done", "call_done"} /\ X[k].at = p.calls[i].at
          /\ X[k].type = "call_done" => X[k].body = CallOf(p, i)
      <4>1. CASE C[j] = ArgsEnd(p, i) BY <1>9, <3>1, <4>1
      <4>2. CASE C[j] = CallEnd(p, i) BY <1>9, <3>1, <4>2
      <4> QED BY <3>3, <4>1, <4>2
    <3> QED BY <3>4
  <2> QED BY <1>3, <2>1, <2>2, ConcatParts, SMTT(60)
<1>12. ASSUME p.textAt # <<>> PROVE \E k \in 1..Len(X) : X[k].type = "message_done"
  <2>1. PICK k \in 1..Len(M) : M[k].type = "message_done" BY <1>1, <1>12, MessageEndsAre
  <2>2. X[k] = M[k] /\ k \in 1..Len(X) BY <1>5
  <2> QED BY <2>1, <2>2
<1>13. ASSUME NEW i \in Seen(p)
       PROVE  \E k \in 1..Len(X) : /\ X[k].type = "call_done" /\ X[k].at = p.calls[i].at
                                   /\ X[k].body = CallOf(p, i)
  <2>1. PICK j \in 1..n : j % 2 = 0 /\ Turn(p, j) = i BY <1>7, TurnsAre
  <2>2. C[j] = CallEnd(p, i) BY <1>6, <1>7, <2>1
  <2>3. X[Len(M) + j] = C[j] /\ Len(M) + j \in 1..Len(X) BY <1>5, <1>7
  <2> QED BY <1>9, <2>2, <2>3
<1> QED BY <1>4, <1>11, <1>12, <1>13

\* Nothing follows what closes an item.
LEMMA ClosedOnce ==
  ASSUME NEW p \in Encoders, Apart(p)
  PROVE  \A k \in 1..Len(Closings(p)) : \A j \in 1..(k - 1) :
           Closings(p)[j].type \in Closed => Closings(p)[j].at # Closings(p)[k].at
<1>1. PICK M \in Seq(Messages) : M = MessageEnds(p) BY MessageEndsAre
<1>2. PICK C \in Seq(Messages) : C = CallEnds(p) BY CallEndsAre
<1>3. PICK X \in Seq(Messages) : X = M \o C BY ConcatType
<1>4. Closings(p) = X BY <1>1, <1>2, <1>3 DEF Closings
<1>5. Len(M) \in Nat /\ Len(C) \in Nat OBVIOUS
<1>6. \A k \in 1..Len(C) : /\ k % 2 \in {0, 1}
                           /\ C[k] = IF k % 2 = 1 THEN ArgsEnd(p, Turn(p, k)) ELSE CallEnd(p, Turn(p, k))
  BY <1>2, CallEndsAre
<1>7. PICK n \in Nat : n = Len(C) /\ n = 2 * Cardinality(Seen(p)) BY <1>2, CallEndsAre
<1>8. \A k \in 1..n : Turn(p, k) \in Seen(p) BY <1>7, TurnsAre
<1>9. \A i \in Seen(p) : /\ ArgsEnd(p, i).type = "args_done" /\ ArgsEnd(p, i).at = p.calls[i].at
                         /\ CallEnd(p, i).type = "call_done" /\ CallEnd(p, i).at = p.calls[i].at
  BY CallEndsAre
<1>10. \A k \in 1..Len(M) : /\ p.textAt = <<M[k].at>> /\ M[k].at \in Nat
                            /\ M[k].type \in {"text_done", "part_done", "message_done"}
                            /\ M[k].type = "message_done" => k = Len(M)
  BY <1>1, MessageEndsAre
<1>11. \A k \in 1..n : C[k].at = p.calls[Turn(p, k)].at /\ (C[k].type \in Closed => k % 2 = 0)
  <2> TAKE k \in 1..n
  <2>1. Turn(p, k) \in Seen(p) BY <1>8
  <2>2. CASE C[k] = ArgsEnd(p, Turn(p, k)) BY <1>9, <2>1, <2>2 DEF Closed
  <2>3. CASE k % 2 = 0 /\ C[k] = CallEnd(p, Turn(p, k)) BY <1>9, <2>1, <2>3
  <2> QED BY <1>6, <1>7, <2>2, <2>3
<1>12. \A i, j \in Seen(p) : p.calls[i].at = p.calls[j].at => i = j
  BY DEF Apart, Seen
<1>13. \A i \in Seen(p) : p.textAt # <<p.calls[i].at>> BY DEF Apart, Seen
<1>14. ASSUME NEW k \in 1..Len(X), NEW j \in 1..(k - 1), X[j].type \in Closed
       PROVE  X[j].at # X[k].at
  <2>1. j \in 1..Len(X) /\ j < k /\ j \in Nat /\ k \in Nat OBVIOUS
  <2>2. CASE j \in 1..Len(M) /\ X[j] = M[j]
    <3>1. j = Len(M) BY <1>10, <1>14, <2>2 DEF Closed
    <3>2. k \notin 1..Len(M) BY <1>5, <2>1, <3>1
    <3>3. PICK b \in 1..Len(C) : X[k] = C[b] BY <1>3, <3>2, ConcatParts
    <3>4. PICK i \in Seen(p) : X[k].at = p.calls[i].at BY <1>7, <1>8, <1>11, <3>3
    <3> QED BY <1>10, <1>13, <2>2, <3>4
  <2>3. CASE \E a \in 1..Len(C) : j = Len(M) + a /\ X[j] = C[a]
    <3>1. PICK a \in 1..Len(C) : j = Len(M) + a /\ X[j] = C[a] BY <2>3
    <3>2. k \notin 1..Len(M) BY <1>5, <2>1, <3>1
    <3>3. PICK b \in 1..Len(C) : k = Len(M) + b /\ X[k] = C[b] BY <1>3, <3>2, ConcatParts
    <3>4. a % 2 = 0 BY <1>7, <1>11, <1>14, <3>1
    <3>5. a \in 1..(b - 1) BY <1>5, <2>1, <3>1, <3>3
    <3>6. Turn(p, a) # Turn(p, b) BY <1>7, <3>3, <3>4, <3>5, TurnsAre
    <3>7. Turn(p, a) \in Seen(p) /\ Turn(p, b) \in Seen(p) BY <1>7, <1>8, <3>1, <3>3
    <3>8. X[j].at = p.calls[Turn(p, a)].at /\ X[k].at = p.calls[Turn(p, b)].at
      BY <1>7, <1>11, <3>1, <3>3
    <3> QED BY <1>12, <3>6, <3>7, <3>8
  <2> QED BY <1>3, <2>1, <2>2, <2>3, ConcatParts
<1> QED BY <1>4, <1>14

-----------------------------------------------------------------------------
(* A success closes what was listed.                                       *)

\* What es listed, X closes.
CloseEach(X, A) ==
  /\ \A k \in 1..Len(X) : X[k].type \in CloseTypes /\ X[k].at \in A
  /\ \A k \in 1..Len(X) : \A j \in 1..(k - 1) : X[j].type \in Closed => X[j].at # X[k].at
  /\ \A a \in A : \E k \in 1..Len(X) : X[k].type \in Closed /\ X[k].at = a

EachClosed(es) ==
  \A k \in 1..Len(es) : IsItem(es[k]) =>
    \E j \in 1..Len(es) : IsItem(es[j]) /\ es[j].type \in Closed /\ es[j].at = es[k].at

LEMMA ClosesAll ==
  ASSUME NEW es \in Seq(Messages), NEW A, A \subseteq Nat, NEW n \in Nat, Listed(es, A, n),
         NEW X \in Seq(Messages), CloseEach(X, A)
  PROVE  Regular(es \o X) /\ EachClosed(es \o X)
<1>1. PICK fs \in Seq(Messages) : fs = es \o X BY ConcatType
<1>2. /\ Len(fs) = Len(es) + Len(X) /\ Len(es) \in Nat /\ Len(X) \in Nat
      /\ \A k \in 1..Len(es) : fs[k] = es[k] /\ k \in 1..Len(fs)
      /\ \A k \in 1..Len(X) : fs[Len(es) + k] = X[k] /\ Len(es) + k \in 1..Len(fs)
  BY <1>1
<1>3. Regular(es) BY DEF Listed
<1>4. \A k \in 1..Len(es) : IsItem(es[k]) => es[k].at \in A /\ es[k].type \notin Closed
  BY DEF Listed
<1>5. \A a \in A : \E k \in 1..Len(es) : IsItem(es[k]) /\ es[k].at = a BY DEF Listed
<1>6. \A k \in 1..Len(X) : X[k].type \in CloseTypes /\ X[k].at \in A BY DEF CloseEach
<1>7. \A k \in 1..Len(X) : \A j \in 1..(k - 1) : X[j].type \in Closed => X[j].at # X[k].at
  BY DEF CloseEach
<1>8. \A a \in A : \E k \in 1..Len(X) : X[k].type \in Closed /\ X[k].at = a BY DEF CloseEach
<1>9. \A k \in 1..Len(X) : IsItem(X[k]) /\ X[k].type \notin Added
  BY <1>6 DEF IsItem, CloseTypes, Added, Endings
<1>10. ASSUME NEW i \in 1..Len(fs), IsItem(fs[i])
       PROVE  /\ fs[i].type \in Added <=> \A j \in 1..(i - 1) : IsItem(fs[j]) => fs[j].at # fs[i].at
              /\ \A j \in 1..(i - 1) : IsItem(fs[j]) /\ fs[j].type \in Closed => fs[j].at # fs[i].at
              /\ fs[i].at \in A
  <2>1. CASE i \in 1..Len(es)
    <3>1. \A j \in 1..(i - 1) : fs[j] = es[j] BY <1>2, <2>1
    <3>2. fs[i] = es[i] BY <1>2, <2>1
    <3>3. /\ es[i].type \in Added <=> \A j \in 1..(i - 1) : IsItem(es[j]) => es[j].at # es[i].at
          /\ \A j \in 1..(i - 1) : IsItem(es[j]) /\ es[j].type \in Closed => es[j].at # es[i].at
      BY <1>3, <1>10, <2>1, <3>2 DEF Regular
    <3>4. es[i].at \in A BY <1>4, <1>10, <2>1, <3>2
    <3> QED BY <3>1, <3>2, <3>3, <3>4
  <2>2. CASE i \notin 1..Len(es)
    <3>1. PICK k \in 1..Len(X) : i = Len(es) + k /\ fs[i] = X[k]
      BY <1>1, <2>2, ConcatParts, SMTT(30)
    <3>2. X[k].at \in A BY <1>6
    <3>3. PICK m \in 1..Len(es) : IsItem(es[m]) /\ es[m].at = X[k].at BY <1>5, <3>2
    <3>4. m \in 1..(i - 1) /\ fs[m] = es[m] BY <1>2, <3>1
    <3>5. fs[i].type \notin Added BY <1>9, <3>1
    <3>6. fs[i].type \in Added <=> \A j \in 1..(i - 1) : IsItem(fs[j]) => fs[j].at # fs[i].at
      BY <3>1, <3>3, <3>4, <3>5
    <3>7. ASSUME NEW j \in 1..(i - 1), IsItem(fs[j]), fs[j].type \in Closed
          PROVE  fs[j].at # fs[i].at
      <4>1. j \in 1..Len(fs) /\ j < i /\ j \in Nat /\ i \in Nat BY <1>2
      <4>2. CASE j \in 1..Len(es) BY <1>2, <1>4, <3>7, <4>2
      <4>3. CASE j \notin 1..Len(es)
        <5>1. PICK m2 \in 1..Len(X) : j = Len(es) + m2 /\ fs[j] = X[m2] BY <1>1, <4>1, <4>3, ConcatParts
        <5>2. m2 \in 1..(k - 1) BY <1>2, <3>1, <4>1, <5>1
        <5> QED BY <1>7, <3>1, <3>7, <5>1, <5>2
      <4> QED BY <4>2, <4>3
    <3> QED BY <3>1, <3>2, <3>6, <3>7
  <2> QED BY <2>1, <2>2
<1>11. Regular(fs) BY <1>10 DEF Regular
<1>12. ASSUME NEW k \in 1..Len(fs), IsItem(fs[k])
       PROVE  \E j \in 1..Len(fs) : IsItem(fs[j]) /\ fs[j].type \in Closed /\ fs[j].at = fs[k].at
  <2>1. fs[k].at \in A BY <1>10, <1>12
  <2>2. PICK m \in 1..Len(X) : X[m].type \in Closed /\ X[m].at = fs[k].at BY <1>8, <2>1
  <2>3. fs[Len(es) + m] = X[m] /\ Len(es) + m \in 1..Len(fs) BY <1>2
  <2> QED BY <1>9, <2>2, <2>3
<1>13. EachClosed(fs) BY <1>12 DEF EachClosed
<1> QED BY <1>1, <1>11, <1>13

LEMMA ClosesAside ==
  ASSUME NEW es \in Seq(Messages), EachClosed(es), NEW m \in Messages, ~IsItem(m)
  PROVE  EachClosed(Append(es, m))
<1>1. PICK fs : fs = Append(es, m) OBVIOUS
<1>2. /\ Len(es) \in Nat /\ Len(fs) = Len(es) + 1
      /\ \A k \in 1..Len(es) : fs[k] = es[k]
      /\ fs[Len(es) + 1] = m /\ 1..Len(fs) = 1..Len(es) \cup {Len(es) + 1}
  BY <1>1, AppendedIs
<1>3. ASSUME NEW k \in 1..Len(fs), IsItem(fs[k])
      PROVE  \E j \in 1..Len(fs) : IsItem(fs[j]) /\ fs[j].type \in Closed /\ fs[j].at = fs[k].at
  <2>1. k \in 1..Len(es) BY <1>2, <1>3
  <2>2. PICK j \in 1..Len(es) : IsItem(es[j]) /\ es[j].type \in Closed /\ es[j].at = es[k].at
    BY <1>2, <1>3, <2>1 DEF EachClosed
  <2>3. j \in 1..Len(fs) /\ fs[j] = es[j] /\ fs[k] = es[k] BY <1>2, <2>1
  <2> QED BY <2>2, <2>3
<1> QED BY <1>1, <1>3 DEF EachClosed

\* The closings of the encoder close what it listed.
LEMMA ClosingsClose ==
  ASSUME NEW p \in Encoders, Apart(p)
  PROVE  CloseEach(Closings(p), OpenAts(p))
<1>1. PICK X \in Seq(Messages) : X = Closings(p) BY ClosingsAre
<1>2. ASSUME NEW k \in 1..Len(X) PROVE X[k].type \in CloseTypes /\ X[k].at \in OpenAts(p)
  <2>1. CASE /\ X[k].type \in {"text_done", "part_done", "message_done"}
             /\ p.textAt = <<X[k].at>> /\ X[k].at \in Nat
    <3>1. PICK n \in Nat : n = X[k].at BY <2>1
    <3>2. n \in OpenAts(p) BY <2>1, <3>1, OpenAtsAre
    <3> QED BY <2>1, <3>1, <3>2 DEF CloseTypes
  <2>2. CASE \E i \in Seen(p) : /\ X[k].type \in {"args_done", "call_done"}
                                /\ X[k].at = p.calls[i].at
    <3>1. PICK i \in Seen(p) : X[k].type \in {"args_done", "call_done"} /\ X[k].at = p.calls[i].at
      BY <2>2
    <3>2. i \in Indexes /\ p.calls[i].seen BY DEF Seen
    <3>3. p.calls[i].at \in OpenAts(p) BY <3>2, OpenAtsAre
    <3> QED BY <3>1, <3>3 DEF CloseTypes
  <2> QED BY <1>1, <2>1, <2>2, ClosingsAre
<1>3. \A k \in 1..Len(X) : \A j \in 1..(k - 1) : X[j].type \in Closed => X[j].at # X[k].at
  BY <1>1, ClosedOnce
<1>4. ASSUME NEW a \in OpenAts(p)
      PROVE  \E k \in 1..Len(X) : X[k].type \in Closed /\ X[k].at = a
  <2>1. CASE a \in Nat /\ p.textAt = <<a>>
    <3>1. p.textAt # <<>> BY <2>1
    <3>2. PICK k \in 1..Len(X) : X[k].type = "message_done" BY <1>1, <3>1, ClosingsAre
    <3>3. p.textAt = <<X[k].at>> BY <1>1, <3>2, ClosingsAre
    <3>4. X[k].at = a
      <4>1. <<a>>[1] = a /\ <<X[k].at>>[1] = X[k].at OBVIOUS
      <4> QED BY <2>1, <3>3, <4>1
    <3> QED BY <3>2, <3>4 DEF Closed
  <2>2. CASE \E i \in Indexes : p.calls[i].seen /\ a = p.calls[i].at
    <3>1. PICK i \in Indexes : p.calls[i].seen /\ a = p.calls[i].at BY <2>2
    <3>2. i \in Seen(p) BY <3>1 DEF Seen
    <3>3. PICK k \in 1..Len(X) : X[k].type = "call_done" /\ X[k].at = p.calls[i].at
      BY <1>1, <3>2, ClosingsAre
    <3> QED BY <3>1, <3>3 DEF Closed
  <2> QED BY <2>1, <2>2 DEF OpenAts
<1>5. CloseEach(X, OpenAts(p)) BY <1>2, <1>3, <1>4 DEF CloseEach
<1> QED BY <1>1, <1>5

LEMMA ThenOne ==
  ASSUME NEW E, NEW s \in Seq(E), NEW t \in Seq(E), NEW x \in E
  PROVE  /\ s \o t \in Seq(E) /\ t \o <<x>> \in Seq(E)
         /\ s \o (t \o <<x>>) = Append(s \o t, x)
<1>1. s \o t \in Seq(E) /\ <<x>> \in Seq(E) BY ConcatType, ConcatOne
<1>2. t \o <<x>> \in Seq(E) BY <1>1, ConcatType
<1>3. t \o <<x>> = Append(t, x) BY ConcatOne
<1>4. s \o Append(t, x) = Append(s \o t, x) BY ConcatAppend
<1> QED BY <1>1, <1>2, <1>3, <1>4

LEMMA FinaleIs ==
  ASSUME NEW r \in Finishes
  PROVE  \E m \in Messages : /\ Finale(r) = <<m>> /\ m.body = r /\ m.at = 0
                             /\ m.type = IF r = "length" THEN "incomplete" ELSE "completed"
<1>1. PICK m : m = Event(IF r = "length" THEN "incomplete" ELSE "completed", 0, r) OBVIOUS
<1>2. m.body = r /\ m.at = 0 /\ m.type = IF r = "length" THEN "incomplete" ELSE "completed"
  BY <1>1, EventIs
<1>3. m \in Messages
  <2>1. r \in Bodies BY BodiesAre
  <2>2. (IF r = "length" THEN "incomplete" ELSE "completed") \in Markers BY DEF Markers
  <2> QED BY <1>1, <2>1, <2>2, EventIs
<1> QED BY <1>1, <1>2, <1>3 DEF Finale

\* The calls that the ends carry are those that the deltas add up to.
Carried(X) == {X[k].body : k \in {j \in 1..Len(X) : X[j].type = "call_done"}}

LEMMA CallsCarried ==
  ASSUME NEW h, NEW es, NEW p \in Encoders, Follows(h, es, p),
         NEW ts, ts = Parts(h), Called(ts) \subseteq Indexes,
         NEW X, X = Closings(p)
  PROVE  Carried(X) = Calls(ts)
<1>1. \A i \in Indexes : /\ p.calls[i].seen <=> i \in Called(ts)
                         /\ p.calls[i].header = HeaderOf(i, ts) /\ p.calls[i].args = ArgsOf(i, ts)
  BY DEF Follows
<1>2. Seen(p) = Called(ts) BY <1>1 DEF Seen
<1>3. \A i \in Seen(p) : CallOf(p, i) = [index |-> i, header |-> HeaderOf(i, ts), args |-> ArgsOf(i, ts)]
  BY <1>1, <1>2 DEF CallOf
<1>4. Calls(ts) = {CallOf(p, i) : i \in Seen(p)} BY <1>2, <1>3 DEF Calls
<1>5. ASSUME NEW k \in 1..Len(X), X[k].type = "call_done"
      PROVE  \E i \in Seen(p) : X[k].body = CallOf(p, i)
  <2>1. X[k].type \notin {"text_done", "part_done", "message_done"} BY <1>5
  <2>2. \E i \in Seen(p) : /\ X[k].type \in {"args_done", "call_done"}
                           /\ X[k].at = p.calls[i].at
                           /\ X[k].type = "call_done" => X[k].body = CallOf(p, i)
    BY <2>1, ClosingsAre
  <2> QED BY <1>5, <2>2
<1>6. \A i \in Seen(p) : \E k \in 1..Len(X) : X[k].type = "call_done" /\ X[k].body = CallOf(p, i)
  BY ClosingsAre
<1> QED BY <1>4, <1>5, <1>6 DEF Carried

LEMMA ResponsesSucceed ==
  ASSUME request.api = "responses", NEW h, NEW es, NEW p, NEW ch, Speaks(h, es, p, ch),
         p.queue = <<>>, NEW r \in Finishes, Structured => r = "stop" /\ ch \in Objects,
         NEW w \in BOOLEAN, NEW q, q = Terminated(p, Closings(p) \o Finale(r))
  PROVE  Succeeded(Append(h, Completed(r, w)), es \o q.queue, q)
<1>1. /\ p \in Encoders /\ ~p.terminal /\ h \in Seq(Outputs) /\ es \in Seq(Messages)
      /\ \A k \in 1..Len(es) : es[k].type \notin Quiet
      /\ TextOf(es) = Words(h)
      /\ Structured => ch = Words(h) /\ Parts(h) = <<>>
      /\ Follows(h, es, p)
  BY SpeaksIs DEF Quiet
<1>2. PICK X \in Seq(Messages) : X = Closings(p) BY <1>1, ClosingsAre
<1>3. PICK m \in Messages : /\ Finale(r) = <<m>> /\ m.body = r
                            /\ m.type = IF r = "length" THEN "incomplete" ELSE "completed"
  BY FinaleIs
<1>4. PICK fs \in Seq(Messages) : fs = es \o X BY <1>1, ConcatType
<1>5. PICK ms \in Seq(Messages) : ms = X \o <<m>> BY ThenOne
<1>6. es \o ms = Append(fs, m) BY <1>1, <1>4, <1>5, ThenOne
<1>7. PICK gs : gs = Append(fs, m) OBVIOUS
<1>8. q \in Encoders /\ q.terminal /\ q.queue = ms
  <2>1. q = Terminated(p, ms) BY <1>2, <1>3, <1>5
  <2>2. q \in Encoders /\ q.queue = p.queue \o ms BY <1>1, <2>1, EncodersEnd
  <2>3. q.terminal BY <1>1, <2>1, EncodersEnd
  <2>4. p.queue \o ms = ms BY ConcatNothing
  <2> QED BY <2>2, <2>3, <2>4
<1>9. /\ gs \in Seq(Messages) /\ Len(gs) = Len(fs) + 1 /\ Len(fs) \in Nat
      /\ \A k \in 1..Len(fs) : gs[k] = fs[k]
      /\ gs[Len(fs) + 1] = m /\ 1..Len(gs) = 1..Len(fs) \cup {Len(fs) + 1}
  BY <1>7, AppendedIs
<1>10. ASSUME NEW k \in 1..Len(X)
       PROVE  /\ X[k].type \in CloseTypes
              /\ X[k].type \in {"text_done", "part_done", "message_done"} => X[k].body = Words(h)
  <2>1. CASE /\ X[k].type \in {"text_done", "part_done", "message_done"} /\ X[k].body = p.text
    BY <1>1, <2>1 DEF CloseTypes, Follows
  <2>2. CASE X[k].type \in {"args_done", "call_done"}
    BY <2>2 DEF CloseTypes
  <2> QED BY <1>1, <1>2, <2>1, <2>2, ClosingsAre
<1>11. Quiet = CloseTypes \cup {"completed", "incomplete", "failed", "usage", "done"}
  BY DEF Quiet, Lasts, Endings
<1>12. \A k \in 1..Len(fs) :
         \/ k \in 1..Len(es) /\ fs[k] = es[k]
         \/ \E j \in 1..Len(X) : k = Len(es) + j /\ fs[k] = X[j]
  BY <1>1, <1>4, ConcatParts
<1>13. ASSUME NEW k \in 1..Len(fs)
       PROVE  /\ fs[k].type \notin Success
              /\ fs[k].type \in {"text_done", "part_done", "message_done"} => fs[k].body = Words(h)
  <2>1. CASE k \in 1..Len(es) /\ fs[k] = es[k] BY <1>1, <1>11, <2>1 DEF Success, CloseTypes
  <2>2. CASE \E j \in 1..Len(X) : k = Len(es) + j /\ fs[k] = X[j]
    BY <1>10, <2>2 DEF Success, CloseTypes
  <2> QED BY <1>12, <2>1, <2>2
<1>14. ASSUME NEW k \in 1..Len(gs)
       PROVE  /\ gs[k].type \in Success =>
                   gs[k].body = r /\ (gs[k].type = "incomplete" <=> r = "length")
              /\ gs[k].type \in {"text_done", "part_done", "message_done"} => gs[k].body = Words(h)
  <2>1. CASE k \in 1..Len(fs) BY <1>9, <1>13, <2>1
  <2>2. CASE k = Len(fs) + 1 BY <1>3, <1>9, <2>2
  <2> QED BY <1>9, <2>1, <2>2
<1>15. TextOf(gs) = Words(h)
  <2>1. \A k \in 1..Len(X) : X[k].type # "text_delta" BY <1>10 DEF CloseTypes
  <2>2. TextOf(X) = <<>> BY <2>1, TextOfIs
  <2>3. TextOf(fs) = TextOf(es) \o TextOf(X) BY <1>1, <1>4, TextOfIs
  <2>4. TextOf(es) \in Seq(Chars) BY <1>1, TextOfIs
  <2>5. TextOf(fs) = TextOf(es) BY <2>2, <2>3, <2>4, ConcatNothing
  <2>6. m.type # "text_delta" BY <1>3
  <2>7. TextOf(gs) = TextOf(fs) BY <1>7, <2>6, SaidMore
  <2> QED BY <1>1, <2>5, <2>7
<1>16. PICK ts \in Seq(Deltas) : ts = Parts(h)
  <2>1. Parts(h) \in Seq(Deltas)
    <3>1. h \in Seq(Reports) BY <1>1, OutputsAreReports
    <3> QED BY <3>1, PartsAre
  <2> QED BY <2>1
<1>17. Called(ts) \subseteq Indexes
  <2>1. \A k \in 1..Len(ts) : ts[k] \in Deltas BY <1>16
  <2> QED BY <2>1, DeltasAre DEF Called
<1>18. {X[k].body : k \in {j \in 1..Len(X) : X[j].type = "call_done"}} = Calls(ts)
  <2>1. p \in Encoders /\ Follows(h, es, p) BY <1>1
  <2>2. Carried(X) = Calls(ts) BY <1>2, <1>16, <1>17, <2>1, CallsCarried
  <2> QED BY <2>2 DEF Carried
<1>19. {gs[k].body : k \in {j \in 1..Len(gs) : gs[j].type = "call_done"}} = Calls(ts)
  <2>1. \A k \in 1..Len(X) : gs[Len(es) + k] = X[k] /\ Len(es) + k \in 1..Len(gs)
    <3>1. Len(fs) = Len(es) + Len(X) /\ Len(es) \in Nat /\ Len(X) \in Nat
          /\ \A k \in 1..Len(X) : fs[Len(es) + k] = X[k]
      BY <1>1, <1>4
    <3> QED BY <1>9, <3>1
  <2>2. ASSUME NEW k \in 1..Len(gs), gs[k].type = "call_done"
        PROVE  \E j \in 1..Len(X) : X[j].type = "call_done" /\ gs[k].body = X[j].body
    <3>1. k \in 1..Len(fs) /\ gs[k] = fs[k] BY <1>3, <1>9, <2>2
    <3>2. ~(k \in 1..Len(es) /\ fs[k] = es[k]) BY <1>1, <1>11, <2>2, <3>1 DEF CloseTypes
    <3>3. PICK j \in 1..Len(X) : fs[k] = X[j] BY <1>12, <3>1, <3>2
    <3> QED BY <2>2, <3>1, <3>3
  <2>3. {gs[k].body : k \in {j \in 1..Len(gs) : gs[j].type = "call_done"}}
          = {X[k].body : k \in {j \in 1..Len(X) : X[j].type = "call_done"}}
    <3>1. ASSUME NEW b, \E k \in 1..Len(gs) : gs[k].type = "call_done" /\ b = gs[k].body
          PROVE  \E k \in 1..Len(X) : X[k].type = "call_done" /\ b = X[k].body
      BY <2>2, <3>1
    <3>2. ASSUME NEW b, \E k \in 1..Len(X) : X[k].type = "call_done" /\ b = X[k].body
          PROVE  \E k \in 1..Len(gs) : gs[k].type = "call_done" /\ b = gs[k].body
      <4>1. PICK k \in 1..Len(X) : X[k].type = "call_done" /\ b = X[k].body BY <3>2
      <4>2. gs[Len(es) + k] = X[k] /\ Len(es) + k \in 1..Len(gs) BY <2>1
      <4> QED BY <4>1, <4>2
    <3>3. PICK G : G = {gs[k].body : k \in {j \in 1..Len(gs) : gs[j].type = "call_done"}} OBVIOUS
    <3>4. PICK B : B = {X[k].body : k \in {j \in 1..Len(X) : X[j].type = "call_done"}} OBVIOUS
    <3>5. \A b : b \in G <=> \E k \in 1..Len(gs) : gs[k].type = "call_done" /\ b = gs[k].body
      BY <3>3
    <3>6. \A b : b \in B <=> \E k \in 1..Len(X) : X[k].type = "call_done" /\ b = X[k].body
      BY <3>4
    <3>7. ASSUME NEW b, b \in G PROVE b \in B
      <4>1. \E k \in 1..Len(gs) : gs[k].type = "call_done" /\ b = gs[k].body BY <3>5, <3>7
      <4>2. \E k \in 1..Len(X) : X[k].type = "call_done" /\ b = X[k].body BY <3>1, <4>1
      <4> QED BY <3>6, <4>2
    <3>9. ASSUME NEW b, b \in B PROVE b \in G
      <4>1. \E k \in 1..Len(X) : X[k].type = "call_done" /\ b = X[k].body BY <3>6, <3>9
      <4>2. \E k \in 1..Len(gs) : gs[k].type = "call_done" /\ b = gs[k].body BY <3>2, <4>1
      <4> QED BY <3>5, <4>2
    <3>8. G = B BY <3>7, <3>9
    <3> QED BY <3>3, <3>4, <3>8
  <2> QED BY <1>18, <2>3
<1>20. Structured => Words(h) \in Objects /\ r = "stop" BY <1>1
<1>21. ASSUME HeadersFirst(ts) PROVE Regular(gs) /\ EachClosed(gs)
  <2>1. InOrder(es, p) BY <1>1, <1>16, <1>21 DEF Follows
  <2>2. \A k \in 1..Len(es) : es[k].type \notin Closed BY <1>1, <1>11 DEF CloseTypes, Closed
  <2>3. Listed(es, OpenAts(p), p.next) /\ Apart(p) BY <2>1, <2>2, InOrderIs
  <2>4. PICK A : A = OpenAts(p) OBVIOUS
  <2>5. PICK n \in Nat : n = p.next BY <1>1, OpenAtsAre
  <2>6. A \subseteq Nat BY <1>1, <2>4, OpenAtsAre
  <2>7. p \in Encoders /\ es \in Seq(Messages) BY <1>1
  <2>8. CloseEach(X, A) BY <1>2, <2>3, <2>4, <2>7, ClosingsClose
  <2>9. Listed(es, A, n) BY <2>3, <2>4, <2>5
  <2>10. Regular(fs) BY <1>4, <2>6, <2>7, <2>8, <2>9, ClosesAll
  <2>11. EachClosed(fs) BY <1>4, <2>6, <2>7, <2>8, <2>9, ClosesAll
  <2>12. m.type \in Endings BY <1>3 DEF Endings
  <2>13. ~IsItem(m) BY <2>12 DEF IsItem
  <2>14. Regular(gs) BY <1>7, <2>10, <2>12, RegularAside
  <2>15. EachClosed(gs) BY <1>7, <2>11, <2>13, ClosesAside
  <2> QED BY <2>14, <2>15
<1>22. PICK g : g = Append(h, Completed(r, w)) OBVIOUS
<1>23. Succeeded(g, gs, q)
  <2>1. request.api # "chat" OBVIOUS
  <2>2. \A k \in 1..Len(gs) : gs[k].type \in Success =>
          /\ gs[k].body = r
          /\ request.api = "responses" => (gs[k].type = "incomplete" <=> r = "length")
    BY <1>14
  <2>3. \A k \in 1..Len(gs) :
          gs[k].type \in {"text_done", "part_done", "message_done"} => gs[k].body = Words(h)
    BY <1>14
  <2>4. {gs[k].body : k \in {j \in 1..Len(gs) : gs[j].type = "call_done"}} = Calls(Parts(h))
    BY <1>16, <1>19
  <2>5. HeadersFirst(Parts(h)) => Regular(gs) /\ EachClosed(gs) BY <1>16, <1>21
  <2>6. h \in Seq(Outputs) /\ r \in Finishes BY <1>1
  <2> QED BY <1>8, <1>9, <1>15, <1>20, <1>22, <2>1, <2>2, <2>3, <2>4, <2>5, <2>6
       DEF Succeeded, EachClosed
<1> QED BY <1>6, <1>7, <1>8, <1>22, <1>23

LEMMA ResponsesFail ==
  ASSUME request.api = "responses", NEW h, NEW es, NEW p, NEW ch, Speaks(h, es, p, ch),
         p.queue = <<>>, NEW x \in Reports, x.type # "text",
         NEW q, q = Terminated(p, <<Event("failed", 0, "none")>>)
  PROVE  Apologised(Append(h, x), es \o q.queue, q)
<1>1. p \in Encoders BY DEF Speaks
<1>2. PICK m : m = Event("failed", 0, "none") OBVIOUS
<1>3. m \in Messages /\ m.type = "failed" BY <1>2, EventIs, BodiesAre DEF Markers
<1>4. PICK fs : fs = <<m>> OBVIOUS
<1>5. fs \in Seq(Messages) /\ \A k \in 1..Len(fs) : fs[k].type \in {"failed", "done"}
  <2>1. fs \in Seq(Messages) /\ Len(fs) = 1 /\ fs[1] = m BY <1>3, <1>4
  <2>2. \A k \in 1..Len(fs) : k = 1 BY <2>1
  <2> QED BY <1>3, <2>1, <2>2
<1>6. q = Terminated(p, fs) BY <1>2, <1>4
<1>7. q \in Encoders /\ q.terminal /\ q.queue = p.queue \o fs BY <1>1, <1>5, <1>6, EncodersEnd
<1>8. p.queue \o fs = fs BY <1>5, ConcatNothing
<1>9. Apologised(Append(h, x), es \o fs, q)
  <2>1. request.api = "responses" => \E n \in Messages : n.type = "failed" /\ fs = <<n>>
    BY <1>3, <1>4
  <2>2. q \in Encoders /\ q.terminal BY <1>7
  <2> QED BY <1>5, <2>1, <2>2, Apologises
<1> QED BY <1>7, <1>8, <1>9

\* Reasoning leaves a Responses stream as it is.
LEMMA ResponsesAside ==
  ASSUME request.api = "responses", NEW h, NEW es, NEW p, NEW ch, Speaks(h, es, p, ch),
         p.queue = <<>>, NEW x \in Outputs, x.type \notin {"text", "tool"}
  PROVE  Speaks(Append(h, x), es \o p.queue, p, ch)
<1>1. /\ p \in Encoders /\ ~p.terminal /\ h \in Seq(Outputs) /\ es \in Seq(Messages)
      /\ \A k \in 1..Len(es) : es[k].type \notin CloseTypes \cup Lasts
      /\ TextOf(es) = Words(h)
      /\ Structured => ch = Words(h) /\ Parts(h) = <<>>
      /\ Follows(h, es, p)
  BY SpeaksIs
<1>2. PICK g : g = Append(h, x) OBVIOUS
<1>3. x \in Reports BY OutputsAreReports
<1>4. g \in Seq(Outputs) BY <1>1, <1>2
<1>5. Words(g) = Words(h) /\ Parts(g) = Parts(h) BY <1>1, <1>2, <1>3, PassedMore
<1>6. Follows(g, es, p) BY <1>1, <1>5 DEF Follows
<1>7. Speaks(g, es, p, ch) BY <1>1, <1>4, <1>5, <1>6, SpeaksIs
<1>8. es \o p.queue = es BY <1>1, ConcatNothing
<1> QED BY <1>2, <1>7, <1>8

LEMMA ResponsesPass ==
  ASSUME request.api = "responses", NEW h, NEW es, NEW p,
         Speaks(h, es, p, checked), p.queue = <<>>,
         NEW x \in Reports, NEW e, e = Checked(x), NEW q, q = Responses(p, e)
  PROVE  Passed(Append(h, x), es \o q.queue, q, ChecksOn(e))
<1>1. CASE x.type = "text"
  <2>1. e = x /\ x.text \in Seq(Chars) BY <1>1, CheckedIs, ReportsAre
  <2>2. q = ResponsesText(p, x.text) BY <1>1, <2>1 DEF Responses
  <2>3. Structured => ChecksOn(e) = checked \o x.text BY <1>1, <2>1 DEF ChecksOn
  <2>4. Speaks(Append(h, x), es \o q.queue, q, ChecksOn(e)) BY <1>1, <2>2, <2>3, TextSpeaks
  <2> QED BY <2>4 DEF Passed
<1>2. CASE x.type = "tool" /\ ~Structured
  <2>1. e = x BY <1>2, CheckedIs
  <2>2. q = ResponsesTool(p, x.tool) BY <1>2, <2>1 DEF Responses
  <2>3. Speaks(Append(h, x), es \o q.queue, q, ChecksOn(e)) BY <1>2, <2>2, ToolSpeaks
  <2> QED BY <2>3 DEF Passed
<1>3. CASE x.type \in {"thought", "thought_ends"}
  <2>1. e = x /\ x \in Outputs BY <1>3, CheckedIs, ReportsAre
  <2>2. ChecksOn(e) = checked BY <1>3, <2>1 DEF ChecksOn
  <2>3. q = p BY <1>3, <2>1 DEF Responses
  <2>4. Speaks(Append(h, x), es \o p.queue, p, checked) BY <1>3, <2>1, ResponsesAside
  <2> QED BY <2>2, <2>3, <2>4 DEF Passed
<1>4. CASE e = Failed /\ x.type # "text"
  <2>1. e.type = "failed" /\ e.finish = "none" BY <1>4, CheckedIs
  <2>2. q = Terminated(p, <<Event("failed", 0, "none")>>)
    BY <2>1 DEF Responses
  <2>3. Apologised(Append(h, x), es \o q.queue, q) BY <1>4, <2>2, ResponsesFail
  <2> QED BY <2>3 DEF Passed
<1>5. CASE x.type = "completed" /\ e = x
  <2>1. PICK r \in Finishes, w \in BOOLEAN : x = Completed(r, w) BY <1>5, ReportsAre
  <2>2. e.type = "completed" /\ e.finish = r BY <1>5, <2>1 DEF Completed
  <2>3. Structured => r = "stop" /\ checked \in Objects
    <3>1. Structured => e # Failed BY <1>5, CheckedIs
    <3> QED BY <1>5, <2>2, <3>1, CheckedIs
  <2>4. q = Terminated(p, Closings(p) \o Finale(r))
    <3>1. q = [ResponsesComplete(p, r) EXCEPT !.terminal = TRUE] BY <2>2 DEF Responses
    <3>2. ResponsesComplete(p, r) = Pushed(p, MessageEnds(p) \o CallEnds(p) \o Finale(r))
      BY CompletePushes
    <3> QED BY <3>1, <3>2 DEF Terminated, Closings
  <2>5. Succeeded(Append(h, x), es \o q.queue, q) BY <2>1, <2>3, <2>4, ResponsesSucceed
  <2> QED BY <2>5 DEF Passed
<1>6. x.type = "failed" => e = Failed BY CheckedIs, ReportsAre
<1>7. x.type = "completed" => e = Failed \/ e = x BY CheckedIs
<1>8. x.type = "tool" /\ Structured => e = Failed BY CheckedIs
<1>9. x.type \in {"text", "tool", "thought", "thought_ends", "failed", "completed"} BY ReportsAre
<1> QED BY <1>1, <1>2, <1>3, <1>4, <1>5, <1>6, <1>7, <1>8, <1>9

\* Each event of the decoder, once passed on, leaves the encoder in order.
LEMMA EncodePasses ==
  ASSUME request \in Requests, NEW h, NEW es, NEW p,
         Speaks(h, es, p, checked), p.queue = <<>>,
         NEW x \in Reports, NEW e, e = Checked(x), NEW q, q = Encode(p, e)
  PROVE  Passed(Append(h, x), es \o q.queue, q, ChecksOn(e))
<1>1. CASE request.api = "responses"
  <2>1. q = Responses(p, e) BY <1>1 DEF Encode
  <2> QED BY <1>1, <2>1, ResponsesPass
<1>2. CASE request.api = "chat"
  <2>1. q = Chat(p, e) BY <1>2 DEF Encode
  <2> QED BY <1>2, <2>1, ChatPasses
<1>3. CASE request.api = "completions"
  <2>1. q = Completions(p, e) BY <1>3 DEF Encode
  <2> QED BY <1>3, <2>1, CompletionsPass
<1>4. request.api \in {"responses", "chat", "completions"} BY StreamAssumption DEF Apis
<1> QED BY <1>1, <1>2, <1>3, <1>4

-----------------------------------------------------------------------------
(* The opening of a stream.                                                *)

\* Only the queue of the encoder changes.
Requeued(p, q) ==
  /\ q \in Encoders /\ q.text = p.text /\ q.textAt = p.textAt /\ q.calls = p.calls
  /\ q.next = p.next /\ q.terminal = p.terminal

LEMMA SpeaksWith ==
  ASSUME NEW h, NEW es, NEW p, NEW ch, Speaks(h, es, p, ch), NEW q, Requeued(p, q)
  PROVE  Speaks(h, es, q, ch)
<1>1. OpenAts(q) = OpenAts(p) BY DEF OpenAts, Requeued
<1>2. InOrder(es, p) => InOrder(es, q) BY <1>1 DEF InOrder, Requeued
<1> QED BY <1>2 DEF Speaks, Requeued

LEMMA PassedWith ==
  ASSUME NEW h, NEW es, NEW p, NEW ch, Passed(h, es, p, ch), NEW q, Requeued(p, q)
  PROVE  Passed(h, es, q, ch)
<1>1. Speaks(h, es, p, ch) => Speaks(h, es, q, ch) BY SpeaksWith
<1>2. Apologised(h, es, p) => Apologised(h, es, q) BY DEF Apologised, Requeued
<1>3. Succeeded(h, es, p) => Succeeded(h, es, q) BY DEF Succeeded, Requeued
<1> QED BY <1>1, <1>2, <1>3 DEF Passed

\* A message that says nothing and is no item.
LEMMA SpeaksAside ==
  ASSUME request \in Requests, NEW h, NEW es, NEW p, NEW ch, Speaks(h, es, p, ch),
         NEW m \in Messages, m.type \in {"created", "in_progress", "role"},
         request.api = "responses" => m.type # "role"
  PROVE  Speaks(h, Append(es, m), p, ch)
<1>1. /\ p \in Encoders /\ ~p.terminal /\ h \in Seq(Outputs) /\ es \in Seq(Messages)
      /\ \A k \in 1..Len(es) : es[k].type \notin CloseTypes \cup Lasts
      /\ TextOf(es) = Words(h)
      /\ request.api = "chat" => ToolsOf(es) = Parts(h)
      /\ request.api = "completions" => Parts(h) = <<>>
      /\ Structured => ch = Words(h) /\ Parts(h) = <<>>
  BY DEF Speaks
<1>2. PICK fs : fs = Append(es, m) OBVIOUS
<1>3. m.type \notin CloseTypes \cup Lasts BY DEF CloseTypes, Lasts, Endings
<1>4. fs \in Seq(Messages) /\ \A k \in 1..Len(fs) : fs[k].type \notin CloseTypes \cup Lasts
  BY <1>1, <1>2, <1>3, TypesMore
<1>5. TextOf(fs) = TextOf(es) /\ ToolsOf(fs) = ToolsOf(es) BY <1>1, <1>2, SaidMore
<1>6. CASE request.api = "responses"
  <2>1. Follows(h, es, p) BY <1>6, SpeaksIs
  <2>2. ASSUME InOrder(es, p) PROVE InOrder(fs, p)
    <3>1. CloseTypes \cap Closed = Closed BY DEF CloseTypes, Closed
    <3>2. \A k \in 1..Len(es) : es[k].type \notin Closed BY <1>1, <3>1
    <3>3. \A k \in 1..Len(fs) : fs[k].type \notin Closed BY <1>4, <3>1
    <3>4. Listed(es, OpenAts(p), p.next) /\ Apart(p) BY <2>2, <3>2, InOrderIs
    <3>5. m.type \notin Added \cup Closed /\ ~IsItem(m) BY <1>6 DEF Added, Closed, IsItem
    <3>6. PICK n \in Nat : n = p.next BY <1>1, OpenAtsAre
    <3>7. PICK A : A = OpenAts(p) OBVIOUS
    <3>8. A \subseteq Nat BY <1>1, <3>7, OpenAtsAre
    <3>9. Listed(es, A, n) BY <3>4, <3>6, <3>7
    <3>10. es \in Seq(Messages) BY <1>1
    <3>11. Listed(Append(es, m), A, n) BY <3>5, <3>8, <3>9, <3>10, ListedOn
    <3>12. Listed(fs, OpenAts(p), p.next) BY <1>2, <3>6, <3>7, <3>11
    <3> QED BY <3>3, <3>4, <3>12, InOrderIs
  <2>3. Follows(h, fs, p) BY <2>1, <2>2 DEF Follows
  <2>4. TextOf(fs) = Words(h) BY <1>1, <1>5
  <2>5. Speaks(h, fs, p, ch) BY <1>1, <1>4, <1>6, <2>3, <2>4, SpeaksIs
  <2> QED BY <1>2, <2>5
<1>7. CASE request.api # "responses"
  <2>1. Speaks(h, fs, p, ch) BY <1>1, <1>4, <1>5, <1>7 DEF Speaks
  <2> QED BY <1>2, <2>1
<1> QED BY <1>6, <1>7

LEMMA ConcatThree ==
  ASSUME NEW E, NEW s \in Seq(E), NEW t \in Seq(E), NEW u \in Seq(E)
  PROVE  s \o (t \o u) = (s \o t) \o u
<1>1. PICK v \in Seq(E) : v = t \o u BY ConcatType
<1>2. PICK w \in Seq(E) : w = s \o t BY ConcatType
<1>3. s \o v \in Seq(E) /\ w \o u \in Seq(E) BY ConcatType
<1>4. Len(s \o v) = Len(w \o u) BY <1>1, <1>2
<1>5. \A k \in 1..Len(s \o v) : (s \o v)[k] = (w \o u)[k] BY <1>1, <1>2
<1>6. s \o v = w \o u BY <1>3, <1>4, <1>5, SMTT(60)
<1> QED BY <1>1, <1>2, <1>6

LEMMA TwoMore ==
  ASSUME NEW E, NEW s \in Seq(E), NEW e \in E, NEW f \in E
  PROVE  s \o <<e, f>> = Append(Append(s, e), f) /\ <<e, f>> \in Seq(E)
  OBVIOUS

LEMMA OpeningSpeaks ==
  ASSUME request \in Requests, NEW h, NEW es, NEW p, NEW ch, Speaks(h, es, p, ch)
  PROVE  Opening \in Seq(Messages) /\ Speaks(h, es \o Opening, p, ch)
<1>1. es \in Seq(Messages) BY DEF Speaks
<1>2. PICK e, f, g : /\ e = Event("created", 0, <<>>) /\ f = Event("in_progress", 0, <<>>)
                     /\ g = Event("role", 0, <<>>)
  OBVIOUS
<1>3. e \in Messages /\ f \in Messages /\ g \in Messages BY <1>2, EventIs, BodiesAre DEF Markers
<1>4. e.type = "created" /\ f.type = "in_progress" /\ g.type = "role" BY <1>2, EventIs
<1>5. CASE request.api = "responses"
  <2>1. Opening = <<e, f>> BY <1>2, <1>5 DEF Opening
  <2>2. es \o <<e, f>> = Append(Append(es, e), f) /\ <<e, f>> \in Seq(Messages)
    BY <1>1, <1>3, TwoMore
  <2>3. Speaks(h, Append(es, e), p, ch) BY <1>3, <1>4, SpeaksAside
  <2>4. Speaks(h, Append(Append(es, e), f), p, ch) BY <1>3, <1>4, <2>3, SpeaksAside
  <2> QED BY <2>1, <2>2, <2>4
<1>6. CASE request.api = "chat"
  <2>1. Opening = <<g>> BY <1>2, <1>6 DEF Opening
  <2>2. es \o <<g>> = Append(es, g) /\ <<g>> \in Seq(Messages) BY <1>1, <1>3, ConcatOne
  <2>3. Speaks(h, Append(es, g), p, ch) BY <1>3, <1>4, <1>6, SpeaksAside
  <2> QED BY <2>1, <2>2, <2>3
<1>7. CASE request.api = "completions"
  <2>1. Opening = <<>> BY <1>7 DEF Opening
  <2>2. es \o <<>> = es /\ <<>> \in Seq(Messages) BY <1>1, ConcatNothing
  <2> QED BY <2>1, <2>2
<1>8. request.api \in {"responses", "chat", "completions"} BY StreamAssumption DEF Apis
<1> QED BY <1>5, <1>6, <1>7, <1>8

-----------------------------------------------------------------------------
(* The inductive invariant.                                                *)

\* What the decoder reported so far, that the frames it read allow, the encoder
\* has passed on.
ChainOf(h) ==
  /\ Decoded(h, dec, sent)
  /\ got \in Seq(Messages)
  /\ Passed(h, got \o pub.queue, pub, checked)

Chain ==
  /\ request \in Requests
  /\ sent \in Seq(Sendable)
  /\ client = "waiting" => ~pub.terminal
  /\ ~Filtered => \E h \in Seq(Reports) : ChainOf(h)

LEMMA ChainNext ==
  ASSUME request' = request, NEW h
  PROVE  /\ Sendable' = Sendable /\ Filtered' = Filtered /\ Structured' = Structured
         /\ ChainOf(h)' <=> /\ Decoded(h, dec', sent') /\ got' \in Seq(Messages)
                            /\ Passed(h, got' \o pub'.queue, pub', checked')
<1>1. Sendable' = Sendable /\ Filtered' = Filtered /\ Structured' = Structured
  BY DEF Sendable, Filtered, Structured
<1>2. Decoded(h, dec, sent)' <=> Decoded(h, dec', sent')
  BY DEF Decoded, Runs, Broke, Concluded, Said, Ending, Unended
<1>3. Passed(h, got \o pub.queue, pub, checked)' <=> Passed(h, got' \o pub'.queue, pub', checked')
  BY DEF Passed, Speaks, Apologised, Succeeded, Structured
<1>5. Messages' = Messages BY DEF Messages, Bodies
<1>4. ChainOf(h)' <=> /\ Decoded(h, dec, sent)' /\ (got \in Seq(Messages))'
                      /\ Passed(h, got \o pub.queue, pub, checked)'
  BY DEF ChainOf
<1> QED BY <1>1, <1>2, <1>3, <1>4, <1>5

LEMMA PassedIs ==
  ASSUME NEW h, NEW es, NEW p, NEW ch, Passed(h, es, p, ch)
  PROVE  p \in Encoders /\ p.queue \in Seq(Messages) /\ (~p.terminal => Speaks(h, es, p, ch))
<1>1. p \in Encoders /\ (~p.terminal => Speaks(h, es, p, ch))
  BY DEF Passed, Speaks, Apologised, Succeeded
<1>2. p.queue \in Seq(Messages) BY <1>1 DEF Encoders
<1> QED BY <1>1, <1>2

LEMMA InitChain == Init => Chain
<1> SUFFICES ASSUME Init PROVE Chain OBVIOUS
<1>1. /\ request \in Requests /\ sent = <<>> /\ checked = <<>> /\ got = <<>> /\ client = "waiting"
      /\ pub.queue = <<>> /\ pub.text = <<>> /\ pub.textAt = <<>> /\ pub.next = 0 /\ ~pub.terminal
      /\ \A i \in Indexes : pub.calls[i] = NoItem
  BY DEF Init
<1>2. \A E : <<>> \in Seq(E) /\ Len(<<>>) = 0 OBVIOUS
<1>3. pub \in Encoders BY <1>2 DEF Init, Encoders, NoItem
<1>4. Unended(<<>>) BY <1>2 DEF Unended
<1>5. /\ AllText(<<>>) = <<>> /\ AllTools(<<>>) = <<>> /\ LastReason(<<>>) = "none"
      /\ Words(<<>>) = <<>> /\ Parts(<<>>) = <<>> /\ TextOf(<<>>) = <<>> /\ ToolsOf(<<>>) = <<>>
      /\ Called(<<>>) = {}
  BY <1>1, AllTextIs, AllToolsAre, LastReasonIs, WordsAre, PartsAre, TextOfIs, ToolsOfAre, CalledIs
<1>6. \A i \in Indexes : HeaderOf(i, <<>>) = NoHeader /\ ArgsOf(i, <<>>) = <<>>
  BY HeaderOfIs, ArgsOfIs
<1>7. Decoded(<<>>, dec, sent)
  <2>5. NoCall \in [seen : BOOLEAN, header : Headers \cup {NoHeader}, args : Seq(Chars)]
    BY <1>2 DEF NoCall
  <2>6. PICK calls : calls = [i \in Indexes |-> NoCall] OBVIOUS
  <2>7. calls \in [Indexes -> [seen : BOOLEAN, header : Headers \cup {NoHeader}, args : Seq(Chars)]]
    BY <2>5, <2>6
  <2>8. "none" \in Constraints BY DEF Constraints
  <2>9. dec = [queued |-> <<>>, finish |-> "none", finished |-> FALSE, usage |-> FALSE,
               calls |-> calls, thinking |-> FALSE, constraint |-> "none", filter |-> [closed |-> FALSE, pending |-> <<>>]]
    BY <2>6 DEF Init
  <2>1. dec \in Decoders BY <1>2, <2>7, <2>8, <2>9 DEF Decoders
  <2>2. /\ ~dec.finished /\ dec.queued = <<>> /\ dec.finish = "none" /\ dec.constraint = "none"
        /\ \A i \in Indexes : dec.calls[i] = NoCall
    BY DEF Init
  <2>3. <<>> \o <<>> = <<>> BY <1>2, ConcatNothing
  <2>4. Runs(<<>>, dec, <<>>, <<>>, "none", Observed(<<>>))
    <3>1. \A i \in Indexes : (i \in Called(<<>>)) = FALSE BY <1>5
    <3>2. \A i \in Indexes :
            dec.calls[i] = [seen |-> i \in Called(<<>>), header |-> HeaderOf(i, <<>>), args |-> ArgsOf(i, <<>>)]
      BY <1>6, <2>2, <3>1 DEF NoCall
    <3>3. <<>> \o dec.queued = <<>> BY <2>2, <2>3
    <3>4. <<>> \in Seq(Outputs) BY <1>2
    <3> QED BY <1>5, <2>1, <2>2, <3>2, <3>3, <3>4 DEF Runs
  <2> QED BY <1>1, <1>4, <1>5, <2>4 DEF Decoded
<1>8. Passed(<<>>, got \o pub.queue, pub, checked)
  <2>1. <<>> \o <<>> = <<>> BY <1>2, ConcatNothing
  <2>2. Regular(<<>>) BY <1>2 DEF Regular
  <2>3. OpenAts(pub) = {}
    <3>1. \A n \in Nat : <<>> # <<n>> OBVIOUS
    <3>2. \A i \in Indexes : ~pub.calls[i].seen BY <1>1 DEF NoItem
    <3> QED BY <1>1, <3>1, <3>2 DEF OpenAts
  <2>4. InOrder(<<>>, pub) BY <1>1, <1>2, <2>2, <2>3 DEF InOrder, NoItem
  <2>5. Speaks(<<>>, <<>>, pub, <<>>)
    BY <1>1, <1>2, <1>3, <1>5, <1>6, <2>4 DEF Speaks, NoItem
  <2> QED BY <1>1, <2>1, <2>5 DEF Passed
<1>9. ChainOf(<<>>) BY <1>1, <1>2, <1>7, <1>8 DEF ChainOf
<1> QED BY <1>1, <1>2, <1>3, <1>9 DEF Chain

LEMMA OpensChain == ASSUME Chain, Opens PROVE Chain'
<1>1. /\ request' = request /\ sent' = sent /\ dec' = dec /\ checked' = checked /\ got' = got
      /\ client = "waiting" /\ client' = "reading" /\ pub' = Pushed(pub, Opening)
  BY DEF Opens
<1>2. ~pub.terminal /\ request \in Requests BY <1>1 DEF Chain
<1>3. Opening \in Seq(Messages)
  <2>1. PICK e, f, g : /\ e = Event("created", 0, <<>>) /\ f = Event("in_progress", 0, <<>>)
                       /\ g = Event("role", 0, <<>>)
    OBVIOUS
  <2>2. e \in Messages /\ f \in Messages /\ g \in Messages BY <2>1, EventIs, BodiesAre DEF Markers
  <2>3. <<e, f>> \in Seq(Messages) /\ <<g>> \in Seq(Messages) /\ <<>> \in Seq(Messages) BY <2>2
  <2>4. request.api \in {"responses", "chat", "completions"} BY <1>2, StreamAssumption DEF Apis
  <2> QED BY <2>1, <2>3, <2>4 DEF Opening
<1>4. PICK q : q = Pushed(pub, Opening) OBVIOUS
<1>7. ASSUME NEW h \in Seq(Reports), ChainOf(h) PROVE ChainOf(h)'
  <2>1. Decoded(h, dec, sent) /\ Passed(h, got \o pub.queue, pub, checked) BY <1>7 DEF ChainOf
  <2>9. got \in Seq(Messages) BY <1>7 DEF ChainOf
  <2>2. Speaks(h, got \o pub.queue, pub, checked) BY <1>2, <2>1, PassedIs
  <2>10. pub \in Encoders /\ pub.queue \in Seq(Messages) BY <2>1, PassedIs
  <2>11. q \in Encoders /\ q.queue = pub.queue \o Opening BY <1>3, <1>4, <2>10, EncodersPush
  <2>12. /\ q.text = pub.text /\ q.textAt = pub.textAt /\ q.calls = pub.calls
         /\ q.next = pub.next /\ q.terminal = pub.terminal
    BY <1>3, <1>4, <2>10, EncodersPush
  <2>3. Speaks(h, (got \o pub.queue) \o Opening, pub, checked) BY <1>2, <2>2, OpeningSpeaks
  <2>4. (got \o pub.queue) \o Opening = got \o q.queue
    <3>2. PICK t \in Seq(Messages) : t = pub.queue BY <2>10
    <3>3. got \o (t \o Opening) = (got \o t) \o Opening BY <1>3, <2>9, ConcatThree
    <3> QED BY <2>11, <3>2, <3>3
  <2>5. Requeued(pub, q) BY <2>11, <2>12 DEF Requeued
  <2>6. Speaks(h, got \o q.queue, q, checked) BY <2>3, <2>4, <2>5, SpeaksWith
  <2>7. Passed(h, got \o q.queue, q, checked) BY <2>6 DEF Passed
  <2>8. Decoded(h, dec', sent') /\ Passed(h, got' \o pub'.queue, pub', checked')
    BY <1>1, <1>4, <2>1, <2>7
  <2> QED BY <1>1, <2>8, <2>9, ChainNext
<1>8. Sendable' = Sendable /\ Filtered' = Filtered BY <1>1, ChainNext
<1>9. ~Filtered' => \E h \in Seq(Reports) : ChainOf(h)' BY <1>7, <1>8 DEF Chain
<1> QED BY <1>1, <1>8, <1>9 DEF Chain

LEMMA ReceiveChain == ASSUME Chain, Receive PROVE Chain'
<1>1. /\ request' = request /\ checked' = checked /\ got' = got /\ client' = client /\ pub' = pub
  BY DEF Receive
<1>2. PICK n \in 1..MaxChunk : \E fs \in [1..n -> Frames[request.engine]] :
        sent' = sent \o fs /\ dec' = DecodeAll(dec, fs)
  BY DEF Receive
<1>3. PICK fs \in [1..n -> Sendable] : sent' = sent \o fs /\ dec' = DecodeAll(dec, fs)
  BY <1>2 DEF Sendable
<1>4. n \in Nat BY StreamAssumption
<1>5. sent' \in Seq(Sendable)
  <2>1. fs \in Seq(Sendable) BY <1>4, FunctionIsSeq
  <2>2. sent \in Seq(Sendable) BY DEF Chain
  <2>3. sent \o fs \in Seq(Sendable) BY <2>1, <2>2, ConcatType
  <2> QED BY <1>3, <2>3
<1>6. ASSUME ~Filtered, NEW h \in Seq(Reports), ChainOf(h) PROVE ChainOf(h)'
  <2>1. Decoded(h, dec, sent) /\ Passed(h, got \o pub.queue, pub, checked) BY <1>6 DEF ChainOf
  <2>2. sent \in Seq(Sendable) /\ request \in Requests BY DEF Chain
  <2>3. Decoded(h, DecodeAll(dec, fs), sent \o fs) BY <1>4, <1>6, <2>1, <2>2, ReadDecodes
  <2>4. Decoded(h, dec', sent') /\ Passed(h, got' \o pub'.queue, pub', checked')
    BY <1>1, <1>3, <2>1, <2>3
  <2>5. got' \in Seq(Messages) BY <1>1, <1>6 DEF ChainOf
  <2> QED BY <1>1, <2>4, <2>5, ChainNext
<1>7. Sendable' = Sendable /\ Filtered' = Filtered BY <1>1, ChainNext
<1>8. ~Filtered' => \E h \in Seq(Reports) : ChainOf(h)' BY <1>6, <1>7 DEF Chain
<1> QED BY <1>1, <1>5, <1>7, <1>8 DEF Chain

LEMMA SourceFailsChain == ASSUME Chain, SourceFails PROVE Chain'
<1>1. /\ request' = request /\ checked' = checked /\ got' = got /\ client' = client /\ pub' = pub
      /\ sent' = sent /\ dec' = Fail(dec) /\ ~dec.finished
  BY DEF SourceFails, Pulls
<1>2. ASSUME NEW h \in Seq(Reports), ChainOf(h) PROVE ChainOf(h)'
  <2>1. Decoded(h, dec, sent) /\ Passed(h, got \o pub.queue, pub, checked) BY <1>2 DEF ChainOf
  <2>2. sent \in Seq(Sendable) /\ request \in Requests BY DEF Chain
  <2>3. Decoded(h, Fail(dec), sent) BY <1>1, <2>1, <2>2, FailDecodes
  <2>4. Decoded(h, dec', sent') /\ Passed(h, got' \o pub'.queue, pub', checked')
    BY <1>1, <2>1, <2>3
  <2>5. got' \in Seq(Messages) BY <1>1, <1>2 DEF ChainOf
  <2> QED BY <1>1, <2>4, <2>5, ChainNext
<1>3. Sendable' = Sendable /\ Filtered' = Filtered BY <1>1, ChainNext
<1>4. ~Filtered' => \E h \in Seq(Reports) : ChainOf(h)' BY <1>2, <1>3 DEF Chain
<1> QED BY <1>1, <1>3, <1>4 DEF Chain

LEMMA TakeChain == ASSUME Chain, Take PROVE Chain'
<1>1. PICK x : x = Head(dec.queued) OBVIOUS
<1>2. PICK e : e = Checked(x) OBVIOUS
<1>3. PICK q : q = Encode(pub, e) OBVIOUS
<1>4. PICK c : c = [dec EXCEPT !.queued = Tail(@)] OBVIOUS
<1>5. /\ request' = request /\ sent' = sent /\ client' = client /\ got' = got
      /\ client = "reading" /\ pub.queue = <<>> /\ ~pub.terminal /\ dec.queued # <<>>
      /\ pub' = q /\ dec' = c /\ checked' = ChecksOn(e)
  BY <1>1, <1>2, <1>3, <1>4 DEF Take, ChecksOn
<1>6. request \in Requests BY DEF Chain
<1>7. ASSUME NEW h \in Seq(Reports), ChainOf(h)
      PROVE  \E g \in Seq(Reports) : ChainOf(g)'
  <2>1. Decoded(h, dec, sent) /\ Passed(h, got \o pub.queue, pub, checked) BY <1>7 DEF ChainOf
  <2>2. got \in Seq(Messages) BY <1>7 DEF ChainOf
  <2>3. x \in Reports BY <1>1, <1>4, <1>5, <2>1, TakenDecodes
  <2>4. Decoded(Append(h, x), c, sent) BY <1>1, <1>4, <1>5, <2>1, TakenDecodes
  <2>11. Append(h, x) \in Seq(Reports) BY <1>1, <1>4, <1>5, <2>1, TakenDecodes
  <2>5. PICK g \in Seq(Reports) : g = Append(h, x) BY <2>11
  <2>6. Speaks(h, got, pub, checked)
    <3>1. got \o pub.queue = got BY <1>5, <2>2, ConcatNothing
    <3>2. Passed(h, got, pub, checked) BY <2>1, <3>1
    <3> QED BY <1>5, <3>2, PassedIs
  <2>7. pub.queue = <<>> BY <1>5
  <2>8. Passed(Append(h, x), got \o q.queue, q, ChecksOn(e))
    BY <1>2, <1>3, <1>6, <2>3, <2>6, <2>7, EncodePasses
  <2>9. Decoded(g, dec', sent') /\ got' \in Seq(Messages) /\ Passed(g, got' \o pub'.queue, pub', checked')
    BY <1>5, <2>2, <2>4, <2>5, <2>8
  <2>10. ChainOf(g)' BY <1>5, <2>9, ChainNext
  <2> QED BY <2>10
<1>8. Sendable' = Sendable /\ Filtered' = Filtered BY <1>5, ChainNext
<1>9. ~Filtered' => \E h \in Seq(Reports) : ChainOf(h)' BY <1>7, <1>8 DEF Chain
<1>10. sent' \in Seq(Sendable') BY <1>5, <1>8 DEF Chain
<1>11. client' = "waiting" => ~pub'.terminal BY <1>5
<1> QED BY <1>5, <1>6, <1>9, <1>10, <1>11 DEF Chain

LEMMA DeliverChain == ASSUME Chain, Deliver PROVE Chain'
<1>1. PICK q : q = [pub EXCEPT !.queue = Tail(@)] OBVIOUS
<1>2. /\ request' = request /\ sent' = sent /\ client' = client /\ dec' = dec /\ checked' = checked
      /\ client = "reading" /\ pub.queue # <<>> /\ got' = Append(got, Head(pub.queue)) /\ pub' = q
  BY <1>1 DEF Deliver
<1>3. ASSUME NEW h \in Seq(Reports), ChainOf(h) PROVE ChainOf(h)'
  <2>1. Decoded(h, dec, sent) /\ Passed(h, got \o pub.queue, pub, checked) BY <1>3 DEF ChainOf
  <2>2. got \in Seq(Messages) BY <1>3 DEF ChainOf
  <2>3. pub \in Encoders /\ pub.queue \in Seq(Messages) BY <2>1, PassedIs
  <2>4. PICK t \in Seq(Messages) : t = pub.queue BY <2>3
  <2>5. PICK m \in Messages : m = Head(t) BY <1>2, <2>4
  <2>15. Tail(t) \in Seq(Messages)
    <3>1. t # <<>> BY <1>2, <2>4
    <3> QED BY <3>1
  <2>6. PICK u \in Seq(Messages) : u = Tail(t) BY <2>15
  <2>7. t = <<m>> \o u BY <1>2, <2>4, <2>5, <2>6
  <2>8. Append(got, m) \in Seq(Messages) /\ Append(got, m) \o u = got \o t
    <3>1. <<m>> \in Seq(Messages) /\ got \o <<m>> = Append(got, m) BY <2>2, ConcatOne
    <3>2. got \o (<<m>> \o u) = (got \o <<m>>) \o u BY <2>2, <3>1, ConcatThree
    <3>3. Append(got, m) \in Seq(Messages) BY <2>2
    <3> QED BY <2>7, <3>1, <3>2, <3>3
  <2>9. q = [pub EXCEPT !.queue = u] BY <1>1, <2>4, <2>6
  <2>10. Requeued(pub, q) /\ q.queue = u BY <2>3, <2>9 DEF Requeued, Encoders
  <2>11. Passed(h, got \o pub.queue, q, checked) BY <2>1, <2>10, PassedWith
  <2>12. got' = Append(got, m) BY <1>2, <2>4, <2>5
  <2>13. got' \o pub'.queue = got \o pub.queue BY <1>2, <2>4, <2>8, <2>10, <2>12
  <2>14. Decoded(h, dec', sent') /\ got' \in Seq(Messages) /\ Passed(h, got' \o pub'.queue, pub', checked')
    BY <1>2, <2>1, <2>8, <2>11, <2>12, <2>13
  <2> QED BY <1>2, <2>14, ChainNext
<1>4. Sendable' = Sendable /\ Filtered' = Filtered BY <1>2, ChainNext
<1>5. ~Filtered' => \E h \in Seq(Reports) : ChainOf(h)' BY <1>3, <1>4 DEF Chain
<1>6. client' # "waiting" BY <1>2
<1> QED BY <1>2, <1>4, <1>5, <1>6 DEF Chain

LEMMA StillChain ==
  ASSUME Chain, UNCHANGED <<request, sent, dec, checked, pub, got>>,
         client' = "waiting" => client = "waiting"
  PROVE  Chain'
<1>1. /\ request' = request /\ sent' = sent /\ dec' = dec /\ checked' = checked /\ pub' = pub
      /\ got' = got
  OBVIOUS
<1>2. ASSUME NEW h \in Seq(Reports), ChainOf(h) PROVE ChainOf(h)'
  <2>1. /\ Decoded(h, dec', sent') /\ got' \in Seq(Messages)
        /\ Passed(h, got' \o pub'.queue, pub', checked')
    BY <1>1, <1>2 DEF ChainOf
  <2> QED BY <1>1, <2>1, ChainNext
<1>3. Sendable' = Sendable /\ Filtered' = Filtered BY <1>1, ChainNext
<1>4. ~Filtered' => \E h \in Seq(Reports) : ChainOf(h)' BY <1>2, <1>3 DEF Chain
<1> QED BY <1>1, <1>3, <1>4 DEF Chain

LEMMA NextChain == ASSUME Chain, [Next]_vars PROVE Chain'
<1>1. CASE Opens BY <1>1, OpensChain
<1>2. CASE OpenFails BY <1>2, StillChain DEF OpenFails
<1>3. CASE Receive BY <1>3, ReceiveChain
<1>4. CASE SourceFails BY <1>4, SourceFailsChain
<1>5. CASE Take BY <1>5, TakeChain
<1>6. CASE Deliver BY <1>6, DeliverChain
<1>7. CASE Ends BY <1>7, StillChain DEF Ends
<1>8. CASE Leaves BY <1>8, StillChain DEF Leaves
<1>9. CASE UNCHANGED vars BY <1>9, StillChain DEF vars
<1>10. Stopped => UNCHANGED vars BY DEF Stopped
<1> QED BY <1>1, <1>2, <1>3, <1>4, <1>5, <1>6, <1>7, <1>8, <1>9, <1>10 DEF Next

LEMMA WordsConcat ==
  ASSUME NEW h \in Seq(Reports), NEW j \in Seq(Reports)
  PROVE  /\ h \o j \in Seq(Reports)
         /\ Words(h \o j) = Words(h) \o Words(j) /\ Parts(h \o j) = Parts(h) \o Parts(j)
<1>1. ASSUME NEW s \in Seq(Reports)
      PROVE  Words(s) = Gather(WordOf, s) /\ Parts(s) = Gather(PartOf, s)
  <2>1. \A k \in 1..Len(s) : s[k] \in Reports OBVIOUS
  <2>2. [k \in 1..Len(s) |-> IF s[k].type = "text" THEN s[k].text ELSE <<>>]
          = [k \in 1..Len(s) |-> WordOf[s[k]]]
    BY <2>1 DEF WordOf
  <2>3. [k \in 1..Len(s) |-> IF s[k].type = "tool" THEN <<s[k].tool>> ELSE <<>>]
          = [k \in 1..Len(s) |-> PartOf[s[k]]]
    BY <2>1 DEF PartOf
  <2> QED BY <2>2, <2>3 DEF Words, Parts, Gather
<1>2. Gather(WordOf, h \o j) = Gather(WordOf, h) \o Gather(WordOf, j)
  BY GatherConcat, WordOfType
<1>3. Gather(PartOf, h \o j) = Gather(PartOf, h) \o Gather(PartOf, j)
  BY GatherConcat, PartOfType
<1>4. PICK f \in Seq(Reports) : f = h \o j BY ConcatType
<1>5. Words(f) = Gather(WordOf, f) /\ Parts(f) = Gather(PartOf, f) BY <1>1
<1>6. Words(h) = Gather(WordOf, h) /\ Parts(h) = Gather(PartOf, h) BY <1>1
<1>7. Words(j) = Gather(WordOf, j) /\ Parts(j) = Gather(PartOf, j) BY <1>1
<1> QED BY <1>2, <1>3, <1>4, <1>5, <1>6, <1>7

LEMMA BeginsTwice ==
  ASSUME NEW E, NEW s \in Seq(E), NEW t \in Seq(E), NEW u \in Seq(E)
  PROVE  Begins(E, s, (s \o t) \o u)
<1>1. s \o (t \o u) = (s \o t) \o u BY ConcatThree
<1>2. t \o u \in Seq(E) BY ConcatType
<1> QED BY <1>1, <1>2 DEF Begins

\* What the decoder reported is a first part of what the frames say.
LEMMA ReportsBegin ==
  ASSUME NEW h \in Seq(Reports), NEW q \in Seq(Reports), NEW e \in Seq(Outputs),
         NEW x \in Reports, x.type \notin {"text", "tool"}, h \o q = e \/ h \o q = Append(e, x),
         NEW text, NEW tools, Begins(Chars, Words(e), text), Begins(Deltas, Parts(e), tools)
  PROVE  Begins(Chars, Words(h), text) /\ Begins(Deltas, Parts(h), tools)
<1>1. PICK u \in Seq(Chars) : text = Words(e) \o u BY DEF Begins
<1>2. PICK v \in Seq(Deltas) : tools = Parts(e) \o v BY DEF Begins
<1>3. Words(h \o q) = Words(h) \o Words(q) /\ Parts(h \o q) = Parts(h) \o Parts(q)
  BY WordsConcat
<1>4. Words(Append(e, x)) = Words(e) /\ Parts(Append(e, x)) = Parts(e) BY PassedMore
<1>5. Words(e) = Words(h) \o Words(q) /\ Parts(e) = Parts(h) \o Parts(q)
  <2>1. CASE h \o q = e BY <1>3, <2>1
  <2>2. CASE h \o q = Append(e, x) BY <1>3, <1>4, <2>2
  <2> QED BY <2>1, <2>2
<1>6. PICK w1, w2 \in Seq(Chars) : w1 = Words(h) /\ w2 = Words(q) BY WordsAre
<1>7. PICK p1, p2 \in Seq(Deltas) : p1 = Parts(h) /\ p2 = Parts(q) BY PartsAre
<1>8. Begins(Chars, w1, (w1 \o w2) \o u) BY BeginsTwice
<1>9. Begins(Deltas, p1, (p1 \o p2) \o v) BY BeginsTwice
<1> QED BY <1>1, <1>2, <1>5, <1>6, <1>7, <1>8, <1>9

LEMMA HeardIsSaid ==
  ASSUME request \in Requests, NEW fs \in Seq(Sendable), NEW h \in Seq(Reports), NEW d, Decoded(h, d, fs)
  PROVE  /\ Begins(Chars, Words(h), AllText(Said(fs)))
         /\ Begins(Deltas, Parts(h), AllTools(Said(fs)))
<1>1. d \in Decoders BY DEF Decoded, Runs, Broke, Concluded
<1>2. PICK q \in Seq(Reports) : q = d.queued BY <1>1 DEF Decoders
<1>3. Failed \in Reports /\ Failed.type \notin {"text", "tool"} BY OutputsAreReports DEF Failed
<1>4. \A e \in Seq(Outputs) : Begins(Chars, Words(e), Words(e)) /\ Begins(Deltas, Parts(e), Parts(e))
  <2> TAKE e \in Seq(Outputs)
  <2>1. e \in Seq(Reports) BY OutputsAreReports
  <2>2. Words(e) \in Seq(Chars) /\ Parts(e) \in Seq(Deltas) BY <2>1, WordsAre, PartsAre
  <2> QED BY <2>2, BeginsIs
<1>5. CASE Unended(fs) /\ Runs(h, d, AllText(fs), AllTools(fs), LastReason(fs), Observed(fs))
  <2>1. Said(fs) = fs
    <3>1. {i \in 1..Len(fs) : Ending(fs[i])} = {} BY <1>5 DEF Unended
    <3> QED BY <3>1 DEF Said
  <2>2. PICK e \in Seq(Outputs) : e = h \o q BY <1>2, <1>5 DEF Runs
  <2>3. Words(e) = AllText(fs) /\ Parts(e) = AllTools(fs) BY <1>2, <1>5, <2>2 DEF Runs
  <2>4. Begins(Chars, Words(e), AllText(Said(fs))) /\ Begins(Deltas, Parts(e), AllTools(Said(fs)))
    BY <1>4, <2>1, <2>3
  <2> QED BY <1>3, <2>2, <2>4, ReportsBegin
<1>6. CASE Broke(h, d, AllText(Said(fs)), AllTools(Said(fs)))
  <2>1. PICK e \in Seq(Outputs) :
          /\ h \o q = Append(e, Failed)
          /\ Begins(Chars, Words(e), AllText(Said(fs)))
          /\ Begins(Deltas, Parts(e), AllTools(Said(fs)))
    BY <1>2, <1>6 DEF Broke
  <2> QED BY <1>3, <2>1, ReportsBegin
<1>7. CASE Concluded(h, d, fs)
  <2>1. PICK e \in Seq(Outputs), r \in Finishes, w \in BOOLEAN :
          /\ h \o q = Append(e, Completed(r, w))
          /\ Words(e) = AllText(Said(fs)) /\ Parts(e) = AllTools(Said(fs))
    BY <1>2, <1>7 DEF Concluded
  <2>2. PICK x \in Reports : x = Completed(r, w) BY OutputsAreReports
  <2>3. x.type \notin {"text", "tool"} BY <2>2 DEF Completed
  <2>4. Begins(Chars, Words(e), AllText(Said(fs))) /\ Begins(Deltas, Parts(e), AllTools(Said(fs)))
    BY <1>4, <2>1
  <2> QED BY <2>1, <2>2, <2>3, <2>4, ReportsBegin
<1> QED BY <1>5, <1>6, <1>7 DEF Decoded

\* What the client has not read yet follows what it has.
Unread == got \o pub.queue

LEMMA UnreadIs ==
  ASSUME NEW h, ChainOf(h)
  PROVE  /\ got \in Seq(Messages) /\ pub.queue \in Seq(Messages) /\ Unread \in Seq(Messages)
         /\ Len(Unread) = Len(got) + Len(pub.queue) /\ Len(got) \in Nat /\ Len(pub.queue) \in Nat
         /\ \A k \in 1..Len(got) : k \in 1..Len(Unread) /\ Unread[k] = got[k]
         /\ \A k \in 1..Len(pub.queue) : Len(got) + k \in 1..Len(Unread) /\ Unread[Len(got) + k] = pub.queue[k]
         /\ Passed(h, Unread, pub, checked) /\ Decoded(h, dec, sent)
<1>1. got \in Seq(Messages) /\ Passed(h, Unread, pub, checked) /\ Decoded(h, dec, sent)
  BY DEF ChainOf, Unread
<1>2. PICK q \in Seq(Messages) : q = pub.queue BY <1>1, PassedIs
<1>3. PICK all \in Seq(Messages) : all = got \o q BY <1>1, ConcatType
<1>4. /\ Len(all) = Len(got) + Len(q) /\ Len(got) \in Nat /\ Len(q) \in Nat
      /\ \A k \in 1..Len(got) : k \in 1..Len(all) /\ all[k] = got[k]
      /\ \A k \in 1..Len(q) : Len(got) + k \in 1..Len(all) /\ all[Len(got) + k] = q[k]
  BY <1>1, <1>3
<1>5. Unread = all BY <1>2, <1>3 DEF Unread
<1> QED BY <1>1, <1>2, <1>4, <1>5

\* A success is the last thing but the usage and [DONE].
LEMMA SuccessIsLast ==
  ASSUME EndInv, NEW h, ChainOf(h), NEW k \in 1..Len(got), got[k].type \in Success
  PROVE  /\ pub.terminal /\ Succeeded(h, Unread, pub)
         /\ \A j \in 1..Len(Unread) : j > k => Unread[j].type \in {"usage", "done"}
<1>1. /\ Len(Unread) \in Nat /\ k \in 1..Len(Unread) /\ Unread[k] = got[k]
      /\ Passed(h, Unread, pub, checked)
  BY UnreadIs
<1>2. Success \subseteq Endings /\ Endings \subseteq Lasts /\ {"usage", "done"} \cap Endings = {}
  BY DEF Success, Endings, Lasts
<1>3. pub.terminal
  <2>1. ~pub.terminal => Plain(Unread) BY DEF EndInv, Unread
  <2> QED BY <1>1, <1>2, <2>1 DEF Plain
<1>4. Final(request.usage, Unread) BY <1>3 DEF EndInv, Unread
<1>5. PICK n \in 1..Len(Unread) :
        /\ \A i \in 1..(n - 1) : Unread[i].type \notin Lasts
        /\ Behind(request.usage, Unread, n)
  BY <1>4 DEF Final
<1>10. \A j \in 1..Len(Unread) : j > n => Unread[j].type \in {"usage", "done"}
  <2> SUFFICES ASSUME NEW j \in 1..Len(Unread), j > n PROVE Unread[j].type \in {"usage", "done"}
    OBVIOUS
  <2>1. j = n + 1 \/ j = n + 2 BY <1>1, <1>5 DEF Behind
  <2> QED BY <1>1, <1>5, <2>1 DEF Behind
<1>6. k = n
  <2>1. k \notin 1..(n - 1) BY <1>1, <1>2, <1>5
  <2>2. ~(k > n) BY <1>1, <1>2, <1>10
  <2> QED BY <1>1, <1>5, <2>1, <2>2
<1>7. \A j \in 1..Len(Unread) : j > k => Unread[j].type \in {"usage", "done"} BY <1>6, <1>10
<1>8. ~Speaks(h, Unread, pub, checked) BY <1>3 DEF Speaks
<1>9. ~Apologised(h, Unread, pub) BY <1>1 DEF Apologised
<1> QED BY <1>1, <1>3, <1>7, <1>8, <1>9 DEF Passed

LEMMA HeadersHeard ==
  ASSUME Chain, NEW h \in Seq(Reports), ChainOf(h), HeadersFirst(AllTools(Said(sent)))
  PROVE  HeadersFirst(Parts(h))
<1>1. request \in Requests /\ sent \in Seq(Sendable) /\ Decoded(h, dec, sent) BY DEF Chain, ChainOf
<1>2. Begins(Deltas, Parts(h), AllTools(Said(sent))) BY <1>1, HeardIsSaid
<1>3. PICK v \in Seq(Deltas) : AllTools(Said(sent)) = Parts(h) \o v BY <1>2 DEF Begins
<1>4. Parts(h) \in Seq(Deltas) BY PartsAre
<1> QED BY <1>3, <1>4, HeadersFirstIs

LEMMA UnreadRegular ==
  ASSUME NEW h, Passed(h, Unread, pub, checked), request.api = "responses",
         HeadersFirst(Parts(h))
  PROVE  Regular(Unread)
<1>1. CASE Speaks(h, Unread, pub, checked) BY <1>1 DEF Speaks, InOrder
<1>2. CASE Apologised(h, Unread, pub) BY <1>2 DEF Apologised
<1>3. CASE Succeeded(h, Unread, pub)
  <2>1. PICK e \in Seq(Outputs), r \in Finishes, w \in BOOLEAN :
          /\ h = Append(e, Completed(r, w))
          /\ HeadersFirst(Parts(e)) => Regular(Unread)
    BY <1>3 DEF Succeeded
  <2>2. PICK x \in Reports : x = Completed(r, w) BY OutputsAreReports
  <2>3. x.type # "tool" BY <2>2 DEF Completed
  <2>4. Parts(h) = Parts(e) BY <2>1, <2>2, <2>3, PassedMore
  <2> QED BY <2>1, <2>4
<1> QED BY <1>1, <1>2, <1>3 DEF Passed

LEMMA ClosedInTime ==
  ASSUME EndInv, NEW h, ChainOf(h), request.api = "responses", HeadersFirst(Parts(h)),
         NEW k \in 1..Len(got), got[k].type \in Success,
         NEW i \in 1..Len(got), IsItem(got[i])
  PROVE  \E j \in 1..Len(got) : IsItem(got[j]) /\ got[j].type \in Closed /\ got[j].at = got[i].at
<1>1. /\ Succeeded(h, Unread, pub)
      /\ \A j \in 1..Len(Unread) : j > k => Unread[j].type \in {"usage", "done"}
  BY SuccessIsLast
<1>2. /\ Len(Unread) \in Nat /\ Len(got) \in Nat
      /\ \A j \in 1..Len(got) : j \in 1..Len(Unread) /\ Unread[j] = got[j]
  BY UnreadIs
<1>3. PICK e \in Seq(Outputs), r \in Finishes, w \in BOOLEAN :
        /\ h = Append(e, Completed(r, w))
        /\ HeadersFirst(Parts(e)) =>
             \A n \in 1..Len(Unread) : IsItem(Unread[n]) =>
               \E j \in 1..Len(Unread) :
                 IsItem(Unread[j]) /\ Unread[j].type \in Closed /\ Unread[j].at = Unread[n].at
  BY <1>1 DEF Succeeded
<1>4. PICK x \in Reports : x = Completed(r, w) BY OutputsAreReports
<1>5. x.type # "tool" BY <1>4 DEF Completed
<1>6. Parts(h) = Parts(e) BY <1>3, <1>4, <1>5, PassedMore
<1>7. PICK j \in 1..Len(Unread) :
        IsItem(Unread[j]) /\ Unread[j].type \in Closed /\ Unread[j].at = got[i].at
  BY <1>2, <1>3, <1>6
<1>8. j \in 1..Len(got)
  <2>1. {"usage", "done"} \cap Closed = {} BY DEF Closed
  <2>2. ~(j > k) BY <1>1, <1>7, <2>1
  <2> QED BY <1>2, <2>2
<1> QED BY <1>2, <1>7, <1>8

LEMMA ItemsOrdered == ASSUME Chain, EndInv PROVE ItemsAreOrdered
<1> SUFFICES ASSUME request.api = "responses", HeadersFirst(AllTools(Said(sent)))
             PROVE  ItemsAreOrdered
  BY DEF ItemsAreOrdered
<1> DEFINE items == {i \in 1..Len(got) : IsItem(got[i])}
<1>1. ~Filtered BY DEF Filtered
<1>2. PICK h \in Seq(Reports) : ChainOf(h) BY <1>1 DEF Chain
<1>3. HeadersFirst(Parts(h)) BY <1>2, HeadersHeard
<1>4. /\ Len(Unread) \in Nat /\ Len(got) \in Nat
      /\ \A j \in 1..Len(got) : j \in 1..Len(Unread) /\ Unread[j] = got[j]
      /\ Passed(h, Unread, pub, checked)
  BY <1>2, UnreadIs
<1>5. Regular(Unread) BY <1>3, <1>4, UnreadRegular
<1>6. ASSUME NEW i \in items
      PROVE  /\ got[i].type \in Added <=> \A j \in 1..(i - 1) \cap items : got[j].at # got[i].at
             /\ \A j \in 1..(i - 1) \cap items : got[j].type \in Closed => got[j].at # got[i].at
  <2>1. i \in 1..Len(got) /\ i \in 1..Len(Unread) /\ Unread[i] = got[i] /\ IsItem(Unread[i])
    BY <1>4
  <2>2. \A j \in 1..(i - 1) : j \in 1..Len(got) /\ Unread[j] = got[j] BY <1>4, <2>1
  <2>3. \A j \in 1..(i - 1) : j \in items <=> IsItem(Unread[j]) BY <2>2
  <2>4. /\ Unread[i].type \in Added
             <=> \A j \in 1..(i - 1) : IsItem(Unread[j]) => Unread[j].at # Unread[i].at
        /\ \A j \in 1..(i - 1) : IsItem(Unread[j]) /\ Unread[j].type \in Closed =>
             Unread[j].at # Unread[i].at
    BY <1>5, <2>1 DEF Regular
  <2> HIDE DEF items
  <2>5. (\A j \in 1..(i - 1) \cap items : got[j].at # got[i].at)
          <=> \A j \in 1..(i - 1) : IsItem(Unread[j]) => Unread[j].at # Unread[i].at
    BY <2>1, <2>2, <2>3
  <2>6. \A j \in 1..(i - 1) \cap items : got[j].type \in Closed => got[j].at # got[i].at
    BY <2>1, <2>2, <2>3, <2>4
  <2> QED BY <2>1, <2>4, <2>5, <2>6
<1>7. ASSUME NEW i \in items, NEW k \in 1..Len(got), got[k].type \in Success
      PROVE  \E j \in items : got[j].type \in Closed /\ got[j].at = got[i].at
  BY <1>2, <1>3, <1>7, ClosedInTime
<1>8. items = {i \in 1..Len(got) : got[i].type \notin Endings \cup {"created", "in_progress"}}
  BY DEF IsItem
<1> HIDE DEF items
<1> QED BY <1>6, <1>7, <1>8 DEF ItemsAreOrdered

LEMMA BeginsPrefix ==
  ASSUME NEW E, NEW s \in Seq(E), NEW text, Begins(E, s, text)
  PROVE  IsPrefix(s, text)
<1>0. PICK u \in Seq(E) : text = s \o u BY DEF Begins
<1>4. s \o u \in Seq(E) OBVIOUS
<1>1. PICK w \in Seq(E) : w = s \o u BY <1>4
<1>2. Len(s) \in Nat /\ Len(w) \in Nat /\ Len(s) <= Len(w) BY <1>1
<1>3. SubSeq(s, 1, Len(s)) = SubSeq(w, 1, Len(s)) BY <1>1, <1>2
<1> QED BY <1>0, <1>1, <1>2, <1>3 DEF IsPrefix

\* What is on its way to the client says what the decoder reported.
LEMMA UnreadText ==
  ASSUME NEW h \in Seq(Reports), Passed(h, Unread, pub, checked)
  PROVE  TextOf(Unread) = Words(h)
<1>1. CASE Speaks(h, Unread, pub, checked) BY <1>1 DEF Speaks
<1>2. CASE Apologised(h, Unread, pub) BY <1>2 DEF Apologised
<1>3. CASE Succeeded(h, Unread, pub)
  <2>1. PICK e \in Seq(Outputs), r \in Finishes, w \in BOOLEAN :
          h = Append(e, Completed(r, w)) /\ TextOf(Unread) = Words(e)
    BY <1>3 DEF Succeeded
  <2>2. PICK x \in Reports : x = Completed(r, w) BY OutputsAreReports
  <2>3. x.type # "text" BY <2>2 DEF Completed
  <2>4. Words(h) = Words(e) BY <2>1, <2>2, <2>3, PassedMore
  <2> QED BY <2>1, <2>4
<1> QED BY <1>1, <1>2, <1>3 DEF Passed

LEMMA TextIsPrefix ==
  ASSUME Chain, ~Filtered
  PROVE  IsPrefix(TextOf(got), SaidText)
<1>1. PICK h \in Seq(Reports) : ChainOf(h) BY DEF Chain
<1>2. /\ got \in Seq(Messages) /\ pub.queue \in Seq(Messages)
      /\ Passed(h, Unread, pub, checked) /\ Decoded(h, dec, sent)
  BY <1>1, UnreadIs
<1>3. TextOf(Unread) = Words(h) BY <1>2, UnreadText
<1>4. TextOf(got \o pub.queue) = TextOf(got) \o TextOf(pub.queue) BY <1>2, TextOfIs
<1>5. TextOf(got) \in Seq(Chars) /\ TextOf(pub.queue) \in Seq(Chars) BY <1>2, TextOfIs
<1>6. PICK s, t \in Seq(Chars) : s = TextOf(got) /\ t = TextOf(pub.queue) BY <1>5
<1>7. Begins(Chars, Words(h), AllText(Said(sent))) BY <1>2, HeardIsSaid DEF Chain
<1>8. PICK w \in Seq(Chars) : AllText(Said(sent)) = Words(h) \o w BY <1>7 DEF Begins
<1>9. SaidText = (s \o t) \o w BY <1>3, <1>4, <1>6, <1>8 DEF SaidText, Unread
<1>10. Begins(Chars, s, (s \o t) \o w) BY BeginsTwice
<1>11. Begins(Chars, s, SaidText) BY <1>9, <1>10
<1>12. IsPrefix(s, SaidText) BY <1>11, BeginsPrefix
<1> QED BY <1>6, <1>12

-----------------------------------------------------------------------------
(* A decoder that completed has reported its end once, and nothing after.  *)

LEMMA ConclusionsAre ==
  ASSUME NEW x \in Conclusions
  PROVE  x \in Reports /\ x \notin Outputs
<1>1. x \in Reports BY DEF Reports
<1>2. x.type \in {"failed", "completed"} BY DEF Conclusions, Failed, Completed
<1> QED BY <1>1, <1>2, ReportsAre

EndsWith(h, e, c) == h = Append(e, c)

LEMMA EndsWithIs ==
  ASSUME NEW e \in Seq(Outputs), NEW c \in Conclusions, NEW q \in Seq(Reports),
         NEW h, EndsWith(h, e, c)
  PROVE  /\ h \o q \notin Seq(Outputs)
         /\ \A f \in Seq(Outputs) : \A x \in Conclusions : EndsWith(h \o q, f, x) => e = f /\ c = x
<1>1. c \in Reports /\ c \notin Outputs BY ConclusionsAre
<1>2. e \in Seq(Reports) BY OutputsAreReports
<1>3. Append(e, c) \in Seq(Reports) BY <1>1, <1>2
<1>4. PICK a \in Seq(Reports) : a = Append(e, c) BY <1>3
<1>5. /\ Len(a) = Len(e) + 1 /\ Len(e) \in Nat /\ a[Len(a)] = c
      /\ \A k \in 1..Len(e) : a[k] = e[k]
  BY <1>2, <1>4
<1>6. PICK b \in Seq(Reports) : b = a \o q BY ConcatType
<1>7. Len(b) = Len(a) + Len(q) /\ Len(q) \in Nat BY <1>6
<1>8. \A k \in 1..Len(a) : b[k] = a[k] BY <1>6
<1>9. b[Len(a)] = c BY <1>5, <1>8
<1>10. b \notin Seq(Outputs)
  <2> SUFFICES ASSUME b \in Seq(Outputs) PROVE FALSE OBVIOUS
  <2>1. b[Len(a)] \in Outputs BY <1>5, <1>7
  <2> QED BY <1>1, <1>9, <2>1
<1>11. ASSUME NEW f \in Seq(Outputs), NEW x \in Conclusions, b = Append(f, x)
       PROVE  e = f /\ c = x
  <2>1. Len(b) = Len(f) + 1 /\ Len(f) \in Nat /\ b[Len(b)] = x BY <1>11
  <2>2. \A k \in 1..Len(f) : b[k] = f[k] BY <1>11
  <2>3. Len(a) \notin 1..Len(f)
    <3> SUFFICES ASSUME Len(a) \in 1..Len(f) PROVE FALSE OBVIOUS
    <3>1. f[Len(a)] \in Outputs OBVIOUS
    <3> QED BY <1>1, <1>9, <2>2, <3>1
  <2>4. Len(a) = Len(b) /\ Len(e) = Len(f) BY <1>5, <1>7, <2>1, <2>3
  <2>5. c = x BY <1>9, <2>1, <2>4
  <2>6. \A k \in 1..Len(e) : e[k] = f[k] BY <1>5, <1>8, <2>2, <2>4
  <2>7. e = f BY <2>4, <2>6
  <2> QED BY <2>5, <2>7
<1>12. h \o q = b BY <1>4, <1>6 DEF EndsWith
<1> QED BY <1>10, <1>11, <1>12 DEF EndsWith

LEMMA Concludes ==
  ASSUME NEW e \in Seq(Outputs), NEW r \in Finishes, NEW w \in BOOLEAN, NEW d, NEW fs,
         Decoded(Append(e, Completed(r, w)), d, fs)
  PROVE  /\ \E i \in 1..Len(fs) : Ending(fs[i])
         /\ \A i \in 1..Len(Said(fs)) : Said(fs)[i].kind = "delta"
         /\ Words(e) = AllText(Said(fs))
         /\ Parts(e) = AllTools(Said(fs))
         /\ r = LastReason(Said(fs))
         /\ request.engine = "llama" => CallsAreSound(Parts(e), r)
         /\ request.engine = "ninfer" /\ request.checked /\ r # "length" =>
              \E i \in 1..Len(Said(fs)) : Said(fs)[i].constraint = "complete"
<1>1. \A s \in Finishes : \A v \in BOOLEAN : Completed(s, v) \in Conclusions BY DEF Conclusions
<1>2. PICK c \in Conclusions : c = Completed(r, w) BY <1>1
<1>3. PICK h : h = Append(e, c) OBVIOUS
<1>4. Decoded(h, d, fs) BY <1>2, <1>3
<1>5. d \in Decoders BY <1>4 DEF Decoded, Runs, Broke, Concluded
<1>6. PICK q \in Seq(Reports) : q = d.queued BY <1>5 DEF Decoders
<1>7. h \o q \notin Seq(Outputs)
  <2>1. EndsWith(h, e, c) BY <1>3 DEF EndsWith
  <2> QED BY <2>1, EndsWithIs
<1>16. \A f \in Seq(Outputs) : \A x \in Conclusions : EndsWith(h \o q, f, x) => e = f /\ c = x
  <2>1. EndsWith(h, e, c) BY <1>3 DEF EndsWith
  <2> QED BY <2>1, EndsWithIs
<1>8. ~Runs(h, d, AllText(fs), AllTools(fs), LastReason(fs), Observed(fs))
  BY <1>6, <1>7 DEF Runs
<1>9. ~Broke(h, d, AllText(Said(fs)), AllTools(Said(fs)))
  <2>1. Failed \in Conclusions BY DEF Conclusions
  <2>2. c # Failed BY <1>2 DEF Completed, Failed
  <2> QED BY <1>6, <1>16, <2>1, <2>2 DEF Broke, EndsWith
<1>10. Concluded(h, d, fs) BY <1>4, <1>8, <1>9 DEF Decoded
<1>11. PICK f \in Seq(Outputs), s \in Finishes, v \in BOOLEAN :
         /\ h \o q = Append(f, Completed(s, v))
         /\ Words(f) = AllText(Said(fs))
         /\ Parts(f) = AllTools(Said(fs))
         /\ s = LastReason(Said(fs))
         /\ request.engine = "llama" => CallsAreSound(Parts(f), s)
         /\ request.engine = "ninfer" /\ request.checked /\ s # "length" =>
              \E i \in 1..Len(Said(fs)) : Said(fs)[i].constraint = "complete"
  BY <1>6, <1>10 DEF Concluded
<1>12. PICK x \in Conclusions : x = Completed(s, v) BY <1>1
<1>13. e = f /\ c = x BY <1>16, <1>11, <1>12 DEF EndsWith
<1>14. r = s BY <1>2, <1>12, <1>13 DEF Completed
<1>15. /\ \E i \in 1..Len(fs) : Ending(fs[i])
       /\ \A i \in 1..Len(Said(fs)) : Said(fs)[i].kind = "delta"
  BY <1>10 DEF Concluded
<1> QED BY <1>11, <1>13, <1>14, <1>15

\* A client that read a success has read everything but the usage and [DONE].
LEMMA AllIsRead ==
  ASSUME EndInv, NEW h, ChainOf(h), NEW k \in 1..Len(got), got[k].type \in Success
  PROVE  /\ TextOf(Unread) = TextOf(got) /\ ToolsOf(Unread) = ToolsOf(got)
         /\ {Unread[j].body : j \in {i \in 1..Len(Unread) : Unread[i].type = "call_done"}}
              = {got[j].body : j \in {i \in 1..Len(got) : got[i].type = "call_done"}}
<1>1. \A j \in 1..Len(Unread) : j > k => Unread[j].type \in {"usage", "done"} BY SuccessIsLast
<1>2. /\ got \in Seq(Messages) /\ pub.queue \in Seq(Messages)
      /\ Len(Unread) = Len(got) + Len(pub.queue) /\ Len(got) \in Nat /\ Len(pub.queue) \in Nat
      /\ \A j \in 1..Len(got) : j \in 1..Len(Unread) /\ Unread[j] = got[j]
      /\ \A j \in 1..Len(pub.queue) : Len(got) + j \in 1..Len(Unread) /\ Unread[Len(got) + j] = pub.queue[j]
  BY UnreadIs
<1>3. \A j \in 1..Len(pub.queue) : pub.queue[j].type \in {"usage", "done"}
  <2> TAKE j \in 1..Len(pub.queue)
  <2>1. Len(got) + j \in 1..Len(Unread) /\ Unread[Len(got) + j] = pub.queue[j] BY <1>2
  <2>2. Len(got) + j > k BY <1>2
  <2> QED BY <1>1, <2>1, <2>2
<1>4. PICK q \in Seq(Messages) : q = pub.queue BY <1>2
<1>5. TextOf(Unread) = TextOf(got)
  <2>1. \A j \in 1..Len(q) : q[j].type # "text_delta" BY <1>3, <1>4
  <2>2. TextOf(q) = <<>> BY <2>1, TextOfIs
  <2>3. TextOf(got \o q) = TextOf(got) \o TextOf(q) BY <1>2, TextOfIs
  <2>4. PICK s \in Seq(Chars) : s = TextOf(got) BY <1>2, TextOfIs
  <2>5. s \o <<>> = s OBVIOUS
  <2> QED BY <1>4, <2>2, <2>3, <2>4, <2>5 DEF Unread
<1>6. ToolsOf(Unread) = ToolsOf(got)
  <2>1. \A j \in 1..Len(q) : q[j].type # "tool_delta" BY <1>3, <1>4
  <2>2. ToolsOf(q) = <<>> BY <2>1, ToolsOfAre
  <2>3. ToolsOf(got \o q) = ToolsOf(got) \o ToolsOf(q) BY <1>2, ToolsOfAre
  <2>4. PICK s \in Seq(Deltas) : s = ToolsOf(got) BY <1>2, ToolsOfAre
  <2>5. s \o <<>> = s OBVIOUS
  <2> QED BY <1>4, <2>2, <2>3, <2>4, <2>5 DEF Unread
<1>7. {i \in 1..Len(Unread) : Unread[i].type = "call_done"}
        = {i \in 1..Len(got) : got[i].type = "call_done"}
  <2>1. ASSUME NEW i \in 1..Len(Unread), Unread[i].type = "call_done" PROVE i \in 1..Len(got)
    <3>1. Unread[i].type \notin {"usage", "done"} BY <2>1
    <3>2. ~(i > k) BY <1>1, <3>1
    <3>3. Len(got) \in Nat /\ Len(Unread) \in Nat BY <1>2
    <3> QED BY <3>2, <3>3
  <2> QED BY <1>2, <2>1
<1>8. \A j \in {i \in 1..Len(got) : got[i].type = "call_done"} : Unread[j].body = got[j].body
  BY <1>2
<1> QED BY <1>5, <1>6, <1>7, <1>8

LEMMA CallsAddUp ==
  ASSUME NEW tools
  PROVE  /\ \A c \in Calls(tools) : c.index \in Called(tools)
              /\ c.header = HeaderOf(c.index, tools) /\ c.args = ArgsOf(c.index, tools)
         /\ (Calls(tools) # {}) <=> (Called(tools) # {})
<1>1. ASSUME NEW c \in Calls(tools)
      PROVE  /\ c.index \in Called(tools)
             /\ c.header = HeaderOf(c.index, tools) /\ c.args = ArgsOf(c.index, tools)
  <2>1. PICK i \in Called(tools) :
          c = [index |-> i, header |-> HeaderOf(i, tools), args |-> ArgsOf(i, tools)]
    BY DEF Calls
  <2> QED BY <2>1
<1>2. \A i \in Called(tools) :
        [index |-> i, header |-> HeaderOf(i, tools), args |-> ArgsOf(i, tools)] \in Calls(tools)
  BY DEF Calls
<1> QED BY <1>1, <1>2

\* What holds of a success the client has read, with the reason it was given.
FaithfulAt(k) ==
  LET reason == got[k].body
  IN  /\ \E i \in 1..Len(sent) : Ending(sent[i])
      /\ \A i \in 1..Len(Said(sent)) : Said(sent)[i].kind = "delta"
      /\ reason # "none" /\ reason = LastReason(Said(sent))
      /\ request.api = "responses" => (got[k].type = "incomplete" <=> reason = "length")
      /\ TextOf(got) = SaidText
      /\ \A j \in 1..Len(got) :
           got[j].type \in {"text_done", "part_done", "message_done"} => got[j].body = SaidText
      /\ GotCalls = Calls(AllTools(Said(sent)))
      /\ request.engine = "llama" =>
           /\ \A c \in GotCalls : c.header # NoHeader /\ c.args \in Objects
           /\ (GotCalls # {}) <=> reason = "tools"
      /\ Structured => TextOf(got) \in Objects /\ reason = "stop"
      /\ request.engine = "ninfer" /\ request.checked /\ reason # "length" =>
           \E i \in 1..Len(Said(sent)) : Said(sent)[i].constraint = "complete"

LEMMA SuccessIsFaithful ==
  ASSUME Chain, EndInv, ~Filtered, NEW k \in 1..Len(got), got[k].type \in Success
  PROVE  FaithfulAt(k)
<1>1. PICK h \in Seq(Reports) : ChainOf(h) BY DEF Chain
<1>2. Succeeded(h, Unread, pub) BY <1>1, SuccessIsLast
<1>3. /\ Len(Unread) \in Nat /\ Len(got) \in Nat
      /\ \A j \in 1..Len(got) : j \in 1..Len(Unread) /\ Unread[j] = got[j]
      /\ Decoded(h, dec, sent)
  BY <1>1, UnreadIs
<1>4. PICK e \in Seq(Outputs), r \in Finishes, w \in BOOLEAN :
        /\ h = Append(e, Completed(r, w))
        /\ \A j \in 1..Len(Unread) : Unread[j].type \in Success =>
             /\ Unread[j].body = r
             /\ request.api = "responses" => (Unread[j].type = "incomplete" <=> r = "length")
        /\ TextOf(Unread) = Words(e)
        /\ \A j \in 1..Len(Unread) :
             Unread[j].type \in {"text_done", "part_done", "message_done"} =>
               Unread[j].body = Words(e)
        /\ request.api = "chat" => ToolsOf(Unread) = Parts(e)
        /\ request.api # "chat" =>
             {Unread[j].body : j \in {i \in 1..Len(Unread) : Unread[i].type = "call_done"}}
               = Calls(Parts(e))
        /\ Structured => Words(e) \in Objects /\ r = "stop"
  BY <1>2 DEF Succeeded
<1>5. Decoded(Append(e, Completed(r, w)), dec, sent) BY <1>3, <1>4
<1>6. /\ \E i \in 1..Len(sent) : Ending(sent[i])
      /\ \A i \in 1..Len(Said(sent)) : Said(sent)[i].kind = "delta"
      /\ Words(e) = AllText(Said(sent))
      /\ Parts(e) = AllTools(Said(sent))
      /\ r = LastReason(Said(sent))
      /\ request.engine = "llama" => CallsAreSound(Parts(e), r)
      /\ request.engine = "ninfer" /\ request.checked /\ r # "length" =>
           \E i \in 1..Len(Said(sent)) : Said(sent)[i].constraint = "complete"
  BY <1>5, Concludes
<1>7. /\ TextOf(Unread) = TextOf(got) /\ ToolsOf(Unread) = ToolsOf(got)
      /\ {Unread[j].body : j \in {i \in 1..Len(Unread) : Unread[i].type = "call_done"}}
           = {got[j].body : j \in {i \in 1..Len(got) : got[i].type = "call_done"}}
  BY <1>1, AllIsRead
<1>8. SaidText = Words(e) BY <1>6 DEF SaidText
<1>9. got[k].body = r /\ (request.api = "responses" => (got[k].type = "incomplete" <=> r = "length"))
  BY <1>3, <1>4
<1>10. r # "none" BY DEF Finishes
<1>11. TextOf(got) = SaidText BY <1>4, <1>7, <1>8
<1>12. \A j \in 1..Len(got) :
         got[j].type \in {"text_done", "part_done", "message_done"} => got[j].body = SaidText
  BY <1>3, <1>4, <1>8
<1>13. GotCalls = Calls(Parts(e))
  <2>1. CASE request.api = "chat" BY <1>4, <1>7, <2>1 DEF GotCalls
  <2>2. CASE request.api # "chat" BY <1>4, <1>7, <2>2 DEF GotCalls
  <2> QED BY <2>1, <2>2
<1>14. request.engine = "llama" =>
         /\ \A c \in GotCalls : c.header # NoHeader /\ c.args \in Objects
         /\ (GotCalls # {}) <=> r = "tools"
  <2> SUFFICES ASSUME request.engine = "llama"
               PROVE  /\ \A c \in GotCalls : c.header # NoHeader /\ c.args \in Objects
                      /\ (GotCalls # {}) <=> r = "tools"
    OBVIOUS
  <2>1. /\ \A i \in Called(Parts(e)) :
             HeaderOf(i, Parts(e)) # NoHeader /\ ArgsOf(i, Parts(e)) \in Objects
        /\ Called(Parts(e)) # {} <=> r = "tools"
    BY <1>6 DEF CallsAreSound
  <2>2. \A c \in Calls(Parts(e)) : c.index \in Called(Parts(e))
          /\ c.header = HeaderOf(c.index, Parts(e)) /\ c.args = ArgsOf(c.index, Parts(e))
    BY CallsAddUp
  <2>3. (Calls(Parts(e)) # {}) <=> (Called(Parts(e)) # {}) BY CallsAddUp
  <2> QED BY <1>13, <2>1, <2>2, <2>3
<1>15. Structured => TextOf(got) \in Objects /\ r = "stop" BY <1>4, <1>7
<1>16. GotCalls = Calls(AllTools(Said(sent))) BY <1>6, <1>13
<1> QED BY <1>6, <1>9, <1>10, <1>11, <1>12, <1>14, <1>15, <1>16 DEF FaithfulAt

LEMMA StreamIsFaithful ==
  ASSUME Chain, EndInv, ~Filtered
  PROVE  CompletedIsFaithful
<1>1. IsPrefix(TextOf(got), SaidText) BY TextIsPrefix
<1>2. \A k \in 1..Len(got) : got[k].type \in Success => FaithfulAt(k) BY SuccessIsFaithful
<1> QED BY <1>1, <1>2 DEF CompletedIsFaithful, FaithfulAt

-----------------------------------------------------------------------------
(* The theorems.                                                           *)

(* For any engines, frames, cuts into reads and indexes of calls: in a Responses
   stream every part, delta and end names an item announced before it and not
   closed yet, no index is announced twice, and a success closes every item, as
   long as a backend names each call before it sends arguments of it. *)
THEOREM ItemsAreInOrder == Spec => []ItemsAreOrdered
<1>1. Chain /\ EndInv => ItemsAreOrdered BY ItemsOrdered
<1>2. Init => Chain /\ EndInv BY InitChain, InitEnd
<1>3. Chain /\ EndInv /\ [Next]_vars => (Chain /\ EndInv)' BY NextChain, NextEnd
<1> QED BY <1>1, <1>2, <1>3, PTL DEF Spec

(* For any engines, frames and cuts into reads, save in q27's raw completions,
   whose markers are taken out of the text: a client only reads text that the
   backend sent, in that order, and a stream that ends in success carries all of
   it, its tool calls and its last reason, and was checked as it had to be. *)
THEOREM SuccessIsWhole == Spec => [](~Filtered => CompletedIsFaithful)
<1>1. Chain /\ EndInv => (~Filtered => CompletedIsFaithful) BY StreamIsFaithful
<1>2. Init => Chain /\ EndInv BY InitChain, InitEnd
<1>3. Chain /\ EndInv /\ [Next]_vars => (Chain /\ EndInv)' BY NextChain, NextEnd
<1> QED BY <1>1, <1>2, <1>3, PTL DEF Spec
=============================================================================
