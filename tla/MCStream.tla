------------------------------ MODULE MCStream ------------------------------
(* A small instance of Stream for TLC: every adapter behind a public API that *)
(* reaches it, with frames that make each of its checks matter.               *)
EXTENDS Stream

CONSTANTS h1, h2, No

MCRequest(engine, api, structured, thoughts, usage) ==
  [engine |-> engine, api |-> api, checked |-> structured, thoughts |-> thoughts,
   usage |-> usage]

MCRequests ==
  {MCRequest("llama", "responses", FALSE, FALSE, FALSE),
   MCRequest("llama", "chat", TRUE, FALSE, TRUE),
   MCRequest("q27", "completions", FALSE, FALSE, TRUE),
   MCRequest("q27", "responses", FALSE, FALSE, FALSE),
   MCRequest("ninfer", "chat", FALSE, TRUE, FALSE),
   MCRequest("ninfer", "responses", TRUE, FALSE, FALSE),
   MCRequest("vllm", "chat", FALSE, FALSE, TRUE),
   MCRequest("vllm_responses", "responses", FALSE, FALSE, FALSE)}

Blank == [kind |-> "delta", text |-> <<>>, says |-> FALSE, tools |-> <<>>, finish |-> "none",
          usage |-> FALSE, thought |-> FALSE, constraint |-> "none"]
Text(t) == [Blank EXCEPT !.text = t, !.says = TRUE]
Tool(i, h, a) == [Blank EXCEPT !.tools = <<[index |-> i, header |-> h, args |-> a]>>]
Finish(r) == [Blank EXCEPT !.finish = r]
LastFrame(r) == [Finish(r) EXCEPT !.usage = TRUE]
DoneFrame == [Blank EXCEPT !.kind = "done"]
BadFrame == [Blank EXCEPT !.kind = "bad"]

MCFrames == [
  llama |-> {Text(<<"{">>), Text(<<"}">>), Tool(0, h1, <<"{">>), Tool(0, No, <<"}">>),
             Tool(1, h2, <<"{", "}">>), Tool(1, h1, <<>>), LastFrame("stop"), Finish("tools"),
             DoneFrame},
  q27 |-> {Text(<<"<">>), Text(<<"/", "t">>), Text(<<"t", "x">>), Text(<<"x", "<">>),
           Tool(0, h1, <<"{">>), LastFrame("stop"), DoneFrame},
  ninfer |-> {[Blank EXCEPT !.thought = TRUE], Text(<<"x">>), Tool(0, h1, <<"{">>),
              [LastFrame("stop") EXCEPT !.constraint = "complete"],
              [Finish("length") EXCEPT !.constraint = "incomplete"], DoneFrame},
  vllm |-> {Text(<<>>), Text(<<"x">>), Text(<<"y">>), Tool(0, h1, <<"{">>), Finish("length"),
            [Blank EXCEPT !.usage = TRUE], Finish("odd"), DoneFrame, BadFrame},
  vllm_responses |-> {Text(<<>>), Text(<<"x">>), Text(<<"y">>), LastFrame("stop"), Finish("length"),
                      DoneFrame}]

MCOpen == <<"<", "t">>
MCClose == <<"<", "/", "t">>
MCObjects == {<<"{", "}">>}
MCIndexes == {0, 1}
MCChars == {"{", "}", "<", "/", "t", "x", "y"}
=============================================================================
