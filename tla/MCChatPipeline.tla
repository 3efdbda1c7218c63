--------------------------- MODULE MCChatPipeline ---------------------------
EXTENDS ChatPipeline, TLC

HandlerSymmetry == Permutations(Handlers)

Say(role, content) == [role |-> role, content |-> content, calls |-> <<>>, id |-> "none"]
Txt(x) == TextPart(<<x>>)

(* Turns to merge around an empty one, two system prompts, an image. *)
Chat == <<Say("system", <<Txt("s")>>), Say("user", <<Txt("a"), DataImage("i")>>),
          Say("assistant", <<>>), Say("user", <<Txt("b")>>), Say("system", <<Txt("t")>>),
          Say("assistant", <<Txt("c")>>), Say("user", <<UrlImage("u")>>)>>

(* Two tool calls answered in the other order, one with bad arguments. *)
ToolChat == <<Say("user", <<Txt("a")>>),
              [Say("assistant", <<Txt("b")>>) EXCEPT
                    !.calls = <<Call("id1", "f", <<"x">>), Call("id2", "g", NotJson)>>],
              [Say("tool", <<Txt("r"), Txt("q")>>) EXCEPT !.id = "id2"],
              [Say("tool", <<Txt("p")>>) EXCEPT !.id = "id1"]>>

Base == [model |-> "al", messages |-> Chat, temperature |-> 0, tuning |-> 1, seed |-> 7,
         format |-> Unset, penalties |-> Unset, vendor |-> Unset,
         max_tokens |-> 5, max_completion_tokens |-> Unset,
         tools |-> {}, tool_choice |-> "unset", bypass |-> FALSE, allowed |-> {}]

(* Requests that differ in what the key has, in what it has not, and in     *)
(* whether they may be cached.                                              *)
MCRequests ==
    {Base,
     [Base EXCEPT !.format = 1, !.vendor = 1],
     [Base EXCEPT !.max_completion_tokens = 9],
     [Base EXCEPT !.max_tokens = Unset, !.max_completion_tokens = 5, !.tool_choice = "none"],
     [Base EXCEPT !.max_tokens = Unset, !.model = "m1"],
     [Base EXCEPT !.bypass = TRUE, !.allowed = {"m2"}],
     [Base EXCEPT !.messages = ToolChat, !.tools = {"f", "g"}, !.tool_choice = "none",
                  !.temperature = 2, !.model = "m2"]}

MCServes == [m1 |-> {"openai", "anthropic"}, m2 |-> {"mistral", "gemini", "cohere"},
             al |-> {"openai"}]
MCModelMax == [m1 |-> 8, m2 |-> Unset, al |-> Unset]
=============================================================================
