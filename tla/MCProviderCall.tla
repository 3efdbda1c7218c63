--------------------------- MODULE MCProviderCall ---------------------------
EXTENDS ProviderCall

Usage == [in |-> 2, out |-> 4]

(* A text, a tool call in two fragments and one without arguments; a text   *)
(* that was cut short; a filtered answer; one without a usage.              *)
MCAnswers ==
    {[parts |-> <<Text(1), ToolCall("f", <<"a", "b">>), ToolCall("g", <<>>)>>,
      reason |-> "tool_calls", usage |-> Usage],
     [parts |-> <<Text(6), Text(3)>>, reason |-> "length", usage |-> Usage],
     [parts |-> <<Text(2)>>, reason |-> "content_filter", usage |-> Usage],
     [parts |-> <<Text(6)>>, reason |-> "stop", usage |-> NoUsage]}
=============================================================================
