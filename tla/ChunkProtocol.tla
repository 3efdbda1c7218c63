---------------------------- MODULE ChunkProtocol ----------------------------
(***************************************************************************)
(* What a client of POST /v1/chat/completions may rely on, whatever        *)
(* provider answers: the chunks of a stream come in the order role, deltas,*)
(* one finish, usage; a provider's error frame may cut in anywhere and is  *)
(* the last; nothing comes after the end; and a request is logged once if  *)
(* it was answered, even in part, and not at all if it was refused.        *)
(* ProviderCall implements it.                                             *)
(***************************************************************************)
EXTENDS Integers, Sequences

VARIABLES
    shown,   \* kinds of the chunks the client got
    status,  \* "open", "closed" (answered), "broken" (cut off), "refused"
    rows     \* request-log rows

vars == <<shown, status, rows>>

Kinds == {"role", "text", "tool", "finish", "usage", "error"}

Init == shown = <<>> /\ status = "open" /\ rows = 0

(* What may follow the chunks shown so far. *)
May(kind) ==
    LET last == IF shown = <<>> THEN "none" ELSE shown[Len(shown)] IN
    CASE kind = "role" -> last = "none"
      [] kind \in {"text", "tool", "finish"} -> last \in {"role", "text", "tool"}
      [] kind = "usage" -> last = "finish"
      [] kind = "error" -> last # "error"

Deliver ==
    /\ status = "open"
    /\ \E kind \in Kinds : May(kind) /\ shown' = Append(shown, kind)
    /\ UNCHANGED <<status, rows>>

(* The end of an answer, complete or cut off. *)
End ==
    /\ status = "open"
    /\ status' \in {"closed", "broken"}
    /\ rows' = rows + 1
    /\ UNCHANGED shown

Refuse ==
    /\ status = "open" /\ shown = <<>>
    /\ status' = "refused"
    /\ UNCHANGED <<shown, rows>>

Next == Deliver \/ End \/ Refuse

Spec == Init /\ [][Next]_vars
=============================================================================
