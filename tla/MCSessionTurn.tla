---------------------------- MODULE MCSessionTurn ----------------------------
(* Small instances of SessionTurn for TLC. *)
EXTENDS SessionTurn

Call(tool) == [tool |-> tool, rejected |-> FALSE]

(* A text, one tool, a tool beside an end, an end that acknowledges, a wait. *)
MCReplies == {<<>>, <<Call("work")>>, <<Call("work"), Call("end")>>,
              <<Call("acknowledged end")>>, <<Call("wait")>>}

================================================================================
