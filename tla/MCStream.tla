------------------------------ MODULE MCStream ------------------------------
(* Small instances of Stream: the scripts upstream may follow. *)
EXTENDS Stream

(* Every kind of line, content before and after it, with and without [DONE] and
   after it. *)
MCScripts == {<<"text", "noise", "text", "skip", "finish", "done">>,
              <<"text", "text", "text", "text", "done", "text">>,
              <<"text", "huge", "text", "done">>,
              <<"noise", "text", "finish">>}
=============================================================================
