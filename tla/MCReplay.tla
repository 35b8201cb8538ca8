------------------------------ MODULE MCReplay ------------------------------
(* Answers with none to three signed blocks, before, between and after      *)
(* calls, and the searches, texts and cut calls beside them.                *)
EXTENDS Replay

OtherCalls == {-1}

Answers(upstream) ==
    IF upstream = "claude"
    THEN {<<"think", "call">>, <<"think", "redacted", "think", "call">>, <<"think", "call", "redacted", "call">>,
          <<"redacted", "think">>, <<"silent", "call">>, <<"think", "cut">>, <<"open", "call">>,
          <<"think", "failed", "call">>, <<"search", "text">>, <<"search", "call">>}
    ELSE {<<"think", "call">>, <<"think", "silent", "call">>, <<"think", "call", "silent", "call">>,
          <<"silent", "text">>, <<"think", "cut">>, <<"search", "failed", "call">>}
=============================================================================
