----------------------------- MODULE MCLibrary -----------------------------
(***************************************************************************)
(* Library with instructions and registrations of every kind, messages     *)
(* that are empty, fit one frame, need several or bring too much, and      *)
(* frame sizes with no limit, below the overhead and above it.             *)
(***************************************************************************)
EXTENDS Library

LongMethodsFew == {"declareQueue", "ack"}
LongChainsFew  == {<<"onSuccess", "onError">>}

WideMethodsFew == {"declareExchange", "declareQueue", "get"}
WideChainsFew  == {<<"onSuccess", "special">>, <<"onError">>, <<"onFinalize">>,
                   <<"special", "onError", "onFinalize">>}

ReceiverMethodsFew == {"onReceived", "onData", "onEmpty"}
=============================================================================
