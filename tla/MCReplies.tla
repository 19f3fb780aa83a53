------------------------------ MODULE MCReplies ------------------------------
(***************************************************************************)
(* The three places where the text of a conversation is cut and put        *)
(* together: the context a request sends, the hold-back of a streamed      *)
(* reply, and the stream of the OpenAI shim.  They share no state, so one  *)
(* at a time moves and the other two keep still.                           *)
(***************************************************************************)
EXTENDS HoldBack, ContextWindow, StreamShim

VARIABLE part

HoldAtRest == HoldInit /\ reply = <<>> /\ ~equipped /\ ~last
ShimAtRest == ShimInit /\ events = <<>> /\ ~stream /\ ~routed /\ pool = "none"

RepliesInit ==
    /\ WindowInit
    /\ \/ part = "hold" /\ ShimAtRest /\ HoldInit
       \/ part = "shim" /\ HoldAtRest /\ ShimInit
       \/ part = "window" /\ HoldAtRest /\ ShimAtRest

RepliesNext ==
    /\ UNCHANGED part
    /\ \/ part = "hold" /\ HoldNext /\ UNCHANGED <<windowVars, shimVars>>
       \/ part = "window" /\ WindowNext /\ UNCHANGED <<holdVars, shimVars>>
       \/ part = "shim" /\ ShimNext /\ UNCHANGED <<holdVars, windowVars>>

RepliesSpec ==
    RepliesInit /\ [][RepliesNext]_<<part, holdVars, windowVars, shimVars>>

=============================================================================
