--------------------------- MODULE MCBlockingCall ---------------------------
(* Instances of BlockingCall for TLC: an application thread t1, and the       *)
(* thread rx that receives from the core.                                    *)
EXTENDS BlockingCall, TLC

CONSTANTS t1, rx

\* One thread that calls; the handlers do not.
OneCallerTwice == t1 :> 2 @@ rx :> 0

\* One thread that calls, and handlers that do.
WithHandler == t1 :> 3 @@ rx :> 2
=============================================================================
