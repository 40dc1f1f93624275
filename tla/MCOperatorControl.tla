-------------------------- MODULE MCOperatorControl --------------------------
(***************************************************************************)
(* A model-checking instance of OperatorControl: two operators at two       *)
(* browsers, of which one also holds the shared token.  A behaviour is     *)
(* either about signing in, with a command that tries the sessions, or     *)
(* about commands, posted with the shared token.                           *)
(***************************************************************************)
EXTENDS OperatorControl

CONSTANTS laptop, phone, alice, bob

TwoFocuses ==
    {[nonces |-> 2, tokens |-> 2, commands |-> 1, clock |-> 2, lives |-> 0, faults |-> 1],
     [nonces |-> 0, tokens |-> 0, commands |-> 3, clock |-> 0, lives |-> 2, faults |-> 1]}
=============================================================================
