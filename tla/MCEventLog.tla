------------------------------ MODULE MCEventLog ------------------------------
(* Instances of EventLog for TLC. *)
EXTENDS EventLog, TLC

CONSTANTS text, exponent

\* The payload "exponent" holds a number such as 1e16, which comes back as "text".
ToInteger == text :> text @@ exponent :> text
=============================================================================
