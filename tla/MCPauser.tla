------------------------------ MODULE MCPauser ------------------------------
(***************************************************************************)
(* Pauser on one PgBouncer with overlapping requests.                      *)
(***************************************************************************)
EXTENDS Pauser

\* Long enough for a second pause to begin before the first one expires.
LongExpiry == [r \in Request |-> 2]

\* Some requests ask for no expiry.
MixedExpiry == [r \in Request |-> IF r = CHOOSE q \in Request : TRUE THEN 0 ELSE 2]

=============================================================================
