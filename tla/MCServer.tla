------------------------------ MODULE MCServer -------------------------------
(* Instances of Server: start() adds three accounts, fewer are enough.     *)
EXTENDS Server, TLC

OneAccount == <<"123">>
TwoAccounts == <<"123", "456">>

AnyAccount == [p \in Clients |-> Accounts]

\* One user has one account; the others know all, that one too.
OneAndAny ==
  LET one == CHOOSE p \in Clients : TRUE
      own == CHOOSE a \in Accounts : TRUE
  IN  [p \in Clients |-> IF p = one THEN {own} ELSE Accounts]
=============================================================================
