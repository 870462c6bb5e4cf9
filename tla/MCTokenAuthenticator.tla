------------------------ MODULE MCTokenAuthenticator ------------------------
(* One token, which becomes valid in version 1 and is revoked in version 2.  *)
EXTENDS TokenAuthenticator

MCAcceptedAt == [t \in Tokens |-> {1}]
=============================================================================
