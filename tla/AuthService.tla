----------------------------- MODULE AuthService ----------------------------
(***************************************************************************)
(* LoginRemoteAuth (soap/auth_service.py) beside the login servers: a game *)
(* is given the certificate of its persona, which its reports of matches   *)
(* bear.  The service takes account and persona from the authtoken of the  *)
(* request and looks up no ticket, so that a request may name any two.     *)
(* Certificates are made once for a persona and kept; of one only the      *)
(* account it names is modelled.                                           *)
(***************************************************************************)
EXTENDS GameStats

\* _profile_certificates, by persona: the account it names
VARIABLE certificates

AuthInit ==
  /\ GsInit
  /\ certificates = [p \in Personas |-> None]

\* generate_certificate_for_player, unless the persona has one
Certify(u, p) ==
  certificates' = [certificates EXCEPT ![p] = IF @ = None THEN u ELSE @]

\* Mutant: account and persona exist, but are not compared.
LoginRemoteAuthUnowned(u, p) ==
  /\ owner[p] # None
  /\ Certify(u, p)
  /\ UNCHANGED allVars

\* auth_handler, for an account u that owns the persona p
LoginRemoteAuth(u, p) ==
  /\ owner[p] = u
  /\ Certify(u, p)
  /\ UNCHANGED allVars

AuthNext ==
  \/ GsNext /\ UNCHANGED certificates
  \/ \E u \in Users, p \in Personas : LoginRemoteAuth(u, p)

AuthSpec == AuthInit /\ [][AuthNext]_<<allVars, certificates>>

-----------------------------------------------------------------------------
(* Properties *)

\* A certificate names the account that owns its persona, although a request may
\* name the persona of somebody else (and tickets made from the shared context do),
\* and although a certificate is kept for all later requests.
CertificatesAreTrue == \A p \in Personas : certificates[p] \in {None, owner[p]}
=============================================================================
