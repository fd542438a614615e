----------------------- MODULE MCCertificateAuthority -----------------------
(* One command that issues, one that revokes, and the server.              *)
EXTENDS CertificateAuthority
=============================================================================
