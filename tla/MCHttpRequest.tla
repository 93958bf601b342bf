--------------------------- MODULE MCHttpRequest ---------------------------
(* Instances of HttpRequest for TLC.                                       *)
EXTENDS HttpRequest

=============================================================================
