---------------------------- MODULE MCHttpClient ----------------------------
(***************************************************************************)
(* Two sessions; the second cookie is the shorter one.                     *)
(***************************************************************************)
EXTENDS HttpClient

MCCookieLength == <<3, 2>>
=============================================================================
