----------------------------- MODULE MCSending -----------------------------
(***************************************************************************)
(* Three origins, one of them this machine, and the drafts that go through *)
(* each check in turn.                                                     *)
(***************************************************************************)
EXTENDS Sending

CONSTANTS home, api, other

DraftOf(at, method, body, creds, follow, fault) ==
  [at |-> at, method |-> method, body |-> body, creds |-> creds, follow |-> follow,
   fault |-> fault]

MCDraft ==
  {DraftOf(home, "POST", TRUE, {"authorization", "cookie"}, TRUE, "none"),
   DraftOf(api, "GET", FALSE, {"authorization"}, TRUE, "none"),
   DraftOf(api, "POST", TRUE, {"cookie"}, FALSE, "file"),
   DraftOf(home, "HEAD", TRUE, {}, TRUE, "file"),
   DraftOf(api, "GET", FALSE, {}, TRUE, "undefined"),
   DraftOf(home, "GET", FALSE, {}, TRUE, "url"),
   DraftOf(api, "POST", TRUE, {}, TRUE, "header")}

\* Nothing, reading only, anything on one host.
MCPolicy ==
  {Nothing, [Nothing EXCEPT ![api] = {"GET", "HEAD"}], [Nothing EXCEPT ![api] = Method]}

=============================================================================
