------------------------------ MODULE WebUIMC ------------------------------
(* Instances of WebUI for TLC. *)
EXTENDS WebUI

CONSTANTS t1, t2, b1, f1, f2

\* All tabs belong to one browser.
OneBrowser == [t \in Tabs |-> b1]
\* The first login, a second one beside the session there is, pages around a
\* logout, and uploads.
FirstLogin == [kinds |-> {"page", "login", "callback", "logout"}, users |-> {}]
LoginAgain == [kinds |-> {"login", "callback"}, users |-> {b1}]
LeavePages == [kinds |-> {"page", "logout"}, users |-> {b1}]
Uploading == [kinds |-> {"upload"}, users |-> {b1}]

Everyday == {FirstLogin, LoginAgain, LeavePages, Uploading}
=============================================================================
