---------------------------- MODULE MCFtpSession ----------------------------
(* FtpSession with the model values of its instances. *)
EXTENDS FtpSession

CONSTANTS home, pub,    \* the server's directories
          bad, none     \* no directory of it
=============================================================================
