----------------------------- MODULE MCNtpClient -----------------------------
(***************************************************************************)
(* NtpClient with two servers, replies that may be under way for longer    *)
(* than the resend time and the period, so that those of one attempt meet  *)
(* the next, a boot shortly before the 32-bit seconds wrap, and a count of *)
(* milliseconds that wraps every two seconds.                              *)
(***************************************************************************)
EXTENDS NtpClient
=============================================================================
