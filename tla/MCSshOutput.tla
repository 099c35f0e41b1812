---------------------------- MODULE MCSshOutput ----------------------------
(* Model-checking instance of SshOutput.                                     *)
EXTENDS SshOutput
=============================================================================
