---------------------------- MODULE MCDnsMessage ----------------------------
(***************************************************************************)
(* Messages of up to 40 bytes: two records fit, a third one does not.      *)
(***************************************************************************)
EXTENDS DnsMessage

MCLengths == {0, 11} \cup 12..40
=============================================================================
