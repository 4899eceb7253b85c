----------------------------- MODULE MCDnsJobs -----------------------------
(* A list with one name twice, one with an address, and a name to type.    *)
EXTENDS DnsJobs

CONSTANTS n, m, ip

MCFiles == {[names |-> <<n, n>>, ips |-> {}], [names |-> <<>>, ips |-> {ip}]}
=============================================================================
