----------------------------- MODULE MCDnsTrace -----------------------------
(* Three servers, any two of whose replies may delegate to each other.      *)
EXTENDS DnsTrace

CONSTANTS root, a, b, n, m

Reply(final, ns, glue) == [final |-> final, ns |-> ns, glue |-> glue]
At(name, addr) == [name |-> name, addr |-> addr]

MCReplies ==
  { Reply(TRUE, <<>>, <<>>),                             \* an answer, or NXDOMAIN
    Reply(FALSE, <<>>, <<>>),                            \* neither answer nor NS
    Reply(FALSE, <<n>>, <<>>),                           \* no glue
    Reply(FALSE, <<n, m>>, <<At(n, a), At(m, b)>>),
    Reply(FALSE, <<n>>, <<At(m, b)>>),                   \* glue for somebody else
    Reply(FALSE, <<n>>, <<At(m, a), At(n, b)>>),
    Reply(FALSE, <<m>>, <<At(m, root)>>) }                  \* back to the root
MCBooks == [{n} -> {<<>>, <<b>>, <<b, a>>}]
MCNs    == {n, m}
MCAll   == {[x \in MCNs |-> IF x = n THEN f[n] ELSE <<a>>] : f \in MCBooks}
MCRoots == <<root, a>>
MCFallback == <<a, b>>
=============================================================================
