---------------------------- MODULE MCUtilities -----------------------------
(* Two utilities, each for itself: tool says which one runs.  Three keys   *)
(* that collide in tables of some sizes only; two clients that also use    *)
(* the same number.                                                        *)
EXTENDS Hashmap, DnsRelay

CONSTANTS k1, k2, k3, v1, v2, c1, c2, known, n1, n2

VARIABLE tool

MCKey == {k1, k2, k3}
MCValue == {v1, v2}
(* Keys can be exchanged: one order of their hash values is enough.        *)
MCHashes == {f \in [MCKey -> {0, 15, 31}] : f[k1] <= f[k2] /\ f[k2] <= f[k3]}
MCClient == {c1, c2}
MCQueries ==
    {Queried(c1, 1, n1), Queried(c2, 1, n2), Queried(c2, 2, n1), Queried(c1, 2, known)}
MCKnown == {known}

Init ==
    /\ DnsInit
    /\ \/ tool = "hashmap" /\ HashmapInit(Hashes)
       \/ tool = "dns" /\ HashmapInit({[k \in Key |-> 0]})

Next ==
    \/ tool = "hashmap" /\ HashmapNext /\ UNCHANGED <<dnsVars, tool>>
    \/ tool = "dns" /\ DnsNext /\ UNCHANGED <<hashmapVars, tool>>

Spec == Init /\ [][Next]_<<hashmapVars, dnsVars, tool>>

=============================================================================
