---------------------------- MODULE MCEnrichment ----------------------------
(* Enrichment of one document of two work units, or of two documents.      *)
EXTENDS Enrichment

CONSTANTS s1, s2, s3, u1, u2, u3, u4, u5

MCOwner == [u \in Unit |-> IF u \in {u1, u2} THEN s1 ELSE IF u = u3 THEN s2 ELSE s3]

\* Two documents are enriched once, one document again and again.
MCLimit == [i \in Inputs |-> IF i = {s2, s3} THEN 1 ELSE MaxRuns]

MCRuns == [i \in Inputs |-> MaxRuns]
=============================================================================
