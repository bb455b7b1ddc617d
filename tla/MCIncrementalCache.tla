--------------------------- MODULE MCIncrementalCache ---------------------------
(* IncrementalCache in two instances. *)
EXTENDS IncrementalCache, TLC

CONSTANTS i1, i2

TwoInstances == {i1, i2}
Interchangeable == Permutations(TwoInstances)

Page == [kind |-> "page", cdn |-> TRUE, manifest |-> TRUE, seeded |-> TRUE,
         path |-> FALSE, gone |-> FALSE, faulty |-> FALSE]
RuntimePage == [Page EXCEPT !.seeded = FALSE]
\* A prerendered page behind CloudFront; one first rendered at run time, one that
\* comes to answer notFound; calls that fail; a tag that names the path; stale
\* marks that Next.js cannot be told; a fetch entry; no CloudFront.
MCSetups ==
    {Page, RuntimePage, [RuntimePage EXCEPT !.gone = TRUE], [RuntimePage EXCEPT !.faulty = TRUE],
     [RuntimePage EXCEPT !.path = TRUE], [Page EXCEPT !.manifest = FALSE],
     [Page EXCEPT !.kind = "fetch"], [Page EXCEPT !.cdn = FALSE]}

\* Bound. A second revalidation is run after the first, where nothing else varies.
SecondOnPage ==
    revs > 1 => /\ setup = Page /\ renders <= 1
                /\ \E i \in Instances : \A j \in Instances \ {i} : reval[j] = NoRevalidation
=================================================================================
