------------------------------ MODULE MCSampler ------------------------------
EXTENDS Sampler

\* A ring with LOST records and samples, and one with samples only.
MCRecordSizes == <<{6, 8}, {8}>>

\* The ring of the only CPU, with records half as long as the ring.
MCOneRing == <<{4}>>
=============================================================================
