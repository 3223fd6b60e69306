------------------------------ MODULE MCGenomRun ------------------------------
EXTENDS GenomRun

CONSTANTS far, near

=============================================================================
