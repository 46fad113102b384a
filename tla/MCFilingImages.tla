--------------------------- MODULE MCFilingImages ---------------------------
EXTENDS FilingImages, TLC

\* Filings and images are alike.
Alike == Permutations(Filings) \union Permutations(Images)
=============================================================================
