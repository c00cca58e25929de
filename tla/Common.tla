------------------------------- MODULE Common -------------------------------
\* The value that stands for an Option that is None, in every module that
\* models one of the smaller components.
CONSTANT None
=============================================================================
