------------------------------ MODULE MCOptions ------------------------------
EXTENDS Options, OptionInputs
=============================================================================
