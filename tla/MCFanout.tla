------------------------------ MODULE MCFanout ------------------------------
EXTENDS Fanout, FanoutInputs
=============================================================================
