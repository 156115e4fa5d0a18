------------------------------ MODULE MCJitter ------------------------------
EXTENDS Backend
\* Two bytes of code for every instruction, so that a byte may be the first
\* one of an instruction or not.
MCSize == [type \in {"mov_const", "load", "store", "alu", "shift", "asr", "cmp", "call", "ite",
                       "unsigned_cast", "signed_cast", "exit", "read", "write"} |-> 2]
\* Calls without parameters and with the first and the last one.
MCParamSlots == {{}, {1, 4}}
\* The registers of x86_64: one that is caller saved and pushed, one that is
\* pushed only and one that is neither.  Room for two values of 64 bits on i386.
MCBackends ==
    {[machine |-> "x86_64", REG_NUMBER |-> 3, CallerSaved |-> 1, Pushed |-> 2],
     [machine |-> "i386", REG_NUMBER |-> 5, CallerSaved |-> 0, Pushed |-> 0]}
=============================================================================
